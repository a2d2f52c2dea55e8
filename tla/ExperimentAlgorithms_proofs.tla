------------------------- MODULE ExperimentAlgorithms_proofs -------------------------
(***************************************************************************)
(* What is proved of the computations.  Pieces, for every length of a      *)
(* recording and every size of a piece: the long part is arithmetic, where *)
(* a piece stands, how much of the recording it covers, and that each      *)
(* frame is kept from a piece that sees all around it that the whole would *)
(* show.  The protection of the count, for every vector and every division *)
(* of the parameters into groups: sums are folds, and what holds of one    *)
(* group after another holds of the whole.  Then the matching of events,   *)
(* that the greedy one is largest; the downbeats that a tracker labels,    *)
(* that no label is lost; the clocks with one change, that times and       *)
(* phases turn back; and the measurements and the gates made of them.      *)
(* Products of two variables are kept whole in the arguments: Grows and    *)
(* Successor say all that is used of them, Quotient all that is used of a  *)
(* division.                                                               *)
(***************************************************************************)
EXTENDS ExperimentAlgorithms, FiniteSetTheorems, SequenceTheorems, WellFoundedInduction, TLAPS

-----------------------------------------------------------------------------
LEMMA LeastOf == ASSUME NEW T, T \subseteq Nat, T # {} PROVE \E x \in T : \A y \in T : x <= y
<1> DEFINE D(x) == 0..x - 1
           B == {D(x) : x \in T}
<1>1. IsWellFoundedOn(StrictSubsetOrdering(Nat), FiniteSubsetsOf(Nat))
  BY FS_StrictSubsetOrderingWellFounded
<1>2. B \subseteq FiniteSubsetsOf(Nat)
  <2>1. ASSUME NEW x \in T PROVE D(x) \in FiniteSubsetsOf(Nat)
    <3>1. D(x) \subseteq Nat /\ 0 \in Int /\ x - 1 \in Int
      OBVIOUS
    <3>2. QED
      BY <3>1, FS_Interval DEF FiniteSubsetsOf
  <2>2. QED
    BY <2>1
<1>3. PICK d \in B : \A e \in B : <<e, d>> \notin StrictSubsetOrdering(Nat)
  <2>1. B # {}
    OBVIOUS
  <2>2. QED
    BY <1>1, <1>2, <2>1, WFMin
<1>4. PICK x \in T : d = D(x)
  BY <1>3
<1>5. ASSUME NEW y \in T, y < x PROVE FALSE
  <2>1. D(y) \subseteq D(x) /\ y \in D(x) /\ y \notin D(y) /\ D(x) \subseteq Nat
    BY <1>5
  <2>2. <<D(y), D(x)>> \in StrictSubsetOrdering(Nat)
    BY <2>1 DEF StrictSubsetOrdering
  <2>3. QED
    BY <1>3, <1>4, <2>2
<1>6. QED
  BY <1>5

-----------------------------------------------------------------------------
\* Products and quotients.
LEMMA Quotient == ASSUME NEW n \in Int, NEW d \in Nat \ {0}
                  PROVE  /\ n \div d \in Int
                         /\ (n \div d) * d <= n
                         /\ n < (n \div d) * d + d
  OBVIOUS

LEMMA Grows == ASSUME NEW a \in Int, NEW b \in Int, NEW d \in Nat, a <= b
               PROVE  a * d \in Int /\ b * d \in Int /\ a * d <= b * d
<1>1. (b - a) * d >= 0
  OBVIOUS
<1>2. (b - a) * d = b * d - a * d
  OBVIOUS
<1>3. QED
  BY <1>1, <1>2

LEMMA Successor == ASSUME NEW a \in Int, NEW d \in Int
                   PROVE  (a + 1) * d = a * d + d /\ (a - 1) * d = a * d - d
  OBVIOUS

LEMMA QuotientIs == ASSUME NEW n \in Int, NEW d \in Nat \ {0}, NEW q \in Int,
                           q * d <= n, n < q * d + d
                    PROVE  n \div d = q
<1>1. n \div d \in Int /\ (n \div d) * d <= n /\ n < (n \div d) * d + d
  BY Quotient
<1> DEFINE p == n \div d
<1> HIDE DEF p
<1>2. ASSUME p + 1 <= q PROVE FALSE
  BY <1>1, <1>2, Grows, Successor DEF p
<1>3. ASSUME q + 1 <= p PROVE FALSE
  BY <1>1, <1>3, Grows, Successor DEF p
<1>4. QED
  BY <1>1, <1>2, <1>3 DEF p

-----------------------------------------------------------------------------
\* Pre-head captures.
LEMMA StrideFacts == /\ Chunk \in Nat /\ Border \in Nat /\ Stride \in Nat \ {0}
                     /\ Chunk = Stride + 2 * Border
  BY ChunkAssumption DEF Stride

LEMMA PiecesFacts ==
    ASSUME NEW n \in Nat
    PROVE  /\ Pieces(n) \in Nat
           /\ n <= Pieces(n) * Stride
           /\ (Pieces(n) - 1) * Stride \in Int /\ (Pieces(n) - 1) * Stride < n
           /\ n > Stride => Pieces(n) > 1
           /\ n <= Stride => Pieces(n) <= 1
<1> DEFINE p == Pieces(n)
<1>1. p \in Int /\ p * Stride <= n + Stride - 1 /\ n + Stride - 1 < p * Stride + Stride
  BY StrideFacts, Quotient DEF Pieces
<1>2. p * Stride \in Int /\ (p - 1) * Stride = p * Stride - Stride
  BY <1>1, StrideFacts, Successor, Grows
<1> HIDE DEF p
<1>3. ASSUME p <= 0 - 1 PROVE FALSE
  BY <1>1, <1>3, StrideFacts, Grows
<1>4. ASSUME n > Stride, p <= 1 PROVE FALSE
  BY <1>1, <1>4, StrideFacts, Grows
<1>5. ASSUME n <= Stride, 2 <= p PROVE FALSE
  BY <1>1, <1>5, StrideFacts, Grows
<1>6. QED
  BY <1>1, <1>2, <1>3, <1>4, <1>5, StrideFacts DEF p

\* Where a chunk may start.
Placed(n, s) ==
    /\ s \in Int /\ -Border <= s /\ s < n
    /\ (n <= Stride /\ s = -Border) \/ (n > Stride /\ s + Chunk <= n + Border)

LEMMA StartIsPlaced ==
    ASSUME NEW n \in Nat, NEW i \in 1..Pieces(n)
    PROVE  /\ Placed(n, Start(n, i))
           /\ (i - 1) * Stride \in Int
           /\ ~ (i = Pieces(n) /\ n > Stride) => Start(n, i) = (i - 1) * Stride - Border
           /\ i = Pieces(n) /\ n > Stride => Start(n, i) = n - (Chunk - Border)
<1>1. Pieces(n) \in Nat /\ i \in Nat /\ 1 <= i /\ i <= Pieces(n)
  BY PiecesFacts
<1>2. /\ (i - 1) * Stride \in Int /\ i * Stride \in Int
      /\ (i - 1) * Stride >= 0 /\ (i - 1) * Stride = i * Stride - Stride
  BY <1>1, StrideFacts, Grows, Successor
<1>4. (i - 1) * Stride < n
  <2>1. (i - 1) * Stride <= (Pieces(n) - 1) * Stride
    BY <1>1, StrideFacts, Grows
  <2>2. QED
    BY <1>2, <2>1, PiecesFacts
<1>3. n > 0
  BY <1>2, <1>4
<1>5. CASE n <= Stride
  <2>1. i = 1
    BY <1>1, <1>5, PiecesFacts
  <2>2. (i - 1) * Stride = 0
    BY <2>1, StrideFacts
  <2>3. QED
    BY <1>3, <1>5, <2>2, StrideFacts DEF Placed, Start
<1>6. CASE n > Stride /\ i = Pieces(n)
  BY <1>2, <1>6, StrideFacts DEF Placed, Start
<1>7. CASE n > Stride /\ i # Pieces(n)
  <2>1. i * Stride < n
    <3>1. i * Stride <= (Pieces(n) - 1) * Stride
      BY <1>1, <1>7, StrideFacts, Grows
    <3>2. QED
      BY <1>2, <3>1, PiecesFacts
  <2>2. QED
    BY <1>2, <1>4, <1>7, <2>1, StrideFacts DEF Placed, Start
<1>8. QED
  BY <1>5, <1>6, <1>7, StrideFacts

\* The size of a chunk, and where it is written.
LEMMA RowFacts ==
    ASSUME NEW n \in Nat, NEW s, Placed(n, s)
    PROVE  LET row == Row(n, s)
           IN  /\ row.size = IF n > Stride THEN Chunk ELSE n + 2 * Border
               /\ row.start = s /\ row.write_start = s + Border /\ row.write_end = s + row.size - Border
               /\ row.left \in Nat /\ row.right \in Nat
               /\ row.source_start - row.left = s /\ row.source_start \in Nat
               /\ \A j \in 0..row.size - 1 :
                     j < row.left \/ j >= row.size - row.right <=> s + j \notin 0..n - 1
  BY StrideFacts DEF Placed, Row, Larger, Smaller

\* What an encoder of the whole recording sees around t.
LEMMA WholeReach ==
    ASSUME NEW n \in Nat, NEW t \in 0..n - 1, NEW h \in Nat
    PROVE  Whole(n, h)[t] = [k \in -h..h |-> IF t + k \in 0..n - 1 THEN t + k ELSE Padding]
  BY DEF Whole, Encode, Recording, Reach

LEMMA SplitAt ==
    ASSUME NEW n \in Nat, NEW i \in 1..Pieces(n), NEW j \in 0..Row(n, Start(n, i)).size - 1
    PROVE  split(n)[i][j] = IF Start(n, i) + j \in 0..n - 1 THEN Start(n, i) + j ELSE Padding
<1> DEFINE s == Start(n, i)
<1>1. Placed(n, s)
  BY StartIsPlaced
<1> HIDE DEF s
<1> DEFINE row == Row(n, s)
<1>2. /\ row.left \in Nat /\ row.source_start \in Nat /\ row.source_start - row.left = s
      /\ j < row.left \/ j >= row.size - row.right <=> s + j \notin 0..n - 1
  BY <1>1, RowFacts DEF s
<1>3. /\ i \in DOMAIN layout(n) /\ layout(n)[i] = row
      /\ split(n)[i][j] = IF j < row.left \/ j >= row.size - row.right THEN Padding
                          ELSE row.source_start + j - row.left
  BY DEF s, layout, split
<1>4. row.source_start + j - row.left = s + j
  <2> HIDE DEF row
  <2>1. QED
    BY <1>1, <1>2 DEF Placed
<1>5. QED
  BY <1>2, <1>3, <1>4 DEF s

\* The encoder sees around each place it is kept from what it would see in the whole.
LEMMA PieceSeesWhole ==
    ASSUME NEW n \in Nat, NEW i \in 1..Pieces(n), NEW t \in 0..n - 1, Owns(n, i, t)
    PROVE  Encode(split(n)[i], Border)[t - Start(n, i)] = Whole(n, Border)[t]
<1> DEFINE s == Start(n, i)
           size == Row(n, s).size
           x == split(n)[i]
<1>1. s \in Int /\ size \in Nat /\ s + Border <= t /\ t < s + size - Border
  BY StartIsPlaced, RowFacts, StrideFacts DEF Placed, Owns, layout
<1>2. DOMAIN x = 0..size - 1
  BY DEF split, layout
<1>3. ASSUME NEW j \in 0..size - 1 PROVE x[j] = IF s + j \in 0..n - 1 THEN s + j ELSE Padding
  BY SplitAt
<1> HIDE DEF s, size, x
<1>4. t - s \in 0..size - 1 /\ \A k \in -Border..Border : t - s + k \in 0..size - 1 /\ s + (t - s + k) = t + k
  BY <1>1, StrideFacts
<1>5. Encode(x, Border)[t - s] = Reach(x, t - s, Border)
  BY <1>2, <1>4 DEF Encode
<1>6. Reach(x, t - s, Border) = [k \in -Border..Border |-> IF t + k \in 0..n - 1 THEN t + k ELSE Padding]
  BY <1>2, <1>3, <1>4 DEF Reach
<1>7. Whole(n, Border)[t] = [k \in -Border..Border |-> IF t + k \in 0..n - 1 THEN t + k ELSE Padding]
  BY WholeReach, StrideFacts
<1>8. QED
  BY <1>5, <1>6, <1>7 DEF s, x

LEMMA FrameIsOwned ==
    ASSUME NEW n \in Nat, NEW t \in 0..n - 1
    PROVE  OwnersOf(n, t) # {}
<1> DEFINE q == t \div Stride
           p == Pieces(n)
<1>1. q \in Int /\ q * Stride \in Int /\ q * Stride <= t /\ t < q * Stride + Stride
  BY Quotient, StrideFacts
<1>2. /\ p \in Nat /\ p * Stride \in Int /\ n <= p * Stride
      /\ n > Stride => p > 1
  BY PiecesFacts, StrideFacts, Grows
<1> HIDE DEF q, p
<1>3. q >= 0
  <2>1. ASSUME q <= -1 PROVE FALSE
    <3>1. q * Stride <= (-1) * Stride
      BY <1>1, <2>1, StrideFacts, Grows
    <3>2. QED
      BY <1>1, <3>1, StrideFacts
  <2>2. QED
    BY <1>1, <2>1
<1>4. q < p
  <2>1. ASSUME p <= q PROVE FALSE
    BY <1>1, <1>2, <2>1, StrideFacts, Grows
  <2>2. QED
    BY <1>1, <1>2, <2>1
<1> DEFINE i == q + 1
<1>5. i \in 1..p /\ i \in DOMAIN layout(n)
  BY <1>1, <1>2, <1>3, <1>4 DEF layout, p
<1>6. (i - 1) * Stride = q * Stride
  BY <1>1
<1> HIDE DEF i
<1> DEFINE s == Start(n, i)
<1>7. /\ Placed(n, s)
      /\ ~ (i = p /\ n > Stride) => s = q * Stride - Border
      /\ i = p /\ n > Stride => s = n - (Chunk - Border)
  BY <1>5, <1>6, StartIsPlaced DEF p
<1>8. /\ layout(n)[i] = Row(n, s)
      /\ Row(n, s).size = IF n > Stride THEN Chunk ELSE n + 2 * Border
      /\ Row(n, s).write_start = s + Border
      /\ Row(n, s).write_end = s + Row(n, s).size - Border
  BY <1>5, <1>7, RowFacts DEF layout, p
<1> HIDE DEF s
<1>9. Owns(n, i, t)
  <2>1. s \in Int
    BY <1>7 DEF Placed
  <2>2. CASE n <= Stride
    <3>1. s = -Border
      BY <1>7, <2>2, StrideFacts DEF Placed
    <3>2. QED
      BY <1>8, <2>2, <3>1, StrideFacts DEF Owns
  <2>3. CASE n > Stride /\ i # p
    BY <1>1, <1>7, <1>8, <2>3, StrideFacts DEF Owns
  <2>4. CASE n > Stride /\ i = p
    <3>1. q * Stride = p * Stride - Stride
      BY <1>1, <1>2, <2>4, StrideFacts, Successor DEF i
    <3>2. QED
      BY <1>1, <1>2, <1>7, <1>8, <2>4, <3>1, StrideFacts DEF Owns
  <2>5. QED
    BY <2>2, <2>3, <2>4, StrideFacts
<1>10. QED
  BY <1>5, <1>9 DEF OwnersOf

LEMMA CapturedIsWhole == ASSUME NEW n \in Nat PROVE Captured(n) = Whole(n, Border)
<1> DEFINE encoded == [i \in DOMAIN split(n) |-> Encode(split(n)[i], Border)]
<1>1. ASSUME NEW t \in 0..n - 1 PROVE Captured(n)[t] = Whole(n, Border)[t]
  <2> DEFINE i == First(OwnersOf(n, t))
  <2>1. i \in OwnersOf(n, t)
    <3>1. OwnersOf(n, t) \subseteq Nat
      BY PiecesFacts DEF OwnersOf, layout
    <3>2. QED
      BY <3>1, FrameIsOwned, LeastOf DEF First
  <2>2. i \in 1..Pieces(n) /\ Owns(n, i, t)
    BY <2>1 DEF OwnersOf, layout
  <2>3. i \in DOMAIN split(n) /\ layout(n)[i].start = Start(n, i)
    BY <2>2 DEF split, layout, Row
  <2>4. Captured(n)[t] = encoded[i][t - layout(n)[i].start]
    BY FrameIsOwned DEF Captured, stitch
  <2> HIDE DEF i
  <2>5. QED
    BY <2>2, <2>3, <2>4, PieceSeesWhole
<1>2. Captured(n) = [t \in 0..n - 1 |-> Captured(n)[t]]
  BY DEF Captured, stitch
<1>3. Whole(n, Border) = [t \in 0..n - 1 |-> Whole(n, Border)[t]]
  BY DEF Whole, Encode, Recording
<1> HIDE DEF encoded
<1>4. QED
  BY <1>1, <1>2, <1>3

\* A recording longer than a chunk's own frames is cut into full chunks.
LEMMA FullChunks ==
    ASSUME NEW n \in Nat, n > Stride, NEW i \in 1..Pieces(n)
    PROVE  layout(n)[i].size = Chunk
  BY StartIsPlaced, RowFacts DEF layout

-----------------------------------------------------------------------------
\* Readout windows.
LEMMA PredictedIsWhole == ASSUME NEW n \in Nat PROVE predict(n) = Whole(n, Halo)
<1>1. Centers \in Nat \ {0} /\ Halo \in Nat
  BY WindowAssumption
<1>2. ASSUME NEW t \in 0..n - 1 PROVE predict(n)[t] = Whole(n, Halo)[t]
  <2> DEFINE q == t \div Centers
             count == (n + Centers - 1) \div Centers
             start == q * Centers
             x == context(Recording(n), n, start)
  <2>1. q \in Int /\ start \in Int /\ start <= t /\ t < start + Centers
    BY <1>1, Quotient
  <2>2. count \in Int /\ count * Centers \in Int /\ n + Centers - 1 < count * Centers + Centers
    BY <1>1, Quotient
  <2> HIDE DEF q, count
  <2>3. q >= 0
    <3>1. ASSUME q <= -1 PROVE FALSE
      <4>1. q * Centers <= (-1) * Centers
        BY <1>1, <2>1, <3>1, Grows
      <4>2. QED
        BY <1>1, <2>1, <4>1
    <3>2. QED
      BY <2>1, <3>1
  <2>4. q < count
    <3>1. ASSUME count <= q PROVE FALSE
      <4>1. count * Centers <= q * Centers
        BY <1>1, <2>1, <2>2, <3>1, Grows
      <4>2. QED
        BY <1>1, <2>1, <2>2, <4>1
    <3>2. QED
      BY <2>1, <2>2, <3>1
  <2>5. q + 1 \in 1..count /\ (q + 1) - 1 = q
    BY <2>1, <2>2, <2>3, <2>4
  <2>6. windows(n)[q + 1][1] = start
    BY <2>5 DEF windows, count
  <2>7. predict(n)[t] = Encode(x, Halo)[Halo + t - start]
    BY <2>6 DEF predict, q
  <2> HIDE DEF start
  <2>8. DOMAIN x = 0..Centers + 2 * Halo - 1
    BY DEF context
  <2>9. ASSUME NEW j \in 0..Centers + 2 * Halo - 1
        PROVE  x[j] = IF start - Halo + j \in 0..n - 1 THEN start - Halo + j ELSE Padding
    BY <1>1, <2>1 DEF context, Recording, Larger, Smaller
  <2> HIDE DEF x
  <2>10. /\ Halo + t - start \in 0..Centers + 2 * Halo - 1
         /\ \A k \in -Halo..Halo : /\ Halo + t - start + k \in 0..Centers + 2 * Halo - 1
                                   /\ start - Halo + (Halo + t - start + k) = t + k
    BY <1>1, <2>1
  <2>11. predict(n)[t] = Reach(x, Halo + t - start, Halo)
    BY <2>7, <2>8, <2>10 DEF Encode
  <2>12. Reach(x, Halo + t - start, Halo) = [k \in -Halo..Halo |-> IF t + k \in 0..n - 1 THEN t + k ELSE Padding]
    BY <2>8, <2>9, <2>10 DEF Reach
  <2>13. QED
    BY <1>1, <2>11, <2>12, WholeReach
<1>3. predict(n) = [t \in 0..n - 1 |-> predict(n)[t]]
  BY DEF predict
<1>4. Whole(n, Halo) = [t \in 0..n - 1 |-> Whole(n, Halo)[t]]
  BY DEF Whole, Encode, Recording
<1>5. QED
  BY <1>2, <1>3, <1>4

-----------------------------------------------------------------------------
\* MusicFM contexts.  A hop is HopTokens tokens long.
HopTokens == 2 * HalfTokens

LEMMA TokenFacts == /\ Hop \in Nat \ {0} /\ HalfTokens \in Nat \ {0} /\ HopTokens \in Nat \ {0}
                    /\ TokenSamples \in Nat \ {0} /\ TokenSamples = 4 * Hop
                    /\ HopSamples = HopTokens * TokenSamples /\ HopSamples \in Nat \ {0}
                    /\ HopSamples \div 2 = HalfTokens * TokenSamples
                    /\ ContextSamples = (2 * HopTokens) * TokenSamples /\ ContextSamples \in Nat
<1>1. Hop \in Nat \ {0} /\ HalfTokens \in Nat \ {0} /\ HopTokens \in Nat \ {0}
      /\ TokenSamples \in Nat \ {0} /\ TokenSamples = 4 * Hop
  BY TokenAssumption DEF HopTokens, TokenSamples
<1>2. HopSamples = HopTokens * TokenSamples /\ HopSamples = 2 * (HalfTokens * TokenSamples)
  BY <1>1 DEF HopSamples, HopTokens
<1>3. HalfTokens * TokenSamples \in Nat \ {0}
  BY <1>1
<1>4. QED
  BY <1>1, <1>2, <1>3 DEF ContextSamples

\* Tokens are counted from the samples of whole ones.
LEMMA TokensOf ==
    ASSUME NEW m \in Nat, NEW k \in Nat, k * TokenSamples <= m
    PROVE  tokens(m) \in Nat /\ k <= tokens(m) /\ tokens(m - k * TokenSamples) = tokens(m) - k
<1> DEFINE q == m \div Hop
<1>1. /\ k * TokenSamples = (4 * k) * Hop /\ k * TokenSamples \in Nat
      /\ q \in Int /\ q * Hop \in Int /\ q * Hop <= m /\ m < q * Hop + Hop
  BY TokenFacts, Quotient
<1> HIDE DEF q
<1>2. 4 * k <= q
  <2>1. ASSUME q + 1 <= 4 * k PROVE FALSE
    <3>1. (q + 1) * Hop <= (4 * k) * Hop /\ (q + 1) * Hop = q * Hop + Hop
      BY <1>1, <2>1, TokenFacts, Grows, Successor
    <3>2. QED
      BY <1>1, <3>1, TokenFacts
  <2>2. QED
    BY <1>1, <2>1
<1>3. (m - k * TokenSamples) \div Hop = q - 4 * k
  <2>1. (q - 4 * k) * Hop = q * Hop - (4 * k) * Hop
    BY <1>1, TokenFacts
  <2>2. QED
    BY <1>1, <1>2, <2>1, QuotientIs, TokenFacts
<1>4. tokens(m) = (q + 3) \div 4 /\ tokens(m - k * TokenSamples) = (q - 4 * k + 3) \div 4
  BY <1>3 DEF tokens, q
<1>5. QED
  BY <1>1, <1>2, <1>4

LEMMA WholeTokens == ASSUME NEW k \in Nat PROVE tokens(k * TokenSamples) = k
<1>1. k * TokenSamples \in Nat /\ k * TokenSamples <= k * TokenSamples /\ k * TokenSamples - k * TokenSamples = 0
  BY TokenFacts
<1>2. tokens(0) = 0
  <2>1. 0 \div Hop = 0
    BY TokenFacts, QuotientIs
  <2>2. QED
    BY <2>1 DEF tokens
<1>3. QED
  BY <1>1, <1>2, TokensOf

\* How many contexts there are, in hops.
LEMMA ContextsFacts ==
    ASSUME NEW m \in Nat
    PROVE  LET count == Contexts(m) IN
           /\ count \in Nat \ {0}
           /\ m <= (count - 1) * HopSamples + ContextSamples
           /\ count > 1 => (count - 2) * HopSamples + ContextSamples < m
<1> DEFINE r == (m - ContextSamples + HopSamples - 1) \div HopSamples
<1>1. CASE m <= ContextSamples
  BY <1>1, TokenFacts DEF Contexts
<1>2. CASE m > ContextSamples
  <2>1. /\ r \in Int /\ r * HopSamples \in Int
        /\ r * HopSamples <= m - ContextSamples + HopSamples - 1
        /\ m - ContextSamples + HopSamples - 1 < r * HopSamples + HopSamples
    <3>1. m - ContextSamples + HopSamples - 1 \in Int
      BY TokenFacts
    <3>2. r \in Int /\ r * HopSamples \in Int
      BY <3>1, Quotient, TokenFacts
    <3>3. QED
      BY <3>1, <3>2, Quotient, TokenFacts
  <2>2. Contexts(m) = 1 + r
    BY <1>2, TokenFacts DEF Contexts
  <2> HIDE DEF r
  <2>3. r >= 1
    <3>1. ASSUME r <= 0 PROVE FALSE
      <4>1. r * HopSamples <= 0 * HopSamples
        BY <2>1, <3>1, TokenFacts, Grows
      <4>2. QED
        BY <1>2, <2>1, <4>1, TokenFacts
    <3>2. QED
      BY <2>1, <3>1
  <2>4. /\ (1 + r) - 1 = r /\ (1 + r) - 2 = r - 1
        /\ (r - 1) * HopSamples = r * HopSamples - HopSamples
    BY <2>1, TokenFacts, Successor
  <2>5. QED
    BY <1>2, <2>1, <2>2, <2>3, <2>4, TokenFacts
<1>3. QED
  BY <1>1, <1>2, TokenFacts

\* Where the i-th context of m samples stands, in tokens.
LEMMA ContextFacts ==
    ASSUME NEW m \in Nat, TokenSamples <= m, NEW i \in 1..Contexts(m)
    PROVE  LET count == Contexts(m)
               row == chunks(m)[i]
               u == (i - 1) * HopTokens
               all == tokens(m)
           IN  /\ u \in Nat /\ all \in Nat /\ (i = 1 => u = 0)
               /\ row.token_start = u
               /\ row.own_start = (IF i = 1 THEN 0 ELSE u + HalfTokens)
               /\ i < count => /\ row.token_count = 2 * HopTokens
                               /\ row.own_stop = u + HopTokens + HalfTokens
                               /\ u + 2 * HopTokens <= all
               /\ i = count => /\ row.token_count = all - u
                               /\ row.own_stop = all
                               /\ u + (IF count = 1 THEN 1 ELSE HopTokens) <= all
<1> DEFINE count == Contexts(m)
           u == (i - 1) * HopTokens
           all == tokens(m)
           T == TokenSamples
<1>1. /\ count \in Nat \ {0} /\ i \in Nat /\ 1 <= i /\ i <= count
      /\ m <= (count - 1) * HopSamples + ContextSamples
      /\ count > 1 => (count - 2) * HopSamples + ContextSamples < m
  BY ContextsFacts
<1>2. /\ u \in Nat /\ u * T \in Nat /\ (i - 1) * HopSamples = u * T
      /\ (i - 1) * HopSamples + HopSamples \div 2 = (u + HalfTokens) * T
      /\ u * T + ContextSamples = (u + 2 * HopTokens) * T
      /\ i * HopSamples + HopSamples \div 2 = (u + HopTokens + HalfTokens) * T
      /\ (u + HopTokens) * T = u * T + HopSamples
      /\ (i = 1 => u = 0)
  <2>1. u \in Nat
    BY <1>1, TokenFacts, Grows
  <2>2. (i - 1) * HopSamples = u * T
    BY <1>1, TokenFacts
  <2>3. i * HopSamples = u * T + HopTokens * T
    <3>1. i * HopSamples = (i - 1) * HopSamples + HopSamples
      BY <1>1, TokenFacts, Successor
    <3>2. QED
      BY <2>2, <3>1, TokenFacts
  <2> HIDE DEF u
  <2>4. /\ (u + HalfTokens) * T = u * T + HalfTokens * T
        /\ (u + 2 * HopTokens) * T = u * T + (2 * HopTokens) * T
        /\ (u + HopTokens + HalfTokens) * T = u * T + HopTokens * T + HalfTokens * T
        /\ (u + HopTokens) * T = u * T + HopTokens * T
        /\ u * T \in Nat
    BY <2>1, TokenFacts
  <2>5. i = 1 => u = 0
    BY TokenFacts DEF u
  <2>6. QED
    BY <2>1, <2>2, <2>3, <2>4, <2>5, TokenFacts
<1> DEFINE row == chunks(m)[i]
<1>3. /\ row.token_start = ((i - 1) * HopSamples) \div T
      /\ row.token_count = tokens(Smaller(ContextSamples, m - (i - 1) * HopSamples))
      /\ row.own_start = Seam(m, i) /\ row.own_stop = Seam(m, i + 1)
  BY <1>1 DEF chunks
<1> HIDE DEF u
<1>4. \A k \in Nat : (k * T) \div T = k
  <2>1. ASSUME NEW k \in Nat PROVE (k * T) \div T = k
    <3>1. k * T \in Int
      BY TokenFacts
    <3>2. QED
      BY <3>1, QuotientIs, TokenFacts
  <2>2. QED
    BY <2>1
<1>5. row.token_start = u
  BY <1>2, <1>3, <1>4
<1>6. row.own_start = (IF i = 1 THEN 0 ELSE u + HalfTokens)
  <2>1. i > 1 => Seam(m, i) = u + HalfTokens
    BY <1>1, <1>2, <1>4, TokenFacts DEF Seam
  <2>2. i = 1 => Seam(m, i) = 0
    BY DEF Seam
  <2>3. QED
    BY <1>1, <1>3, <2>1, <2>2
<1>7. all \in Nat
  BY TokensOf, TokenFacts
<1>8. ASSUME i < count
      PROVE  /\ row.token_count = 2 * HopTokens
             /\ row.own_stop = u + HopTokens + HalfTokens
             /\ u + 2 * HopTokens <= all
  <2>1. u * T + ContextSamples < m
    <3>1. (i - 1) * HopSamples <= (count - 2) * HopSamples
      BY <1>1, <1>8, TokenFacts, Grows
    <3>2. (count - 2) * HopSamples \in Int
      BY <1>1, TokenFacts
    <3>3. QED
      BY <1>1, <1>2, <1>8, <3>1, <3>2, TokenFacts
  <2>2. Smaller(ContextSamples, m - u * T) = (2 * HopTokens) * T
    BY <1>2, <2>1, TokenFacts DEF Smaller
  <2>3. 2 * HopTokens \in Nat /\ u + 2 * HopTokens \in Nat /\ u + HopTokens + HalfTokens \in Nat
    BY <1>2, TokenFacts
  <2>4. row.token_count = 2 * HopTokens
    BY <1>2, <1>3, <2>2, <2>3, WholeTokens
  <2>5. (u + 2 * HopTokens) * T <= m
    BY <1>2, <2>1, TokenFacts
  <2>6. u + 2 * HopTokens <= all
    BY <2>3, <2>5, TokensOf
  <2>7. Seam(m, i + 1) = (i * HopSamples + HopSamples \div 2) \div T
    BY <1>1, <1>8 DEF Seam
  <2>8. QED
    BY <1>2, <1>3, <1>4, <2>3, <2>4, <2>6, <2>7
<1>9. ASSUME i = count
      PROVE  /\ row.token_count = all - u
             /\ row.own_stop = all
             /\ u + (IF count = 1 THEN 1 ELSE HopTokens) <= all
  <2>1. m - u * T <= ContextSamples
    BY <1>1, <1>2, <1>9, TokenFacts
  <2>2. CASE count = 1
    <3>1. u * T = 0 /\ u = 0 /\ 1 * T <= m
      BY <1>2, <1>9, <2>2, TokenFacts
    <3>2. 1 <= all
      BY <3>1, TokensOf
    <3>3. QED
      BY <1>1, <1>3, <1>7, <1>9, <2>1, <2>2, <3>1, <3>2, <1>2, TokenFacts DEF Smaller, Seam
  <2>3. CASE count > 1
    <3>1. (u + HopTokens) * T < m
      <4>1. (count - 2) * HopSamples = u * T - HopSamples
        <5>1. i - 1 \in Int /\ (i - 1) - 1 = count - 2
          BY <1>1, <1>9
        <5>2. ((i - 1) - 1) * HopSamples = (i - 1) * HopSamples - HopSamples
          BY <5>1, TokenFacts, Successor
        <5>3. QED
          BY <1>2, <5>1, <5>2
      <4>2. ContextSamples = HopSamples + HopSamples
        BY TokenFacts DEF ContextSamples
      <4>3. QED
        BY <1>1, <1>2, <2>3, <4>1, <4>2, TokenFacts
    <3>2. u + HopTokens \in Nat /\ u * T <= m
      BY <1>2, <3>1, TokenFacts
    <3>3. u + HopTokens <= all /\ tokens(m - u * T) = all - u
      BY <1>2, <3>1, <3>2, TokensOf, TokenFacts
    <3>4. Smaller(ContextSamples, m - u * T) = m - u * T
      BY <1>2, <2>1, TokenFacts DEF Smaller
    <3>5. Seam(m, i + 1) = all
      BY <1>1, <1>9 DEF Seam
    <3>6. QED
      BY <1>2, <1>3, <2>3, <3>3, <3>4, <3>5
  <2>4. QED
    BY <1>1, <2>2, <2>3
<1>10. QED
  BY <1>2, <1>5, <1>6, <1>7, <1>8, <1>9 DEF u

\* Each token has one owner: contexts own what lies between the seams.
LEMMA SeamsInOrder ==
    ASSUME NEW m \in Nat, TokenSamples <= m,
           NEW i \in 1..Contexts(m), NEW k \in 1..Contexts(m), i < k
    PROVE  chunks(m)[i].own_stop <= chunks(m)[k].own_start
<1> DEFINE u == (i - 1) * HopTokens
           v == (k - 1) * HopTokens
<1>1. Contexts(m) \in Nat /\ i \in Nat /\ k \in Nat /\ k <= Contexts(m) /\ i < Contexts(m) /\ k # 1
  BY ContextsFacts
<1>2. u \in Nat /\ v \in Nat /\ u + HopTokens <= v
  <2>1. u \in Nat /\ v \in Nat
    BY ContextFacts
  <2>2. i * HopTokens <= v
    BY <1>1, TokenFacts, Grows
  <2>3. i * HopTokens = u + HopTokens
    BY <1>1, TokenFacts, Successor
  <2>4. QED
    BY <2>1, <2>2, <2>3
<1>3. chunks(m)[i].own_stop = u + HopTokens + HalfTokens /\ chunks(m)[k].own_start = v + HalfTokens
  BY <1>1, ContextFacts
<1> HIDE DEF u, v
<1>4. QED
  BY <1>2, <1>3, TokenFacts

OwnsToken(m, t, i) ==
    chunks(m)[i].own_start <= t /\ t < chunks(m)[i].own_stop

LEMMA TokenIsOwned ==
    ASSUME NEW m \in Nat, TokenSamples <= m, NEW t \in 0..tokens(m) - 1
    PROVE  \E i \in 1..Contexts(m) : OwnsToken(m, t, i)
<1> DEFINE count == Contexts(m)
           all == tokens(m)
           q == (t - HalfTokens) \div HopTokens
<1>1. count \in Nat \ {0} /\ all \in Nat /\ t \in Nat /\ t < all
  <2>1. all \in Nat
    BY TokensOf, TokenFacts
  <2>2. QED
    BY <2>1, ContextsFacts
<1>2. q \in Int /\ q * HopTokens \in Int /\ q * HopTokens <= t - HalfTokens /\ t - HalfTokens < q * HopTokens + HopTokens
  BY <1>1, Quotient, TokenFacts
<1> HIDE DEF q
<1>3. CASE q < 0
  <2>1. t < HalfTokens
    <3>1. q * HopTokens <= (-1) * HopTokens /\ (-1) * HopTokens = -HopTokens
      BY <1>2, <1>3, Grows, TokenFacts
    <3>2. QED
      BY <1>1, <1>2, <3>1, TokenFacts
  <2>2. 1 \in 1..count /\ (1 - 1) * HopTokens = 0
    BY <1>1, TokenFacts
  <2>3. QED
    BY <1>1, <2>1, <2>2, ContextFacts, TokenFacts DEF OwnsToken
<1>4. CASE q >= 0 /\ q < count
  <2> DEFINE i == q + 1
  <2>1. i \in 1..count /\ (i - 1) * HopTokens = q * HopTokens
    BY <1>1, <1>2, <1>4
  <2> HIDE DEF i
  <2>2. QED
    BY <1>1, <1>2, <2>1, ContextFacts, TokenFacts DEF OwnsToken
<1>5. CASE q >= count
  <2>1. count \in 1..count /\ (count - 1) * HopTokens <= q * HopTokens /\ (count - 1) * HopTokens \in Int
    BY <1>1, <1>2, <1>5, Grows, TokenFacts
  <2>2. /\ chunks(m)[count].own_stop = all
        /\ chunks(m)[count].own_start = (IF count = 1 THEN 0 ELSE (count - 1) * HopTokens + HalfTokens)
    BY <2>1, ContextFacts
  <2>3. (count - 1) * HopTokens + HalfTokens <= t
    BY <1>1, <1>2, <2>1, TokenFacts
  <2>4. QED
    BY <1>1, <2>1, <2>2, <2>3 DEF OwnsToken
<1>6. QED
  BY <1>1, <1>2, <1>3, <1>4, <1>5

LEMMA PlanIsAdmissible ==
    ASSUME NEW m \in Nat, TokenSamples <= m
    PROVE  Admissible(chunks(m), m)
<1>1. DOMAIN chunks(m) = 1..Contexts(m) /\ Contexts(m) \in Nat
  BY ContextsFacts DEF chunks
<1>2. ASSUME NEW i \in 1..Contexts(m)
      PROVE  LET row == chunks(m)[i]
                 start == row.own_start - row.token_start
             IN  /\ 0 <= start /\ row.own_start < row.own_stop
                 /\ start + row.own_stop - row.own_start <= row.token_count
                 /\ row.own_start \in Int /\ row.own_stop \in Int
  <2> DEFINE u == (i - 1) * HopTokens
             row == chunks(m)[i]
  <2>1. i \in Nat /\ i <= Contexts(m)
    BY <1>1
  <2>5. /\ u \in Nat /\ row.token_start = u /\ tokens(m) \in Nat
        /\ row.own_start = (IF i = 1 THEN 0 ELSE u + HalfTokens) /\ (i = 1 => u = 0)
    BY ContextFacts
  <2>2. CASE i < Contexts(m)
    <3>1. row.token_count = 2 * HopTokens /\ row.own_stop = u + HopTokens + HalfTokens
      BY <2>2, ContextFacts
    <3> HIDE DEF u, row
    <3>2. QED
      BY <2>5, <3>1, TokenFacts DEF row, HopTokens
  <2>3. CASE i = Contexts(m)
    <3>1. /\ row.token_count = tokens(m) - u /\ row.own_stop = tokens(m)
          /\ u + (IF Contexts(m) = 1 THEN 1 ELSE HopTokens) <= tokens(m)
      BY <2>3, ContextFacts
    <3> HIDE DEF u, row
    <3>2. QED
      BY <2>1, <2>3, <2>5, <3>1, TokenFacts DEF row, HopTokens
  <2>4. QED
    BY <1>1, <2>1, <2>2, <2>3
<1>3. ASSUME NEW t \in 0..tokens(m) - 1
      PROVE  \E i \in 1..Contexts(m) :
                /\ chunks(m)[i].own_start <= t /\ t < chunks(m)[i].own_stop
                /\ \A k \in 1..Contexts(m) \ {i} : ~(chunks(m)[k].own_start <= t /\ t < chunks(m)[k].own_stop)
  <2>1. PICK i \in 1..Contexts(m) : OwnsToken(m, t, i)
    BY TokenIsOwned
  <2>2. ASSUME NEW k \in 1..Contexts(m), k # i, OwnsToken(m, t, k) PROVE FALSE
    <3>1. i < k \/ k < i
      BY <1>1, <2>2
    <3>2. tokens(m) \in Nat
      BY TokensOf, TokenFacts
    <3>3. QED
      BY <1>2, <2>1, <2>2, <3>1, <3>2, SeamsInOrder DEF OwnsToken
  <2>3. QED
    BY <2>1, <2>2 DEF OwnsToken
<1>4. QED
  BY <1>1, <1>2, <1>3 DEF Admissible

LEMMA ContextualIsWhole ==
    ASSUME NEW m \in Nat, TokenSamples <= m
    PROVE  Contextual(m) = Whole(tokens(m), HalfTokens)
<1> DEFINE all == tokens(m)
           plan == chunks(m)
           Tokens(i) == [j \in 0..plan[i].token_count - 1 |-> plan[i].token_start + j]
           features == [i \in DOMAIN plan |-> Encode(Tokens(i), HalfTokens)]
<1>1. Contextual(m) = Joined(m, features)
  BY PlanIsAdmissible DEF Contextual
<1>2. DOMAIN plan = 1..Contexts(m) /\ Contexts(m) \in Nat /\ all \in Nat
  BY ContextsFacts, TokensOf, TokenFacts DEF chunks
<1>3. ASSUME NEW t \in 0..all - 1 PROVE Joined(m, features)[t] = Whole(all, HalfTokens)[t]
  <2> DEFINE i == CHOOSE k \in DOMAIN plan : plan[k].own_start <= t /\ t < plan[k].own_stop
             u == (i - 1) * HopTokens
             x == Tokens(i)
             size == plan[i].token_count
  <2>1. i \in 1..Contexts(m) /\ OwnsToken(m, t, i)
    BY <1>2, TokenIsOwned DEF OwnsToken
  <2>2. Joined(m, features)[t] = features[i][t - plan[i].token_start]
    BY DEF Joined
  <2> HIDE DEF i
  <2>3. i \in Nat /\ i <= Contexts(m) /\ u \in Nat /\ plan[i].token_start = u
    BY <1>2, <2>1, ContextFacts
  <2>4. /\ size \in Nat /\ t - u \in 0..size - 1
        /\ \A k \in -HalfTokens..HalfTokens : t - u + k \in 0..size - 1 <=> t + k \in 0..all - 1
    <3>1. CASE i < Contexts(m)
      <4>1. /\ size = 2 * HopTokens /\ plan[i].own_stop = u + HopTokens + HalfTokens
            /\ u + 2 * HopTokens <= all
            /\ plan[i].own_start = (IF i = 1 THEN 0 ELSE u + HalfTokens) /\ (i = 1 => u = 0)
        BY <2>1, <3>1, ContextFacts
      <4>2. plan[i].own_start <= t /\ t < plan[i].own_stop
        BY <2>1 DEF OwnsToken
      <4>3. i = 1 \/ u + HalfTokens <= t
        BY <4>1, <4>2
      <4> HIDE DEF size, u, plan
      <4>4. u <= t /\ t < u + HopTokens + HalfTokens
        BY <2>3, <4>1, <4>2, <4>3, TokenFacts
      <4>5. QED
        BY <1>2, <2>3, <4>1, <4>3, <4>4, TokenFacts DEF HopTokens
    <3>2. CASE i = Contexts(m)
      <4>1. /\ size = all - u /\ plan[i].own_stop = all /\ u <= all
            /\ plan[i].own_start = (IF i = 1 THEN 0 ELSE u + HalfTokens) /\ (i = 1 => u = 0)
        <5>1. /\ size = all - u /\ plan[i].own_stop = all
              /\ u + (IF Contexts(m) = 1 THEN 1 ELSE HopTokens) <= all
              /\ plan[i].own_start = (IF i = 1 THEN 0 ELSE u + HalfTokens) /\ (i = 1 => u = 0)
          BY <2>1, <3>2, ContextFacts
        <5> HIDE DEF size, u, plan, all
        <5>2. QED
          BY <1>2, <2>3, <5>1, TokenFacts
      <4>2. plan[i].own_start <= t /\ t < plan[i].own_stop
        BY <2>1 DEF OwnsToken
      <4>3. i = 1 \/ u + HalfTokens <= t
        BY <4>1, <4>2
      <4> HIDE DEF size, u, plan
      <4>4. u <= t
        BY <2>3, <4>1, <4>2, <4>3, TokenFacts
      <4>5. QED
        BY <1>2, <2>3, <4>1, <4>3, <4>4, TokenFacts
    <3>3. QED
      BY <1>2, <2>3, <3>1, <3>2
  <2>5. DOMAIN x = 0..size - 1 /\ \A j \in 0..size - 1 : x[j] = u + j
    BY <2>3
  <2>6. features[i] = Encode(x, HalfTokens)
    BY <1>2, <2>1
  <2> HIDE DEF x, size, features, u, plan
  <2>7. Joined(m, features)[t] = Reach(x, t - u, HalfTokens)
    BY <2>2, <2>3, <2>4, <2>5, <2>6 DEF Encode
  <2>8. Reach(x, t - u, HalfTokens) = [k \in -HalfTokens..HalfTokens |-> IF t + k \in 0..all - 1 THEN t + k ELSE Padding]
    <3>1. ASSUME NEW k \in -HalfTokens..HalfTokens
          PROVE  (IF t - u + k \in DOMAIN x THEN x[t - u + k] ELSE Padding)
                   = (IF t + k \in 0..all - 1 THEN t + k ELSE Padding)
      <4>1. CASE t + k \in 0..all - 1
        <5>1. t - u + k \in 0..size - 1
          BY <2>4, <4>1
        <5>2. u + (t - u + k) = t + k
          BY <2>3, TokenFacts
        <5>3. QED
          BY <2>5, <4>1, <5>1, <5>2
      <4>2. CASE t + k \notin 0..all - 1
        BY <2>4, <2>5, <4>2
      <4>3. QED
        BY <4>1, <4>2
    <3>2. QED
      BY <3>1 DEF Reach
  <2>9. QED
    BY <1>2, <2>7, <2>8, WholeReach, TokenFacts
<1>4. Joined(m, features) = [t \in 0..all - 1 |-> Joined(m, features)[t]]
  BY DEF Joined
<1>5. Whole(all, HalfTokens) = [t \in 0..all - 1 |-> Whole(all, HalfTokens)[t]]
  BY DEF Whole, Encode, Recording
<1> HIDE DEF features
<1>6. QED
  BY <1>1, <1>3, <1>4, <1>5

-----------------------------------------------------------------------------
\* Sums over a set are folds in some order; none of what follows depends on which.
\* A set of subsets of a finite set has one that no other is inside.
LEMMA SmallestOf ==
    ASSUME NEW S, IsFiniteSet(S), NEW W, W \subseteq SUBSET S, W # {}
    PROVE  \E s \in W : \A r \in W : ~ (r \subseteq s /\ r # s)
<1>1. IsWellFoundedOn(StrictSubsetOrdering(S), SUBSET S)
  BY FS_StrictSubsetOrderingWellFounded, FS_FiniteSubsetsOfFinite
<1>2. PICK s \in W : \A r \in W : <<r, s>> \notin StrictSubsetOrdering(S)
  BY <1>1, WFMin
<1>3. QED
  BY <1>2 DEF StrictSubsetOrdering

\* There is a function that follows a step from each set to the set without
\* the element taken out.
Picks(S, pick) == \A s \in SUBSET S : s # {} => pick[s] \in s
StepsInto(S, V, pick, step) == \A s \in SUBSET S, v \in V : s # {} => step[<<pick[s], v>>] \in V
FoldsAs(S, base, pick, step, g) ==
    \A s \in SUBSET S : g[s] = IF s = {} THEN base ELSE step[<<pick[s], g[s \ {pick[s]}]>>]

LEMMA FoldExists ==
    ASSUME NEW S, IsFiniteSet(S), NEW V, NEW base \in V, NEW pick, Picks(S, pick),
           NEW step, StepsInto(S, V, pick, step)
    PROVE  \E g \in [SUBSET S -> V] : FoldsAs(S, base, pick, step, g)
<1> USE DEF Picks, StepsInto
<1> DEFINE After(g, s) == IF s = {} THEN base ELSE step[<<pick[s], g[s \ {pick[s]}]>>]
           Upto(n, g) == \A s \in SUBSET S : Cardinality(s) <= n => g[s] = After(g, s)
           Bad == {n \in Nat : ~ \E g \in [SUBSET S -> V] : Upto(n, g)}
<1>1. \A s \in SUBSET S : IsFiniteSet(s) /\ Cardinality(s) \in Nat /\ Cardinality(s) <= Cardinality(S)
  BY FS_Subset, FS_CardinalityType
<1>2. Cardinality(S) \in Nat
  BY FS_CardinalityType
<1>3. \A s \in SUBSET S : s # {} => /\ s \ {pick[s]} \in SUBSET S
                                    /\ Cardinality(s \ {pick[s]}) = Cardinality(s) - 1
  BY <1>1, FS_RemoveElement
<1>4. \A s \in SUBSET S : Cardinality(s) = 0 => s = {}
  BY <1>1, FS_EmptySet
<1>5. ASSUME Bad # {} PROVE FALSE
  <2>1. PICK n \in Bad : \A m \in Bad : n <= m
    <3>1. Bad \subseteq Nat
      OBVIOUS
    <3> HIDE DEF Bad
    <3>2. QED
      BY <1>5, <3>1, LeastOf
  <2>2. CASE n = 0
    <3> DEFINE g == [s \in SUBSET S |-> base]
    <3>1. g \in [SUBSET S -> V]
      OBVIOUS
    <3>2. Upto(0, g)
      <4>1. ASSUME NEW s \in SUBSET S, Cardinality(s) <= 0 PROVE s = {}
        BY <1>1, <1>4, <4>1
      <4>2. QED
        BY <4>1
    <3>3. QED
      BY <2>1, <2>2, <3>1, <3>2
  <2>3. CASE n # 0
    <3>1. n - 1 \in Nat /\ n - 1 \notin Bad
      <4>1. n \in Nat
        BY <2>1
      <4> HIDE DEF Bad
      <4>2. QED
        BY <2>1, <2>3, <4>1
    <3>2. PICK h \in [SUBSET S -> V] : Upto(n - 1, h)
      BY <3>1
    <3> DEFINE g == [s \in SUBSET S |-> After(h, s)]
    <3>3. g \in [SUBSET S -> V]
      <4>1. ASSUME NEW s \in SUBSET S PROVE After(h, s) \in V
        <5>1. s # {} => h[s \ {pick[s]}] \in V
          BY <1>3
        <5>2. QED
          BY <5>1
      <4>2. QED
        BY <4>1
    <3>4. Upto(n, g)
      <4>1. ASSUME NEW s \in SUBSET S, Cardinality(s) <= n PROVE g[s] = After(g, s)
        <5>1. CASE s = {}
          BY <5>1
        <5>2. CASE s # {}
          <6> DEFINE r == s \ {pick[s]}
          <6>1. r \in SUBSET S /\ Cardinality(r) <= n - 1
            BY <1>1, <1>3, <4>1, <5>2
          <6> HIDE DEF r
          <6>2. h[r] = After(h, r)
            BY <3>2, <6>1
          <6>3. g[r] = After(h, r)
            BY <6>1
          <6>4. QED
            BY <5>2, <6>2, <6>3 DEF r
        <5>3. QED
          BY <5>1, <5>2
      <4>2. QED
        BY <4>1
    <3>5. QED
      BY <2>1, <3>3, <3>4
  <2>4. QED
    BY <2>2, <2>3
<1>6. PICK g \in [SUBSET S -> V] : Upto(Cardinality(S), g)
  BY <1>2, <1>5
<1>7. QED
  BY <1>1, <1>6 DEF FoldsAs

-----------------------------------------------------------------------------
\* Sums.

Taken(s) == CHOOSE x \in s : TRUE
Adds(f, S, g) == g = [s \in SUBSET S |-> IF s = {} THEN 0 ELSE f[Taken(s)] + g[s \ {Taken(s)}]]
SumOver(f, S) == (CHOOSE g : Adds(f, S, g))[S]
Numbers(f, S) == IsFiniteSet(S) /\ \A x \in S : f[x] \in Int

LEMMA SumsAdd ==
    ASSUME NEW S, NEW f, Numbers(f, S)
    PROVE  \E g \in [SUBSET S -> Int] : Adds(f, S, g)
<1> DEFINE pick == [s \in SUBSET S |-> Taken(s)]
           step == [p \in S \X Int |-> f[p[1]] + p[2]]
<1>1. \A s \in SUBSET S : s # {} => pick[s] = Taken(s) /\ pick[s] \in s
  BY DEF Taken
<1>2. \A x \in S, v \in Int : step[<<x, v>>] = f[x] + v /\ step[<<x, v>>] \in Int
  BY DEF Numbers
<1>3. \A s \in SUBSET S, v \in Int : s # {} => step[<<pick[s], v>>] \in Int
  BY <1>1, <1>2
<1> HIDE DEF pick, step
<1> DEFINE V == Int
<1>4. PICK g \in [SUBSET S -> V] : FoldsAs(S, 0, pick, step, g)
  <2>1. IsFiniteSet(S) /\ Picks(S, pick)
    BY <1>1 DEF Numbers, Picks
  <2>2. 0 \in V /\ StepsInto(S, V, pick, step)
    BY <1>3 DEF StepsInto
  <2> HIDE DEF V
  <2>3. QED
    BY <2>1, <2>2, FoldExists
<1>5. ASSUME NEW s \in SUBSET S
      PROVE  g[s] = IF s = {} THEN 0 ELSE f[Taken(s)] + g[s \ {Taken(s)}]
  <2>1. s # {} => /\ Taken(s) \in S /\ pick[s] = Taken(s) /\ g[s \ {Taken(s)}] \in Int
    BY <1>1
  <2>2. QED
    BY <1>2, <1>4, <2>1 DEF FoldsAs
<1>6. Adds(f, S, g)
  BY <1>5 DEF Adds
<1>7. QED
  BY <1>6

\* All that add the same add up to the same.
LEMMA SumsAreOne ==
    ASSUME NEW S, NEW T \in SUBSET S, IsFiniteSet(S), NEW f, NEW g, Adds(f, S, g), NEW h, Adds(f, T, h)
    PROVE  g[T] = h[T]
<1> DEFINE W == {s \in SUBSET T : g[s] # h[s]}
<1>1. /\ \A s \in SUBSET T : g[s] = IF s = {} THEN 0 ELSE f[Taken(s)] + g[s \ {Taken(s)}]
      /\ \A s \in SUBSET T : h[s] = IF s = {} THEN 0 ELSE f[Taken(s)] + h[s \ {Taken(s)}]
  BY DEF Adds
<1>2. ASSUME W # {} PROVE FALSE
  <2>1. PICK s \in W : \A r \in W : ~ (r \subseteq s /\ r # s)
    <3>1. IsFiniteSet(T) /\ W \subseteq SUBSET T
      BY FS_Subset
    <3> HIDE DEF W
    <3>2. QED
      BY <1>2, <3>1, SmallestOf
  <2>2. s # {} /\ Taken(s) \in s
    BY <1>1, <2>1 DEF Taken
  <2> DEFINE r == s \ {Taken(s)}
  <2>3. r \in SUBSET T /\ r # s
    BY <2>1, <2>2
  <2>4. g[r] = h[r]
    BY <2>1, <2>3
  <2>5. QED
    BY <1>1, <2>1, <2>2, <2>4
<1>3. QED
  BY <1>2

LEMMA SumUnfolds ==
    ASSUME NEW S, NEW f, Numbers(f, S)
    PROVE  /\ SumOver(f, S) \in Int
           /\ SumOver(f, S) = IF S = {} THEN 0 ELSE f[Taken(S)] + SumOver(f, S \ {Taken(S)})
<1> DEFINE g == CHOOSE g : Adds(f, S, g)
           T == S \ {Taken(S)}
           h == CHOOSE h : Adds(f, T, h)
<1>1. PICK e \in [SUBSET S -> Int] : Adds(f, S, e)
  BY SumsAdd
<1>2. Adds(f, S, g)
  BY <1>1
<1>3. Numbers(f, T) /\ T \in SUBSET S
  BY FS_Subset DEF Numbers
<1>4. Adds(f, T, h)
  BY <1>3, SumsAdd
<1>5. SumOver(f, S) = g[S] /\ SumOver(f, T) = h[T]
  BY DEF SumOver
<1> HIDE DEF g, h
<1>6. g[S] = e[S] /\ g[T] = h[T]
  BY <1>1, <1>2, <1>3, <1>4, SumsAreOne DEF Numbers
<1>7. g[S] = IF S = {} THEN 0 ELSE f[Taken(S)] + g[T]
  BY <1>2 DEF Adds
<1>8. QED
  BY <1>1, <1>5, <1>6, <1>7

\* Any element may be taken out first.
LEMMA SumWithout ==
    ASSUME NEW S, NEW f, Numbers(f, S), NEW x \in S
    PROVE  SumOver(f, S) = f[x] + SumOver(f, S \ {x})
<1> DEFINE W == {s \in SUBSET S : \E y \in s : SumOver(f, s) # f[y] + SumOver(f, s \ {y})}
<1>1. \A s \in SUBSET S : Numbers(f, s)
  BY FS_Subset DEF Numbers
<1>2. \A s \in SUBSET S : s # {} => Taken(s) \in s /\ SumOver(f, s) = f[Taken(s)] + SumOver(f, s \ {Taken(s)})
  BY <1>1, SumUnfolds DEF Taken
<1>3. \A s \in SUBSET S : SumOver(f, s) \in Int
  BY <1>1, SumUnfolds
<1>4. ASSUME W # {} PROVE FALSE
  <2>1. PICK s \in W : \A r \in W : ~ (r \subseteq s /\ r # s)
    <3>1. IsFiniteSet(S) /\ W \subseteq SUBSET S
      BY DEF Numbers
    <3> HIDE DEF W
    <3>2. QED
      BY <1>4, <3>1, SmallestOf
  <2>2. PICK y \in s : SumOver(f, s) # f[y] + SumOver(f, s \ {y})
    BY <2>1
  <2> DEFINE c == Taken(s)
  <2>3. c \in s /\ s \in SUBSET S /\ SumOver(f, s) = f[c] + SumOver(f, s \ {c})
    BY <1>2, <2>1, <2>2
  <2> HIDE DEF c
  <2>4. c # y
    BY <2>2, <2>3
  <2>5. SumOver(f, s \ {c}) = f[y] + SumOver(f, (s \ {c}) \ {y})
    <3>1. s \ {c} \in SUBSET S /\ s \ {c} \notin W /\ y \in s \ {c}
      BY <2>1, <2>2, <2>3, <2>4
    <3>2. QED
      BY <3>1
  <2>6. SumOver(f, s \ {y}) = f[c] + SumOver(f, (s \ {y}) \ {c})
    <3>1. s \ {y} \in SUBSET S /\ s \ {y} \notin W /\ c \in s \ {y}
      BY <2>1, <2>2, <2>3, <2>4
    <3>2. QED
      BY <3>1
  <2>7. (s \ {c}) \ {y} = (s \ {y}) \ {c}
    OBVIOUS
  <2>8. f[c] \in Int /\ f[y] \in Int /\ SumOver(f, (s \ {y}) \ {c}) \in Int
    <3>1. (s \ {y}) \ {c} \in SUBSET S /\ c \in S /\ y \in S
      BY <2>3
    <3>2. QED
      BY <1>3, <3>1 DEF Numbers
  <2> DEFINE t == SumOver(f, (s \ {y}) \ {c})
  <2>9. SumOver(f, s) = f[c] + (f[y] + t) /\ SumOver(f, s \ {y}) = f[c] + t
    BY <2>3, <2>5, <2>6, <2>7
  <2> HIDE DEF t
  <2>10. QED
    BY <2>2, <2>8, <2>9 DEF t
<1>5. S \notin W
  BY <1>4
<1>6. QED
  BY <1>5

\* A sum of sums of multiples.
Multiples(h, f, g, a, b, S) == \A x \in S : h[x] = a * f[x] + b * g[x]

LEMMA SumOfMultiples ==
    ASSUME NEW S, NEW f, Numbers(f, S), NEW g, Numbers(g, S), NEW h, NEW a \in Int, NEW b \in Int,
           Multiples(h, f, g, a, b, S)
    PROVE  Numbers(h, S) /\ SumOver(h, S) = a * SumOver(f, S) + b * SumOver(g, S)
<1> USE DEF Multiples
<1> DEFINE W == {s \in SUBSET S : SumOver(h, s) # a * SumOver(f, s) + b * SumOver(g, s)}
<1>0. \A x \in S : f[x] \in Int /\ g[x] \in Int
  BY DEF Numbers
<1>1. /\ \A s \in SUBSET S : Numbers(f, s) /\ Numbers(g, s) /\ Numbers(h, s)
      /\ \A s \in SUBSET S : /\ SumOver(f, s) \in Int /\ SumOver(g, s) \in Int
  <2>1. \A x \in S : h[x] \in Int
    BY <1>0
  <2>2. \A s \in SUBSET S : Numbers(f, s) /\ Numbers(g, s) /\ Numbers(h, s)
    BY <1>0, <2>1, FS_Subset DEF Numbers
  <2>3. QED
    BY <2>2, SumUnfolds
<1>2. ASSUME W # {} PROVE FALSE
  <2>1. PICK s \in W : \A r \in W : ~ (r \subseteq s /\ r # s)
    <3>1. IsFiniteSet(S) /\ W \subseteq SUBSET S
      BY DEF Numbers
    <3> HIDE DEF W
    <3>2. QED
      BY <1>2, <3>1, SmallestOf
  <2> DEFINE c == Taken(s)
             r == s \ {c}
  <2>2. /\ SumOver(f, s) = IF s = {} THEN 0 ELSE f[c] + SumOver(f, r)
        /\ SumOver(g, s) = IF s = {} THEN 0 ELSE g[c] + SumOver(g, r)
        /\ SumOver(h, s) = IF s = {} THEN 0 ELSE h[c] + SumOver(h, r)
    BY <1>1, <2>1, SumUnfolds
  <2>3. s # {}
    <3>1. a * 0 + b * 0 = 0
      OBVIOUS
    <3>2. QED
      BY <2>1, <2>2, <3>1
  <2>4. c \in s
    BY <2>3 DEF Taken
  <2>5. r \in SUBSET S /\ r # s /\ r \subseteq s
    BY <2>1, <2>4
  <2> HIDE DEF c, r
  <2>6. SumOver(h, r) = a * SumOver(f, r) + b * SumOver(g, r)
    BY <2>1, <2>5
  <2>7. /\ SumOver(f, r) \in Int /\ SumOver(g, r) \in Int /\ c \in S
        /\ f[c] \in Int /\ g[c] \in Int
    BY <1>0, <1>1, <2>1, <2>4, <2>5
  <2>8. \A p, q, u, v \in Int : (a * p + b * q) + (a * u + b * v) = a * (p + u) + b * (q + v)
    OBVIOUS
  <2>9. SumOver(h, s) = (a * f[c] + b * g[c]) + (a * SumOver(f, r) + b * SumOver(g, r))
    BY <2>2, <2>3, <2>6, <2>7
  <2>10. SumOver(h, s) = a * (f[c] + SumOver(f, r)) + b * (g[c] + SumOver(g, r))
    BY <2>7, <2>8, <2>9
  <2>11. QED
    BY <2>1, <2>2, <2>3, <2>10
<1>3. S \notin W /\ Numbers(h, S)
  BY <1>1, <1>2
<1>4. QED
  BY <1>3

LEMMA SumOfSame ==
    ASSUME NEW S, NEW f, Numbers(f, S), NEW h, \A x \in S : h[x] = f[x]
    PROVE  SumOver(h, S) = SumOver(f, S)
<1>1. \A x \in S : h[x] = 1 * f[x] + 0 * f[x]
  BY DEF Numbers
<1>2. SumOver(h, S) = 1 * SumOver(f, S) + 0 * SumOver(f, S)
  BY <1>1, SumOfMultiples DEF Multiples
<1>3. SumOver(f, S) \in Int
  BY SumUnfolds
<1>4. \A t \in Int : 1 * t + 0 * t = t
  OBVIOUS
<1>5. QED
  BY <1>2, <1>3, <1>4

\* Nothing is the sum of nothing, and of squares only if each is nothing.
LEMMA SumOfZeros ==
    ASSUME NEW S, IsFiniteSet(S), NEW f, \A x \in S : f[x] = 0
    PROVE  SumOver(f, S) = 0
<1>1. Numbers(f, S) /\ \A x \in S : f[x] = 0 * f[x] + 0 * f[x]
  BY DEF Numbers
<1>2. SumOver(f, S) = 0 * SumOver(f, S) + 0 * SumOver(f, S)
  BY <1>1, SumOfMultiples DEF Multiples
<1>3. SumOver(f, S) \in Int
  BY <1>1, SumUnfolds
<1>4. \A t \in Int : 0 * t + 0 * t = 0
  OBVIOUS
<1>5. QED
  BY <1>2, <1>3, <1>4

LEMMA SumIsPositive ==
    ASSUME NEW S, NEW f, Numbers(f, S), \A x \in S : f[x] >= 0
    PROVE  /\ SumOver(f, S) >= 0
           /\ SumOver(f, S) = 0 => \A x \in S : f[x] = 0
<1> DEFINE W == {s \in SUBSET S : ~ (SumOver(f, s) >= 0)}
<1>1. \A s \in SUBSET S : Numbers(f, s) /\ SumOver(f, s) \in Int
  <2>1. \A s \in SUBSET S : Numbers(f, s)
    BY FS_Subset DEF Numbers
  <2>2. QED
    BY <2>1, SumUnfolds
<1>2. ASSUME W # {} PROVE FALSE
  <2>1. PICK s \in W : \A r \in W : ~ (r \subseteq s /\ r # s)
    <3>1. IsFiniteSet(S) /\ W \subseteq SUBSET S
      BY DEF Numbers
    <3> HIDE DEF W
    <3>2. QED
      BY <1>2, <3>1, SmallestOf
  <2> DEFINE c == Taken(s)
             r == s \ {c}
  <2>2. SumOver(f, s) = IF s = {} THEN 0 ELSE f[c] + SumOver(f, r)
    BY <1>1, <2>1, SumUnfolds
  <2>3. s # {} /\ c \in s
    BY <2>1, <2>2 DEF Taken
  <2>4. r \in SUBSET S /\ r # s /\ r \subseteq s
    BY <2>1, <2>3
  <2> HIDE DEF c, r
  <2>5. SumOver(f, r) >= 0 /\ SumOver(f, r) \in Int /\ c \in S /\ f[c] \in Int /\ f[c] >= 0
    BY <1>1, <2>1, <2>3, <2>4 DEF Numbers
  <2>6. QED
    BY <2>1, <2>2, <2>3, <2>5
<1>3. \A s \in SUBSET S : SumOver(f, s) >= 0
  BY <1>2
<1>4. ASSUME SumOver(f, S) = 0, NEW x \in S PROVE f[x] = 0
  <2>1. SumOver(f, S) = f[x] + SumOver(f, S \ {x})
    BY SumWithout
  <2>2. SumOver(f, S \ {x}) \in Int /\ SumOver(f, S \ {x}) >= 0 /\ f[x] \in Int /\ f[x] >= 0
    BY <1>1, <1>3 DEF Numbers
  <2>3. QED
    BY <1>4, <2>1, <2>2
<1>5. QED
  BY <1>3, <1>4

\* The sum over two sets that share nothing.
LEMMA SumOfBoth ==
    ASSUME NEW S, NEW T, NEW f, Numbers(f, S), Numbers(f, T), S \cap T = {}
    PROVE  Numbers(f, S \cup T) /\ SumOver(f, S \cup T) = SumOver(f, S) + SumOver(f, T)
<1> DEFINE W == {s \in SUBSET S : SumOver(f, s \cup T) # SumOver(f, s) + SumOver(f, T)}
<1>1. Numbers(f, S \cup T)
  BY FS_Union DEF Numbers
<1>2. \A s \in SUBSET S : /\ Numbers(f, s) /\ Numbers(f, s \cup T)
                         /\ SumOver(f, s) \in Int /\ SumOver(f, s \cup T) \in Int
  <2>1. \A s \in SUBSET S : Numbers(f, s) /\ Numbers(f, s \cup T)
    BY <1>1, FS_Subset, FS_Union DEF Numbers
  <2>2. QED
    BY <2>1, SumUnfolds
<1>3. SumOver(f, T) \in Int
  BY SumUnfolds
<1>4. ASSUME W # {} PROVE FALSE
  <2>1. PICK s \in W : \A r \in W : ~ (r \subseteq s /\ r # s)
    <3>1. IsFiniteSet(S) /\ W \subseteq SUBSET S
      BY DEF Numbers
    <3> HIDE DEF W
    <3>2. QED
      BY <1>4, <3>1, SmallestOf
  <2>2. s # {}
    <3>1. ASSUME s = {} PROVE FALSE
      <4>1. SumOver(f, s) = 0 /\ s \cup T = T
        BY <1>2, <2>1, <3>1, SumUnfolds
      <4>2. SumOver(f, s \cup T) = SumOver(f, T)
        BY <4>1
      <4>3. 0 + SumOver(f, T) = SumOver(f, T)
        BY <1>3
      <4>4. SumOver(f, s \cup T) = SumOver(f, s) + SumOver(f, T)
        BY <4>1, <4>2, <4>3
      <4>5. QED
        BY <2>1, <4>4
    <3>2. QED
      BY <3>1
  <2>3. PICK c \in s : TRUE
    BY <2>2
  <2> DEFINE r == s \ {c}
  <2>4. r \in SUBSET S /\ r # s /\ r \subseteq s /\ (s \cup T) \ {c} = r \cup T /\ c \in s \cup T
    BY <2>1, <2>3
  <2>5. SumOver(f, s) = f[c] + SumOver(f, r) /\ SumOver(f, s \cup T) = f[c] + SumOver(f, r \cup T)
    BY <1>2, <2>1, <2>3, <2>4, SumWithout
  <2> HIDE DEF r
  <2>6. SumOver(f, r \cup T) = SumOver(f, r) + SumOver(f, T)
    BY <2>1, <2>4
  <2>7. f[c] \in Int /\ SumOver(f, r) \in Int
    BY <1>2, <2>1, <2>3, <2>4 DEF Numbers
  <2>8. QED
    BY <1>3, <2>1, <2>5, <2>6, <2>7
<1>5. S \notin W
  BY <1>4
<1>6. QED
  BY <1>1, <1>5

-----------------------------------------------------------------------------
\* Protection and routing.  Products are summed over a group.
Products(a, b, G) == [n \in G |-> a[n] * b[n]]
Movement(count, before, after, G) == [n \in G |-> count[n] * (after[n] - before[n])]
Vector == [Places -> Int]

LEMMA DotIsSum ==
    ASSUME NEW G, IsFiniteSet(G), NEW a, NEW b, \A n \in G : a[n] \in Int /\ b[n] \in Int
    PROVE  /\ Numbers(Products(a, b, G), G)
           /\ dot(a, b, G) = SumOver(Products(a, b, G), G)
<1> DEFINE f == Products(a, b, G)
           One(g) == g = [s \in SUBSET G |-> IF s = {} THEN 0 ELSE a[Taken(s)] * b[Taken(s)] + g[s \ {Taken(s)}]]
           sum == CHOOSE g : One(g)
<1>1. dot(a, b, G) = sum[G]
  BY DEF dot, MapThenSumSet, MapThenFoldSet, Taken
<1>2. Numbers(f, G) /\ \A n \in G : f[n] = a[n] * b[n]
  BY DEF Numbers, Products
<1>3. PICK e \in [SUBSET G -> Int] : Adds(f, G, e)
  BY <1>2, SumsAdd
<1>4. \A s \in SUBSET G : s # {} => Taken(s) \in G
  BY DEF Taken
<1>5. ASSUME NEW g PROVE One(g) <=> Adds(f, G, g)
  <2>1. \A s \in SUBSET G : s # {} => a[Taken(s)] * b[Taken(s)] = f[Taken(s)]
    BY <1>2, <1>4
  <2> HIDE DEF f
  <2>2. [s \in SUBSET G |-> IF s = {} THEN 0 ELSE a[Taken(s)] * b[Taken(s)] + g[s \ {Taken(s)}]]
        = [s \in SUBSET G |-> IF s = {} THEN 0 ELSE f[Taken(s)] + g[s \ {Taken(s)}]]
    BY <2>1
  <2>3. QED
    BY <2>2 DEF Adds
<1> HIDE DEF One, f
<1>6. Adds(f, G, sum)
  BY <1>3, <1>5
<1>7. Adds(f, G, CHOOSE g : Adds(f, G, g))
  BY <1>3
<1> DEFINE h == CHOOSE g : Adds(f, G, g)
<1>8. SumOver(f, G) = h[G] /\ Adds(f, G, h)
  BY <1>7 DEF SumOver
<1> HIDE DEF sum, h
<1>9. sum[G] = h[G]
  BY <1>6, <1>8, SumsAreOne
<1>10. QED
  BY <1>1, <1>2, <1>8, <1>9 DEF f

LEMMA SignIsSum ==
    ASSUME NEW G, IsFiniteSet(G), NEW c, NEW a, NEW b, \A n \in G : a[n] \in Int /\ b[n] \in Int /\ c[n] \in Int
    PROVE  /\ Numbers(Movement(c, a, b, G), G)
           /\ exact_sign(c, a, b, G) = Sign(SumOver(Movement(c, a, b, G), G))
<1> DEFINE f == Movement(c, a, b, G)
           One(g) == g = [s \in SUBSET G |-> IF s = {} THEN 0
                            ELSE c[Taken(s)] * (b[Taken(s)] - a[Taken(s)]) + g[s \ {Taken(s)}]]
           sum == CHOOSE g : One(g)
<1>1. exact_sign(c, a, b, G) = Sign(sum[G])
  BY DEF exact_sign, MapThenSumSet, MapThenFoldSet, Taken
<1>2. Numbers(f, G) /\ \A n \in G : f[n] = c[n] * (b[n] - a[n])
  BY DEF Numbers, Movement
<1>3. PICK e \in [SUBSET G -> Int] : Adds(f, G, e)
  BY <1>2, SumsAdd
<1>4. \A s \in SUBSET G : s # {} => Taken(s) \in G
  BY DEF Taken
<1>5. ASSUME NEW g PROVE One(g) <=> Adds(f, G, g)
  <2>1. \A s \in SUBSET G : s # {} => c[Taken(s)] * (b[Taken(s)] - a[Taken(s)]) = f[Taken(s)]
    BY <1>2, <1>4
  <2> HIDE DEF f
  <2>2. [s \in SUBSET G |-> IF s = {} THEN 0 ELSE c[Taken(s)] * (b[Taken(s)] - a[Taken(s)]) + g[s \ {Taken(s)}]]
        = [s \in SUBSET G |-> IF s = {} THEN 0 ELSE f[Taken(s)] + g[s \ {Taken(s)}]]
    BY <2>1
  <2>3. QED
    BY <2>2 DEF Adds
<1> HIDE DEF One, f
<1>6. Adds(f, G, sum)
  BY <1>3, <1>5
<1> DEFINE h == CHOOSE g : Adds(f, G, g)
<1>7. SumOver(f, G) = h[G] /\ Adds(f, G, h)
  BY <1>3 DEF SumOver
<1> HIDE DEF sum, h
<1>8. sum[G] = h[G]
  BY <1>6, <1>7, SumsAreOne
<1>9. QED
  BY <1>1, <1>2, <1>7, <1>8 DEF f

LEMMA GroupsAreFinite ==
    /\ IsFiniteSet(Places) /\ Len(GROUPS) \in Nat /\ DOMAIN GROUPS = 1..Len(GROUPS)
    /\ \A i \in DOMAIN GROUPS : GROUPS[i] \subseteq Places /\ IsFiniteSet(GROUPS[i])
<1>1. GROUPS \in Seq(SUBSET Places) /\ IsFiniteSet(Places)
  BY GroupAssumption
<1>2. Len(GROUPS) \in Nat /\ DOMAIN GROUPS = 1..Len(GROUPS) /\ \A i \in DOMAIN GROUPS : GROUPS[i] \subseteq Places
  BY <1>1
<1>3. QED
  BY <1>1, <1>2, FS_Subset

\* Only what is in the group bears on its sign.
LEMMA SignIsOfGroup ==
    ASSUME NEW G \in SUBSET Places, NEW c \in Vector, NEW a \in Vector, NEW b \in Vector, NEW d \in Vector,
           \A n \in G : b[n] = d[n]
    PROVE  exact_sign(c, a, b, G) = exact_sign(c, a, d, G)
<1>1. IsFiniteSet(G) /\ \A n \in G : a[n] \in Int /\ b[n] \in Int /\ c[n] \in Int /\ d[n] \in Int
  BY GroupsAreFinite, FS_Subset DEF Vector
<1>2. \A n \in G : Movement(c, a, b, G)[n] = Movement(c, a, d, G)[n]
  BY DEF Movement
<1>3. SumOver(Movement(c, a, b, G), G) = SumOver(Movement(c, a, d, G), G)
  BY <1>1, <1>2, SignIsSum, SumOfSame
<1>4. QED
  BY <1>1, <1>3, SignIsSum

LEMMA SignIs ==
    ASSUME NEW x
    PROVE  Sign(x) \in {-1, 0, 1} /\ (x > 0 <=> Sign(x) = 1)
  BY DEF Sign

\* A group in which an update works against the count has a count.
LEMMA SquareIsPositive ==
    ASSUME NEW G \in SUBSET Places, NEW c \in Vector, NEW a \in Vector, NEW b \in Vector,
           exact_sign(c, a, b, G) > 0
    PROVE  dot(c, c, G) \in Nat \ {0}
<1>1. IsFiniteSet(G) /\ \A n \in G : a[n] \in Int /\ b[n] \in Int /\ c[n] \in Int
  BY GroupsAreFinite, FS_Subset DEF Vector
<1>2. dot(c, c, G) = SumOver(Products(c, c, G), G) /\ Numbers(Products(c, c, G), G)
  BY <1>1, DotIsSum
<1>3. \A n \in G : Products(c, c, G)[n] = c[n] * c[n] /\ c[n] * c[n] >= 0 /\ (c[n] * c[n] = 0 => c[n] = 0)
  BY <1>1 DEF Products
<1>4. SumOver(Products(c, c, G), G) \in Nat
  <2>1. \A n \in G : Products(c, c, G)[n] >= 0
    BY <1>3
  <2>2. SumOver(Products(c, c, G), G) >= 0 /\ SumOver(Products(c, c, G), G) \in Int
    BY <1>2, <2>1, SumIsPositive, SumUnfolds
  <2>3. QED
    BY <2>2
<1>5. ASSUME SumOver(Products(c, c, G), G) = 0 PROVE FALSE
  <2>1. \A n \in G : c[n] = 0
    BY <1>2, <1>3, <1>5, SumIsPositive
  <2>2. \A n \in G : Movement(c, a, b, G)[n] = 0
    BY <1>1, <2>1 DEF Movement
  <2>3. SumOver(Movement(c, a, b, G), G) = 0
    BY <1>1, <2>2, SumOfZeros
  <2>4. exact_sign(c, a, b, G) = 0
    BY <1>1, <2>3, SignIsSum DEF Sign
  <2>5. QED
    BY <2>4
<1>6. QED
  BY <1>2, <1>4, <1>5

\* One group of a protected update.
LEMMA GroupIsProtected ==
    ASSUME NEW G \in SUBSET Places, NEW c \in Vector, NEW a \in Vector, NEW b \in Vector
    PROVE  /\ protectGroup(c, a, b, G) # {}
           /\ \A p \in protectGroup(c, a, b, G) :
                 /\ p \in Vector /\ exact_sign(c, a, p, G) <= 0
                 /\ \A n \in Places \ G : p[n] = b[n]
                 /\ exact_sign(c, a, b, G) <= 0 => p = b
<1>1. CASE exact_sign(c, a, b, G) <= 0
  BY <1>1 DEF protectGroup
<1>2. CASE ~ (exact_sign(c, a, b, G) <= 0)
  <2> DEFINE d == [n \in G |-> b[n] - a[n]]
             square == dot(c, c, G)
             along == dot(d, c, G)
             Values(n) == {a[n] + s : s \in Stored(d[n] * square - along * c[n], square)}
             projected == {[n \in Places |-> IF n \in G THEN v[n] ELSE b[n]] :
                             v \in {f \in [G -> UNION {Values(n) : n \in G}] : \A n \in G : f[n] \in Values(n)}}
             Vetoed(p) == [n \in Places |-> IF n \in G THEN a[n] ELSE p[n]]
  <2>1. protectGroup(c, a, b, G) = {IF exact_sign(c, a, p, G) > 0 THEN Vetoed(p) ELSE p : p \in projected}
    BY <1>2 DEF protectGroup
  <2>2. IsFiniteSet(G) /\ \A n \in G : a[n] \in Int /\ b[n] \in Int /\ c[n] \in Int /\ d[n] \in Int
    BY GroupsAreFinite, FS_Subset DEF Vector
  <2>3. square \in Nat \ {0}
    <3>1. exact_sign(c, a, b, G) > 0
      BY <1>2, <2>2, SignIsSum, SignIs
    <3>2. QED
      BY <3>1, SquareIsPositive
  <2>4. along \in Int
    <3>1. IsFiniteSet(G) /\ \A n \in G : d[n] \in Int /\ c[n] \in Int
      BY <2>2
    <3> HIDE DEF d
    <3>2. Numbers(Products(d, c, G), G) /\ along = SumOver(Products(d, c, G), G)
      BY <3>1, DotIsSum
    <3>3. QED
      BY <3>2, SumUnfolds
  <2> HIDE DEF square, along, d
  <2>5. \A n \in G : Values(n) # {} /\ Values(n) \subseteq Int
    <3>1. ASSUME NEW n \in G PROVE Values(n) # {} /\ Values(n) \subseteq Int
      <4>1. d[n] * square - along * c[n] \in Int
        BY <2>2, <2>3, <2>4
      <4> DEFINE x == d[n] * square - along * c[n]
      <4>2. x \div square \in Int /\ -((-x) \div square) \in Int
        <5>1. x \in Int /\ -x \in Int
          BY <4>1
        <5> HIDE DEF x
        <5>2. QED
          BY <2>3, <5>1
      <4>3. Stored(x, square) # {} /\ Stored(x, square) \subseteq Int
        BY <4>2 DEF Stored
      <4> HIDE DEF x
      <4>4. QED
        BY <2>2, <4>3 DEF x
    <3>2. QED
      BY <3>1
  <2> HIDE DEF Values
  <2>6. projected # {}
    <3> DEFINE v == [n \in G |-> CHOOSE s : s \in Values(n)]
    <3>1. \A n \in G : v[n] \in Values(n)
      BY <2>5
    <3>2. v \in [G -> UNION {Values(n) : n \in G}]
      BY <3>1
    <3> HIDE DEF v
    <3>3. [n \in Places |-> IF n \in G THEN v[n] ELSE b[n]] \in projected
      BY <3>1, <3>2
    <3>4. QED
      BY <3>3
  <2>7. \A p \in projected : p \in Vector /\ \A n \in Places \ G : p[n] = b[n]
    <3>1. ASSUME NEW v \in [G -> UNION {Values(n) : n \in G}], \A n \in G : v[n] \in Values(n)
          PROVE  LET p == [n \in Places |-> IF n \in G THEN v[n] ELSE b[n]]
                 IN  p \in Vector /\ \A n \in Places \ G : p[n] = b[n]
      <4>1. \A n \in G : v[n] \in Int
        BY <2>5, <3>1
      <4>2. QED
        BY <4>1 DEF Vector
    <3>2. QED
      BY <3>1
  <2> HIDE DEF projected
  <2>8. ASSUME NEW p \in projected
        PROVE  /\ Vetoed(p) \in Vector /\ exact_sign(c, a, Vetoed(p), G) <= 0
               /\ \A n \in Places \ G : Vetoed(p)[n] = b[n]
    <3>1. Vetoed(p) \in Vector /\ \A n \in Places \ G : Vetoed(p)[n] = b[n]
      BY <2>7 DEF Vector
    <3>2. \A n \in G : Vetoed(p)[n] = a[n] /\ Vetoed(p)[n] \in Int
      BY <2>2
    <3> DEFINE q == Vetoed(p)
    <3> HIDE DEF q
    <3>3. \A n \in G : Movement(c, a, q, G)[n] = 0
      BY <2>2, <3>2 DEF Movement, q
    <3>4. SumOver(Movement(c, a, q, G), G) = 0
      BY <2>2, <3>3, SumOfZeros
    <3>5. exact_sign(c, a, q, G) = 0
      BY <2>2, <3>2, <3>4, SignIsSum DEF Sign, q
    <3>6. QED
      BY <3>1, <3>5 DEF q
  <2>9. ASSUME NEW p \in projected, ~ (exact_sign(c, a, p, G) > 0)
        PROVE  exact_sign(c, a, p, G) <= 0
    <3>1. exact_sign(c, a, p, G) \in {-1, 0, 1}
      BY SignIs DEF exact_sign
    <3>2. QED
      BY <2>9, <3>1
  <2> HIDE DEF Vetoed
  <2>10. protectGroup(c, a, b, G) # {}
    BY <2>1, <2>6
  <2>11. ASSUME NEW p \in protectGroup(c, a, b, G)
         PROVE  p \in Vector /\ exact_sign(c, a, p, G) <= 0 /\ \A n \in Places \ G : p[n] = b[n]
    <3>1. PICK q \in projected : p = IF exact_sign(c, a, q, G) > 0 THEN Vetoed(q) ELSE q
      BY <2>1
    <3>2. CASE exact_sign(c, a, q, G) > 0
      BY <2>8, <3>1, <3>2
    <3>3. CASE ~ (exact_sign(c, a, q, G) > 0)
      BY <2>7, <2>9, <3>1, <3>3
    <3>4. QED
      BY <3>2, <3>3
  <2>12. QED
    BY <1>2, <2>10, <2>11
<1>3. QED
  BY <1>1, <1>2

\* The groups are protected one after another: a state for each number of them.
Stages(c, a, proposal, r) ==
    /\ r \in [0..Len(GROUPS) -> SUBSET Vector]
    /\ protect(c, a, proposal) = r[Len(GROUPS)]
    /\ r[0] = {proposal}
    /\ \A k \in 1..Len(GROUPS) : r[k] = UNION {protectGroup(c, a, b, GROUPS[k]) : b \in r[k - 1]}

LEMMA GroupsInOrder ==
    ASSUME NEW c \in Vector, NEW a \in Vector, NEW proposal \in Vector
    PROVE  \E r : Stages(c, a, proposal, r)
<1> DEFINE N == Len(GROUPS)
           S == 1..N
           V == SUBSET Vector
           Next2(i, v) == UNION {protectGroup(c, a, b, GROUPS[i]) : b \in v}
           One(g) == g = [s \in SUBSET S |-> IF s = {} THEN {proposal} ELSE Next2(Max(s), g[s \ {Max(s)}])]
           pick == [s \in SUBSET S |-> Max(s)]
           step == [p \in S \X V |-> Next2(p[1], p[2])]
           chosen == CHOOSE g : One(g)
<1>1. N \in Nat /\ DOMAIN GROUPS = S /\ IsFiniteSet(S)
  <2>1. N \in Nat /\ DOMAIN GROUPS = S
    BY GroupsAreFinite
  <2>2. 1 \in Int /\ N \in Int
    BY <2>1
  <2>3. QED
    BY <2>1, <2>2, FS_Interval
<1>2. \A s \in SUBSET S : s # {} => Max(s) \in s /\ \A x \in s : Max(s) >= x
  <2>1. ASSUME NEW s \in SUBSET S, s # {} PROVE \E m \in s : \A x \in s : m >= x
    <3> DEFINE T == {N - x : x \in s}
    <3>1. T \subseteq Nat /\ T # {}
      BY <1>1, <2>1
    <3>2. PICK t \in T : \A u \in T : t <= u
      <4> HIDE DEF T
      <4>1. QED
        BY <3>1, LeastOf
    <3>3. PICK m \in s : t = N - m
      BY <3>2
    <3>4. \A x \in s : N - m <= N - x
      BY <3>2, <3>3
    <3>5. QED
      BY <1>1, <3>4
  <2>2. QED
    BY <2>1 DEF Max
<1>3. \A i \in S, v \in V : Next2(i, v) \in V
  BY <1>1, GroupsAreFinite, GroupIsProtected
<1>4. protect(c, a, proposal) = chosen[S]
  BY <1>1 DEF protect, FoldLeft, MapThenFoldSet
<1>5. Picks(S, pick) /\ StepsInto(S, V, pick, step) /\ {proposal} \in V
  <2>1. Picks(S, pick)
    BY <1>2 DEF Picks
  <2>2. StepsInto(S, V, pick, step)
    <3>1. ASSUME NEW s \in SUBSET S, NEW v \in V, s # {} PROVE step[<<pick[s], v>>] \in V
      <4>1. pick[s] \in S
        BY <1>2, <3>1
      <4> HIDE DEF pick, V, Next2
      <4>2. step[<<pick[s], v>>] = Next2(pick[s], v)
        BY <4>1
      <4>3. QED
        BY <1>3, <4>1, <4>2
    <3>2. QED
      BY <3>1 DEF StepsInto
  <2>3. QED
    BY <2>1, <2>2
<1>6. PICK g \in [SUBSET S -> V] : FoldsAs(S, {proposal}, pick, step, g)
  <2> DEFINE base == {proposal}
  <2>1. base \in V
    OBVIOUS
  <2> HIDE DEF S, V, pick, step, base
  <2>2. QED
    BY <1>1, <1>5, <2>1, FoldExists DEF base
<1>7. One(g)
  <2>1. ASSUME NEW s \in SUBSET S
        PROVE  g[s] = IF s = {} THEN {proposal} ELSE Next2(Max(s), g[s \ {Max(s)}])
    <3>1. CASE s = {}
      BY <1>6, <3>1 DEF FoldsAs
    <3>2. CASE s # {}
      <4>1. pick[s] = Max(s) /\ Max(s) \in S /\ g[s \ {Max(s)}] \in V
        BY <1>2, <3>2
      <4>2. g[s] = step[<<Max(s), g[s \ {Max(s)}]>>]
        BY <1>6, <3>2, <4>1 DEF FoldsAs
      <4> HIDE DEF V, S, Next2
      <4>3. QED
        BY <3>2, <4>1, <4>2
    <3>3. QED
      BY <3>1, <3>2
  <2>2. QED
    BY <2>1
<1>8. One(chosen)
  <2> HIDE DEF One
  <2>1. QED
    BY <1>7
<1> HIDE DEF chosen
<1>9. \A s \in SUBSET S : chosen[s] = IF s = {} THEN {proposal} ELSE Next2(Max(s), chosen[s \ {Max(s)}])
  BY <1>8
<1> HIDE DEF One, Next2
<1> DEFINE r == [k \in 0..N |-> chosen[1..k]]
<1>10. r[0] = {proposal}
  <2>1. 1..0 = {} /\ 0 \in 0..N /\ {} \in SUBSET S
    BY <1>1
  <2>2. QED
    BY <1>9, <2>1
<1>11. ASSUME NEW k \in 1..N PROVE r[k] = Next2(k, r[k - 1])
  <2> DEFINE s == 1..k
  <2>1. s \in SUBSET S /\ s # {} /\ k \in s /\ s \ {k} = 1..(k - 1) /\ k \in 0..N /\ k - 1 \in 0..N
    BY <1>1
  <2>2. Max(s) = k
    <3>1. Max(s) \in s /\ Max(s) >= k
      BY <1>2, <2>1
    <3>2. QED
      BY <3>1
  <2>3. chosen[s] = Next2(k, chosen[s \ {k}])
    BY <1>9, <2>1, <2>2
  <2>4. QED
    BY <2>1, <2>3
<1>12. r \in [0..N -> V]
  <2> DEFINE Bad == {k \in Nat : k \in 0..N /\ r[k] \notin V}
  <2>1. ASSUME Bad # {} PROVE FALSE
    <3>1. PICK k \in Bad : \A j \in Bad : k <= j
      <4>1. Bad \subseteq Nat
        OBVIOUS
      <4> HIDE DEF Bad
      <4>2. QED
        BY <2>1, <4>1, LeastOf
    <3>2. k # 0
      BY <1>10, <3>1
    <3>3. k \in 1..N /\ k - 1 \in 0..N /\ k - 1 \in Nat /\ k - 1 \notin Bad
      BY <1>1, <3>1, <3>2
    <3>4. r[k - 1] \in V
      BY <3>3
    <3>5. r[k] \in V
      <4>1. r[k] = Next2(k, r[k - 1])
        BY <1>11, <3>3
      <4> HIDE DEF r, V
      <4>2. QED
        BY <1>3, <3>3, <3>4, <4>1
    <3>6. QED
      BY <3>1, <3>5
  <2>2. \A k \in 0..N : r[k] \in V
    BY <1>1, <2>1
  <2>3. QED
    BY <2>2
<1>13. r[N] = chosen[S]
  BY <1>1
<1>14. QED
  <2>1. Stages(c, a, proposal, r)
    BY <1>4, <1>10, <1>11, <1>12, <1>13 DEF Next2, Stages
  <2>2. QED
    BY <2>1

\* Whatever the rounding: no group works against the count, and those that did not are
\* as proposed.
LEMMA ProtectionHolds ==
    ASSUME NEW c \in Vector, NEW a \in Vector, NEW proposal \in Vector
    PROVE  /\ protect(c, a, proposal) # {}
           /\ \A p \in protect(c, a, proposal) :
                 /\ p \in Vector
                 /\ \A i \in DOMAIN GROUPS :
                       /\ exact_sign(c, a, p, GROUPS[i]) <= 0
                       /\ exact_sign(c, a, proposal, GROUPS[i]) <= 0 => \A n \in GROUPS[i] : p[n] = proposal[n]
<1> DEFINE N == Len(GROUPS)
           Against(b, i) == ~ (exact_sign(c, a, b, GROUPS[i]) <= 0)
           Kept(b, i) == \A n \in GROUPS[i] : b[n] = proposal[n]
           Held(k, b) == /\ \A i \in 1..N : i <= k => ~ Against(b, i) /\ (~ Against(proposal, i) => Kept(b, i))
                         /\ \A i \in 1..N : i > k => Kept(b, i)
<1>0. PICK r : Stages(c, a, proposal, r)
  BY GroupsInOrder
<1>1. /\ r \in [0..N -> SUBSET Vector]
      /\ protect(c, a, proposal) = r[N]
      /\ r[0] = {proposal}
      /\ \A k \in 1..N : r[k] = UNION {protectGroup(c, a, b, GROUPS[k]) : b \in r[k - 1]}
  BY <1>0 DEF Stages
<1>2. /\ N \in Nat /\ DOMAIN GROUPS = 1..N
      /\ \A i \in 1..N : GROUPS[i] \in SUBSET Places
      /\ \A i, j \in 1..N : i # j => GROUPS[i] \cap GROUPS[j] = {}
  BY GroupsAreFinite, GroupAssumption
<1> DEFINE Bad == {k \in Nat : k \in 0..N /\ ~ (r[k] # {} /\ \A b \in r[k] : Held(k, b))}
<1>3. ASSUME NEW k \in 1..N, NEW b \in r[k - 1], Held(k - 1, b),
             NEW p \in protectGroup(c, a, b, GROUPS[k])
      PROVE  Held(k, p)
  <2>1. b \in Vector /\ GROUPS[k] \in SUBSET Places
    BY <1>1, <1>2, <1>3
  <2>2. /\ p \in Vector /\ ~ Against(p, k)
        /\ \A n \in Places \ GROUPS[k] : p[n] = b[n]
        /\ ~ Against(b, k) => p = b
    BY <2>1, GroupIsProtected
  <2>3. ASSUME NEW i \in 1..N, i # k
        PROVE  /\ \A n \in GROUPS[i] : p[n] = b[n]
               /\ Against(p, i) <=> Against(b, i)
    <3>1. \A n \in GROUPS[i] : p[n] = b[n]
      BY <1>2, <2>2, <2>3
    <3>2. exact_sign(c, a, p, GROUPS[i]) = exact_sign(c, a, b, GROUPS[i])
      BY <1>2, <2>1, <2>2, <3>1, SignIsOfGroup
    <3>3. QED
      BY <3>1, <3>2
  <2>4. \A n \in GROUPS[k] : b[n] = proposal[n]
    <3>1. k > k - 1
      BY <1>2
    <3>2. QED
      BY <1>3, <3>1
  <2>5. Against(b, k) <=> Against(proposal, k)
    <3>1. exact_sign(c, a, b, GROUPS[k]) = exact_sign(c, a, proposal, GROUPS[k])
      BY <2>1, <2>4, SignIsOfGroup
    <3>2. QED
      BY <3>1
  <2>6. ~ Against(proposal, k) => Kept(p, k)
    BY <2>2, <2>4, <2>5
  <2>7. \A i \in 1..N : i # k => (i <= k <=> i <= k - 1) /\ (i > k => i > k - 1)
    BY <1>2
  <2> HIDE DEF Against
  <2>8. ASSUME NEW i \in 1..N, i <= k PROVE ~ Against(p, i) /\ (~ Against(proposal, i) => Kept(p, i))
    <3>1. CASE i = k
      BY <2>2, <2>6, <3>1
    <3>2. CASE i # k
      BY <1>3, <2>3, <2>7, <2>8, <3>2
    <3>3. QED
      BY <3>1, <3>2
  <2>9. ASSUME NEW i \in 1..N, i > k PROVE Kept(p, i)
    <3>1. i # k
      BY <1>2, <2>9
    <3>2. QED
      BY <1>3, <2>3, <2>7, <2>9, <3>1
  <2>10. QED
    BY <2>8, <2>9
<1>4. ASSUME Bad # {} PROVE FALSE
  <2>1. PICK k \in Bad : \A j \in Bad : k <= j
    <3>1. Bad \subseteq Nat
      OBVIOUS
    <3> HIDE DEF Bad
    <3>2. QED
      BY <1>4, <3>1, LeastOf
  <2>2. k # 0
    <3>1. Held(0, proposal)
      BY <1>2
    <3> HIDE DEF Held
    <3>2. QED
      BY <1>1, <2>1, <3>1
  <2>3. k \in 1..N /\ k - 1 \in 0..N /\ k - 1 \in Nat /\ k - 1 \notin Bad
    <3>1. k \in Nat /\ k \in 0..N
      BY <2>1
    <3> HIDE DEF Bad
    <3>2. QED
      BY <1>2, <2>1, <2>2, <3>1
  <2> HIDE DEF Held
  <2>4. r[k - 1] # {} /\ \A b \in r[k - 1] : Held(k - 1, b)
    BY <2>3
  <2>5. r[k] = UNION {protectGroup(c, a, b, GROUPS[k]) : b \in r[k - 1]}
    BY <1>1, <2>3
  <2>6. r[k - 1] \in SUBSET Vector /\ GROUPS[k] \in SUBSET Places
    BY <1>1, <1>2, <2>3
  <2>7. \A b \in r[k - 1] : protectGroup(c, a, b, GROUPS[k]) # {}
    BY <2>6, GroupIsProtected, ZenonT(60)
  <2>8. r[k] # {}
    BY <2>4, <2>5, <2>7
  <2>9. \A p \in r[k] : Held(k, p)
    BY <1>3, <2>3, <2>4, <2>5
  <2>10. QED
    BY <2>1, <2>8, <2>9
<1>5. r[N] # {} /\ \A b \in r[N] : Held(N, b)
  <2>1. N \in 0..N /\ N \in Nat
    BY <1>2
  <2> HIDE DEF Held
  <2>2. QED
    BY <1>4, <2>1
<1>6. \A i \in 1..N : i <= N
  BY <1>2
<1>7. r[N] \subseteq Vector
  BY <1>1, <1>2
<1>8. QED
  BY <1>1, <1>2, <1>5, <1>6, <1>7

\* If no group works against the count, nor does the whole.
LEMMA DisplacementHolds ==
    ASSUME NEW c \in Vector, NEW a \in Vector, NEW p \in Vector,
           \A i \in DOMAIN GROUPS : exact_sign(c, a, p, GROUPS[i]) <= 0
    PROVE  displacement_check(c, a, p).nonincrease # "no"
<1> DEFINE N == Len(GROUPS)
           d == [n \in Places |-> p[n] - a[n]]
           f == Products(d, c, Places)
           Upto(k) == UNION {GROUPS[i] : i \in 1..k}
           Bad == {k \in Nat : k \in 0..N /\ ~ (SumOver(f, Upto(k)) <= 0)}
<1>1. /\ N \in Nat /\ DOMAIN GROUPS = 1..N /\ IsFiniteSet(Places)
      /\ \A i \in 1..N : GROUPS[i] \in SUBSET Places /\ IsFiniteSet(GROUPS[i])
      /\ \A i, j \in 1..N : i # j => GROUPS[i] \cap GROUPS[j] = {}
      /\ UNION {GROUPS[i] : i \in 1..N} = Places
  BY GroupsAreFinite, GroupAssumption
<1>2. \A n \in Places : c[n] \in Int /\ a[n] \in Int /\ p[n] \in Int /\ d[n] \in Int /\ d[n] = p[n] - a[n]
  BY DEF Vector
<1>3. dot(d, c, Places) = SumOver(f, Places) /\ Numbers(f, Places)
  <2> HIDE DEF d
  <2>1. QED
    BY <1>1, <1>2, DotIsSum
<1>4. \A n \in Places : f[n] = c[n] * (p[n] - a[n])
  <2>1. \A n \in Places : f[n] = d[n] * c[n]
    BY DEF Products
  <2>2. \A n \in Places : d[n] * c[n] = c[n] * (p[n] - a[n])
    BY <1>2
  <2>3. QED
    BY <2>1, <2>2
<1> HIDE DEF d, f
<1>5. \A s \in SUBSET Places : Numbers(f, s)
  BY <1>3, FS_Subset DEF Numbers
<1>6. ASSUME NEW i \in 1..N PROVE SumOver(f, GROUPS[i]) \in Int /\ SumOver(f, GROUPS[i]) <= 0
  <2> DEFINE G == GROUPS[i]
             g == Movement(c, a, p, G)
  <2>1. IsFiniteSet(G) /\ G \in SUBSET Places /\ \A n \in G : c[n] \in Int /\ a[n] \in Int /\ p[n] \in Int
    BY <1>1, <1>2
  <2>2. exact_sign(c, a, p, G) <= 0
    BY <1>1
  <2> HIDE DEF G
  <2>3. Numbers(g, G) /\ exact_sign(c, a, p, G) = Sign(SumOver(g, G))
    BY <2>1, SignIsSum
  <2>4. \A n \in G : g[n] = f[n]
    BY <1>4, <2>1 DEF Movement
  <2> HIDE DEF g
  <2>5. Numbers(f, G)
    BY <1>5, <2>1
  <2>6. SumOver(g, G) = SumOver(f, G)
    BY <2>4, <2>5, SumOfSame
  <2>7. SumOver(f, G) \in Int
    BY <2>5, SumUnfolds
  <2>8. QED
    BY <2>2, <2>3, <2>6, <2>7 DEF Sign, G
<1>7. ASSUME NEW k \in 1..N
      PROVE  /\ Upto(k) = Upto(k - 1) \cup GROUPS[k]
             /\ Upto(k - 1) \cap GROUPS[k] = {}
             /\ Upto(k - 1) \in SUBSET Places
  <2>1. 1..k = 1..(k - 1) \cup {k} /\ k \notin 1..(k - 1) /\ 1..(k - 1) \subseteq 1..N
    BY <1>1
  <2>2. QED
    BY <1>1, <2>1
<1>8. ASSUME Bad # {} PROVE FALSE
  <2>1. PICK k \in Bad : \A j \in Bad : k <= j
    <3>1. Bad \subseteq Nat
      OBVIOUS
    <3> HIDE DEF Bad
    <3>2. QED
      BY <1>8, <3>1, LeastOf
  <2>2. k # 0
    <3>1. ASSUME k = 0 PROVE FALSE
      <4>1. Upto(0) = {}
        OBVIOUS
      <4>2. SumOver(f, {}) = 0
        BY <1>5, SumUnfolds
      <4>3. QED
        BY <2>1, <3>1, <4>1, <4>2
    <3>2. QED
      BY <3>1
  <2>3. k \in 1..N /\ k - 1 \in 0..N /\ k - 1 \in Nat /\ k - 1 \notin Bad
    <3>1. k \in Nat /\ k \in 0..N
      BY <2>1
    <3> HIDE DEF Bad
    <3>2. QED
      BY <1>1, <2>1, <2>2, <3>1
  <2>4. SumOver(f, Upto(k - 1)) <= 0
    BY <2>3
  <2>5. /\ Upto(k) = Upto(k - 1) \cup GROUPS[k] /\ Upto(k - 1) \cap GROUPS[k] = {}
        /\ Upto(k - 1) \in SUBSET Places /\ GROUPS[k] \in SUBSET Places
    BY <1>1, <1>7, <2>3
  <2>6. ~ (SumOver(f, Upto(k)) <= 0)
    BY <2>1
  <2> HIDE DEF Upto
  <2> DEFINE A == Upto(k - 1)
             B == GROUPS[k]
  <2>7. Numbers(f, A) /\ Numbers(f, B) /\ A \cap B = {} /\ Upto(k) = A \cup B
    BY <1>5, <2>5
  <2>8. SumOver(f, Upto(k)) = SumOver(f, Upto(k - 1)) + SumOver(f, GROUPS[k]) /\ SumOver(f, Upto(k - 1)) \in Int
    <3> HIDE DEF A, B
    <3>1. SumOver(f, A \cup B) = SumOver(f, A) + SumOver(f, B)
      BY <2>7, SumOfBoth
    <3>2. SumOver(f, A) \in Int
      BY <2>7, SumUnfolds
    <3>3. QED
      BY <2>7, <3>1, <3>2 DEF A, B
  <2>9. QED
    BY <1>6, <2>3, <2>4, <2>6, <2>8
<1>9. SumOver(f, Upto(N)) <= 0
  <2>1. N \in Nat /\ N \in 0..N /\ N \notin Bad
    <3>1. N \in Nat /\ N \in 0..N
      BY <1>1
    <3> HIDE DEF Bad
    <3>2. QED
      BY <1>8, <3>1
  <2> HIDE DEF Upto
  <2>2. QED
    BY <2>1
<1>10. dot(d, c, Places) <= 0
  BY <1>1, <1>3, <1>9
<1>11. QED
  BY <1>10 DEF displacement_check, d

\* What the results of a protected update are, whatever was proposed.
IsProtected(c, a, proposal, results) ==
    /\ results # {}
    /\ \A p \in results :
          /\ \A i \in DOMAIN GROUPS :
                /\ ~ (exact_sign(c, a, p, GROUPS[i]) > 0)
                /\ ~ (exact_sign(c, a, proposal, GROUPS[i]) > 0) =>
                     \A n \in GROUPS[i] : p[n] = proposal[n]
          /\ displacement_check(c, a, p).nonincrease # "no"

\* A protected update never works against the count, group by group and as a whole, and
\* leaves alone what did not: for every gradient, every starting point and every proposal
\* (protected_update.boundary).
THEOREM UpdateIsProtected ==
    ASSUME NEW c \in Vector, NEW a \in Vector, NEW proposal \in Vector
    PROVE  IsProtected(c, a, proposal, protect(c, a, proposal))
<1> DEFINE results == protect(c, a, proposal)
<1>1. /\ results # {}
      /\ \A p \in results : p \in Vector /\ \A i \in DOMAIN GROUPS : exact_sign(c, a, p, GROUPS[i]) <= 0
      /\ \A p \in results : \A i \in DOMAIN GROUPS :
            exact_sign(c, a, proposal, GROUPS[i]) <= 0 => \A n \in GROUPS[i] : p[n] = proposal[n]
  <2>1. results # {}
    BY ProtectionHolds
  <2>2. \A p \in results : p \in Vector /\ \A i \in DOMAIN GROUPS : exact_sign(c, a, p, GROUPS[i]) <= 0
    BY ProtectionHolds
  <2>3. \A p \in results : \A i \in DOMAIN GROUPS :
          exact_sign(c, a, proposal, GROUPS[i]) <= 0 => \A n \in GROUPS[i] : p[n] = proposal[n]
    BY ProtectionHolds
  <2>4. QED
    BY <2>1, <2>2, <2>3
<1> HIDE DEF results
<1>2. ASSUME NEW q, NEW i \in DOMAIN GROUPS
      PROVE  exact_sign(c, a, q, GROUPS[i]) \in Int
  <2>1. \A x : Sign(x) \in Int
    BY DEF Sign
  <2> DEFINE moved == MapThenSumSet(LAMBDA n : c[n] * (q[n] - a[n]), GROUPS[i])
  <2>2. exact_sign(c, a, q, GROUPS[i]) = Sign(moved)
    BY DEF exact_sign
  <2> HIDE DEF moved
  <2>3. QED
    BY <2>1, <2>2
<1>3. ASSUME NEW p \in results
      PROVE  displacement_check(c, a, p).nonincrease # "no"
  BY <1>1, <1>3, DisplacementHolds
<1>4. ASSUME NEW p \in results, NEW i \in DOMAIN GROUPS
      PROVE  /\ ~ (exact_sign(c, a, p, GROUPS[i]) > 0)
             /\ ~ (exact_sign(c, a, proposal, GROUPS[i]) > 0) =>
                  \A n \in GROUPS[i] : p[n] = proposal[n]
  BY <1>1, <1>2
<1>5. IsProtected(c, a, proposal, results)
  BY <1>1, <1>3, <1>4 DEF IsProtected
<1>6. QED
  BY <1>5 DEF results

\* One group of a routed batch.
LEMMA GroupIsRouted ==
    ASSUME NEW G \in SUBSET Places, NEW aim \in Vector, NEW c \in Vector
    PROVE  LET route == project(aim, c, G)
               square == dot(c, c, G)
           IN  /\ route \in [G -> Int] /\ square \in Int /\ dot(aim, c, G) \in Int
               /\ dot(route, c, G) >= square * square
               /\ dot(aim, c, G) >= 0 /\ square # 0 => \A n \in G : route[n] = (c[n] + aim[n]) * square
<1> DEFINE route == project(aim, c, G)
           square == dot(c, c, G)
           along == dot(aim, c, G)
           cc == Products(c, c, G)
           pc == Products(aim, c, G)
           rc == Products(route, c, G)
<1>1. IsFiniteSet(G) /\ \A n \in G : aim[n] \in Int /\ c[n] \in Int
  BY GroupsAreFinite, FS_Subset DEF Vector
<1>2. /\ Numbers(cc, G) /\ square = SumOver(cc, G) /\ square \in Int
      /\ Numbers(pc, G) /\ along = SumOver(pc, G) /\ along \in Int
  <2>1. Numbers(cc, G) /\ square = SumOver(cc, G)
    BY <1>1, DotIsSum
  <2>2. Numbers(pc, G) /\ along = SumOver(pc, G)
    BY <1>1, DotIsSum
  <2> HIDE DEF cc, pc, square, along
  <2>3. QED
    BY <2>1, <2>2, SumUnfolds
<1>3. \A n \in G : /\ cc[n] = c[n] * c[n] /\ cc[n] >= 0 /\ (cc[n] = 0 => c[n] = 0) /\ cc[n] \in Int
                   /\ pc[n] = aim[n] * c[n] /\ pc[n] \in Int
  BY <1>1 DEF Products
<1>4. route = [n \in G |-> IF square # 0 /\ along < 0
                         THEN c[n] * square + aim[n] * square - along * c[n]
                         ELSE (c[n] + aim[n]) * (IF square = 0 THEN 1 ELSE square)]
  BY DEF project
<1> HIDE DEF square, along, cc, pc, route
<1>5. route \in [G -> Int]
  BY <1>1, <1>2, <1>4
<1>6. Numbers(rc, G) /\ dot(route, c, G) = SumOver(rc, G)
  BY <1>1, <1>5, DotIsSum
<1>7. \A n \in G : rc[n] = route[n] * c[n]
  BY DEF Products
<1> HIDE DEF rc
<1>8. square >= 0 /\ (square = 0 => \A n \in G : c[n] = 0)
  <2>1. \A n \in G : cc[n] >= 0
    BY <1>3
  <2>2. SumOver(cc, G) >= 0 /\ (SumOver(cc, G) = 0 => \A n \in G : cc[n] = 0)
    BY <1>2, <2>1, SumIsPositive
  <2>3. QED
    BY <1>2, <1>3, <2>2
<1>9. CASE square = 0
  <2>1. \A n \in G : route[n] \in Int /\ c[n] = 0
    BY <1>5, <1>8, <1>9
  <2>2. \A n \in G : rc[n] = 0
    BY <1>7, <2>1
  <2>3. SumOver(rc, G) = 0
    BY <1>1, <2>2, SumOfZeros
  <2>4. dot(route, c, G) >= square * square
    BY <1>6, <1>9, <2>3
  <2>5. QED
    BY <1>2, <1>5, <1>9, <2>4 DEF route, square, along
<1>10. CASE square # 0 /\ along < 0
  <2>1. \A p, q \in Int : (q * square + p * square - along * q) * q = (square - along) * (q * q) + square * (p * q)
    BY <1>2
  <2>2. \A n \in G : rc[n] = (square - along) * cc[n] + square * pc[n]
    <3>1. ASSUME NEW n \in G PROVE rc[n] = (square - along) * cc[n] + square * pc[n]
      <4>1. route[n] = c[n] * square + aim[n] * square - along * c[n]
        BY <1>4, <1>10
      <4>2. QED
        BY <1>1, <1>3, <1>7, <2>1, <4>1
    <3>2. QED
      BY <3>1
  <2>3. square - along \in Int
    BY <1>2
  <2>4. SumOver(rc, G) = (square - along) * square + square * along
    <3> DEFINE rest == square - along
    <3>1. rest \in Int /\ \A n \in G : rc[n] = rest * cc[n] + square * pc[n]
      BY <2>2, <2>3
    <3>2. square \in Int /\ Numbers(cc, G) /\ Numbers(pc, G)
      BY <1>2
    <3> HIDE DEF rest
    <3>3. Multiples(rc, cc, pc, rest, square, G)
      BY <3>1 DEF Multiples
    <3>5. SumOver(rc, G) = rest * SumOver(cc, G) + square * SumOver(pc, G)
      BY <3>1, <3>2, <3>3, SumOfMultiples
    <3>4. QED
      BY <1>2, <3>5 DEF rest
  <2>5. (square - along) * square + square * along = square * square
    BY <1>2
  <2>6. square * square \in Int
    BY <1>2
  <2>7. dot(route, c, G) >= square * square
    BY <1>6, <2>4, <2>5, <2>6
  <2>8. QED
    BY <1>2, <1>5, <1>10, <2>7 DEF route, square, along
<1>11. CASE square # 0 /\ ~ (along < 0)
  <2>1. \A p, q \in Int : ((q + p) * square) * q = square * (q * q) + square * (p * q)
    BY <1>2
  <2>2. \A n \in G : route[n] = (c[n] + aim[n]) * square
    BY <1>4, <1>11
  <2>3. \A n \in G : rc[n] = square * cc[n] + square * pc[n]
    BY <1>1, <1>3, <1>7, <2>1, <2>2, ZenonT(60)
  <2>4. SumOver(rc, G) = square * square + square * along
    <3>1. square \in Int /\ Numbers(cc, G) /\ Numbers(pc, G)
      BY <1>2
    <3>2. SumOver(rc, G) = square * SumOver(cc, G) + square * SumOver(pc, G)
      BY <2>3, <3>1, SumOfMultiples DEF Multiples
    <3>3. QED
      BY <1>2, <3>2
  <2>5. square * square \in Int /\ square * along \in Int /\ square * along >= 0
    BY <1>2, <1>8, <1>11
  <2>6. dot(route, c, G) >= square * square
    BY <1>6, <2>4, <2>5
  <2>7. QED
    BY <1>2, <1>5, <2>2, <2>6 DEF route, square, along
<1>12. QED
  BY <1>9, <1>10, <1>11

\* A routed batch keeps the count of every group, and the phase where the two agree: for
\* every batch, of whatever size and weights, that accumulates to integer vectors
\* (gradient_routing.route_batch).
THEOREM RoutingHolds ==
    ASSUME NEW phases, NEW counts, NEW weights,
           accumulate(phases, weights) \in Vector, accumulate(counts, weights) \in Vector
    PROVE  LET routing == route_batch(phases, counts, weights)
               along == accumulate(phases, weights)
               kept == accumulate(counts, weights)
               Square(i) == dot(kept, kept, GROUPS[i])
           IN  /\ routing # Underflow
               /\ \A i \in DOMAIN GROUPS :
                     /\ dot(routing[i], kept, GROUPS[i]) >= Square(i) * Square(i)
                     /\ dot(along, kept, GROUPS[i]) >= 0 /\ Square(i) # 0 =>
                          \A n \in GROUPS[i] : routing[i][n] = (kept[n] + along[n]) * Square(i)
<1> DEFINE along == accumulate(phases, weights)
           kept == accumulate(counts, weights)
           routed == [i \in DOMAIN GROUPS |-> project(along, kept, GROUPS[i])]
<1>1. \A i \in DOMAIN GROUPS : GROUPS[i] \in SUBSET Places
  BY GroupsAreFinite
<1>2. along \in Vector /\ kept \in Vector
  OBVIOUS
<1> HIDE DEF along, kept
<1>3. \A i \in DOMAIN GROUPS :
        /\ routed[i] = project(along, kept, GROUPS[i])
        /\ routed[i] \in [GROUPS[i] -> Int]
        /\ dot(routed[i], kept, GROUPS[i]) >= dot(kept, kept, GROUPS[i]) * dot(kept, kept, GROUPS[i])
        /\ dot(along, kept, GROUPS[i]) >= 0 /\ dot(kept, kept, GROUPS[i]) # 0 =>
             \A n \in GROUPS[i] : routed[i][n] = (kept[n] + along[n]) * dot(kept, kept, GROUPS[i])
  BY <1>1, <1>2, GroupIsRouted
<1>4. route_batch(phases, counts, weights) = routed
  BY <1>3 DEF route_batch, along, kept
<1>5. routed # Underflow
  <2>1. routed \in [DOMAIN GROUPS -> UNION {[GROUPS[i] -> Int] : i \in DOMAIN GROUPS}]
    BY <1>3
  <2>2. QED
    BY <2>1, UnderflowAssumption
<1>6. QED
  BY <1>3, <1>4, <1>5 DEF along, kept

\* What a batch accumulates is a vector again.
LEMMA AccumulatedIsVector ==
    ASSUME NEW I, IsFiniteSet(I), NEW gradients \in [I -> Vector], NEW weights, \A i \in I : weights[i] \in Int
    PROVE  accumulate(gradients, weights) \in Vector
<1>1. ASSUME NEW n \in Places
      PROVE  MapThenSumSet(LAMBDA i : weights[i] * gradients[i][n], DOMAIN gradients) \in Int
  <2> DEFINE f == [i \in I |-> weights[i] * gradients[i][n]]
             One(g) == g = [s \in SUBSET I |-> IF s = {} THEN 0 ELSE weights[Taken(s)] * gradients[Taken(s)][n] + g[s \ {Taken(s)}]]
             sum == CHOOSE g : One(g)
  <2>1. MapThenSumSet(LAMBDA i : weights[i] * gradients[i][n], DOMAIN gradients) = sum[I]
    BY DEF MapThenSumSet, MapThenFoldSet, Taken
  <2>2. Numbers(f, I) /\ \A i \in I : f[i] = weights[i] * gradients[i][n]
    <3>1. \A i \in I : gradients[i][n] \in Int
      BY DEF Vector
    <3>2. QED
      BY <3>1 DEF Numbers
  <2>3. PICK e \in [SUBSET I -> Int] : Adds(f, I, e)
    BY <2>2, SumsAdd
  <2>4. \A s \in SUBSET I : s # {} => Taken(s) \in I
    BY DEF Taken
  <2>5. ASSUME NEW g PROVE One(g) <=> Adds(f, I, g)
    <3>1. \A s \in SUBSET I : s # {} => weights[Taken(s)] * gradients[Taken(s)][n] = f[Taken(s)]
      BY <2>2, <2>4
    <3> HIDE DEF f
    <3>2. [s \in SUBSET I |-> IF s = {} THEN 0 ELSE weights[Taken(s)] * gradients[Taken(s)][n] + g[s \ {Taken(s)}]]
          = [s \in SUBSET I |-> IF s = {} THEN 0 ELSE f[Taken(s)] + g[s \ {Taken(s)}]]
      BY <3>1
    <3>3. QED
      BY <3>2 DEF Adds
  <2> HIDE DEF One, f
  <2>6. Adds(f, I, sum)
    BY <2>3, <2>5
  <2> HIDE DEF sum
  <2>7. sum[I] = e[I]
    BY <2>3, <2>6, SumsAreOne
  <2>8. e[I] \in Int
    OBVIOUS
  <2>9. QED
    BY <2>1, <2>7, <2>8
<1>2. QED
  BY <1>1 DEF accumulate, Vector

-----------------------------------------------------------------------------
(***************************************************************************)
(* Folds over sequences and the order of finite sets.                      *)
(***************************************************************************)
\* The greatest position of a non-empty set of them, as folds over sequences take it.
LEMMA GreatestOf ==
    ASSUME NEW n \in Nat, NEW s \in SUBSET (1..n), s # {}
    PROVE  Max(s) \in s /\ \A x \in s : Max(s) >= x
<1> DEFINE T == {n - x : x \in s}
<1>1. T \subseteq Nat /\ T # {}
  <2>1. \A x \in s : x \in Int /\ n - x \in Nat
    OBVIOUS
  <2>2. PICK x \in s : TRUE
    OBVIOUS
  <2>3. n - x \in T
    BY <2>2
  <2>4. T \subseteq Nat
    BY <2>1
  <2>5. QED
    BY <2>3, <2>4
<1>2. PICK t \in T : \A u \in T : t <= u
  <2> HIDE DEF T
  <2>1. QED
    BY <1>1, LeastOf
<1>3. PICK m \in s : t = n - m
  BY <1>2
<1>4. \A x \in s : n - m <= n - x
  BY <1>2, <1>3
<1>5. \A x \in s : m >= x
  BY <1>4
<1>6. QED
  BY <1>5 DEF Max

\* A fold over a sequence of n elements goes through n + 1 states: the step of position k
\* leads from state k - 1 to state k.
Closed(n, V, step) == \A k \in 1..n, v \in V : step[<<k, v>>] \in V
Runs(r, n, V, base, step) ==
    /\ r \in [0..n -> V] /\ r[0] = base
    /\ \A k \in 1..n : r[k] = step[<<k, r[k - 1]>>]
Unfolds(g, n, V, base, step) ==
    \A s \in SUBSET (1..n) :
        /\ s = {} => g[s] = base
        /\ s # {} /\ g[s \ {Max(s)}] \in V => g[s] = step[<<Max(s), g[s \ {Max(s)}]>>]

FoldsUp(g, n, base, step) ==
    \A s \in SUBSET (1..n) : g[s] = IF s = {} THEN base ELSE step[<<Max(s), g[s \ {Max(s)}]>>]

LEMMA SomethingUnfolds ==
    ASSUME NEW n \in Nat, NEW V, NEW base \in V, NEW step, Closed(n, V, step)
    PROVE  \E g \in [SUBSET (1..n) -> V] : FoldsUp(g, n, base, step)
<1> DEFINE S == 1..n
           pick == [s \in SUBSET S |-> Max(s)]
<1>1. IsFiniteSet(S)
  <2>1. 1 \in Int /\ n \in Int
    OBVIOUS
  <2>2. QED
    BY <2>1, FS_Interval
<1>2. Picks(S, pick)
  BY GreatestOf DEF Picks
<1>3. StepsInto(S, V, pick, step)
  <2>1. ASSUME NEW s \in SUBSET S, NEW v \in V, s # {} PROVE step[<<pick[s], v>>] \in V
    <3>1. pick[s] \in S
      BY <2>1, GreatestOf
    <3>2. QED
      BY <3>1 DEF Closed
  <2>2. QED
    BY <2>1 DEF StepsInto
<1>4. PICK g \in [SUBSET S -> V] : FoldsAs(S, base, pick, step, g)
  <2> HIDE DEF S, pick
  <2>1. QED
    BY <1>1, <1>2, <1>3, FoldExists
<1>5. ASSUME NEW s \in SUBSET S
      PROVE  g[s] = IF s = {} THEN base ELSE step[<<Max(s), g[s \ {Max(s)}]>>]
  <2>1. pick[s] = Max(s)
    OBVIOUS
  <2>2. QED
    BY <1>4, <2>1 DEF FoldsAs
<1>6. QED
  BY <1>5 DEF FoldsUp

LEMMA UnfoldingRuns ==
    ASSUME NEW n \in Nat, NEW V, NEW base \in V, NEW step, Closed(n, V, step),
           NEW g, Unfolds(g, n, V, base, step)
    PROVE  \E r : Runs(r, n, V, base, step) /\ r[n] = g[1..n]
<1> DEFINE r == [k \in 0..n |-> g[1..k]]
           Bad == {k \in Nat : k \in 0..n /\ r[k] \notin V}
<1>1. r[0] = base
  <2>1. 1..0 = {} /\ 0 \in 0..n /\ {} \in SUBSET (1..n)
    OBVIOUS
  <2>2. QED
    BY <2>1 DEF Unfolds
<1>2. ASSUME NEW k \in 1..n, r[k - 1] \in V PROVE r[k] = step[<<k, r[k - 1]>>]
  <2> DEFINE s == 1..k
  <2>1. s \in SUBSET (1..n) /\ s # {} /\ k \in s /\ s \ {k} = 1..(k - 1) /\ k \in 0..n /\ k - 1 \in 0..n
    OBVIOUS
  <2>2. Max(s) = k
    <3>1. Max(s) \in s /\ Max(s) >= k
      <4> HIDE DEF s
      <4>1. QED
        BY <2>1, GreatestOf
    <3>2. QED
      BY <3>1
  <2>3. r[k] = g[s] /\ r[k - 1] = g[s \ {k}]
    BY <2>1
  <2> HIDE DEF s, r
  <2>4. QED
    BY <1>2, <2>1, <2>2, <2>3 DEF Unfolds
<1>3. ASSUME Bad # {} PROVE FALSE
  <2>1. PICK k \in Bad : \A j \in Bad : k <= j
    <3>1. Bad \subseteq Nat
      OBVIOUS
    <3> HIDE DEF Bad
    <3>2. QED
      BY <1>3, <3>1, LeastOf
  <2>2. k \in Nat /\ k \in 0..n /\ r[k] \notin V
    BY <2>1
  <2>3. k # 0
    BY <1>1, <2>2
  <2>4. k \in 1..n /\ k - 1 \in 0..n /\ k - 1 \in Nat /\ k - 1 \notin Bad
    <3> HIDE DEF Bad, r
    <3>1. QED
      BY <2>1, <2>2, <2>3
  <2>5. r[k - 1] \in V
    <3> HIDE DEF r
    <3>1. QED
      BY <2>4
  <2>6. r[k] = step[<<k, r[k - 1]>>]
    BY <1>2, <2>4, <2>5
  <2> HIDE DEF r
  <2>7. QED
    BY <2>2, <2>4, <2>5, <2>6 DEF Closed
<1>4. \A k \in 0..n : r[k] \in V
  <2>1. ASSUME NEW k \in 0..n, r[k] \notin V PROVE FALSE
    <3>1. k \in Bad
      BY <2>1
    <3>2. QED
      BY <1>3, <3>1
  <2>2. QED
    BY <2>1
<1>5. \A k \in 1..n : k - 1 \in 0..n
  OBVIOUS
<1>6. Runs(r, n, V, base, step)
  <2>1. r \in [0..n -> V]
    BY <1>4
  <2>2. \A k \in 1..n : r[k] = step[<<k, r[k - 1]>>]
    BY <1>2, <1>4, <1>5
  <2> HIDE DEF r
  <2>3. QED
    BY <1>1, <2>1, <2>2 DEF Runs
<1>7. r[n] = g[1..n]
  OBVIOUS
<1>8. QED
  BY <1>6, <1>7

\* The elements of a finite set in the order of their keys, which differ: every number of
\* smaller ones occurs.
Keyed(S, key) == key \in [S -> Int] /\ \A x, y \in S : key[x] = key[y] => x = y
InOrderOf(S, key, s) ==
    /\ s \in [1..Cardinality(S) -> S]
    /\ \A i, j \in 1..Cardinality(S) : i < j => key[s[i]] < key[s[j]]
    /\ \A x \in S : \E i \in 1..Cardinality(S) : s[i] = x

InKeyOrder(S, key) ==
    [i \in 1..Cardinality(S) |-> CHOOSE x \in S : Cardinality({y \in S : key[y] < key[x]}) = i - 1]

LEMMA OrderIsFound ==
    ASSUME NEW S, IsFiniteSet(S), NEW key, Keyed(S, key)
    PROVE  InOrderOf(S, key, InKeyOrder(S, key))
<1> DEFINE N == Cardinality(S)
           Below(x) == {y \in S : key[y] < key[x]}
           rank == [x \in S |-> Cardinality(Below(x))]
           s == [i \in 1..N |-> CHOOSE x \in S : Cardinality(Below(x)) = i - 1]
<1>0. \A x \in S : key[x] \in Int
  BY DEF Keyed
<1>1. N \in Nat /\ \A x \in S : IsFiniteSet(Below(x)) /\ Cardinality(Below(x)) \in Nat
  <2>1. N \in Nat
    BY FS_CardinalityType
  <2>2. \A x \in S : Below(x) \in SUBSET S
    OBVIOUS
  <2> HIDE DEF Below
  <2>3. QED
    BY <2>1, <2>2, FS_Subset, FS_CardinalityType
<1>2. ASSUME NEW x \in S, NEW y \in S, key[x] < key[y] PROVE rank[x] < rank[y]
  <2>1. Below(x) \cup {x} \in SUBSET Below(y) /\ x \notin Below(x)
    <3>1. key[x] \in Int /\ key[y] \in Int
      BY <1>0
    <3>2. \A z \in S : key[z] < key[x] => key[z] < key[y]
      BY <1>0, <1>2, <3>1
    <3>3. \A z \in Below(x) : z \in Below(y)
      BY <3>2
    <3>4. x \in Below(y) /\ ~ (key[x] < key[x])
      BY <1>2, <3>1
    <3>5. QED
      BY <3>3, <3>4
  <2>2. rank[x] = Cardinality(Below(x)) /\ rank[y] = Cardinality(Below(y))
    OBVIOUS
  <2> DEFINE A == Below(x)
             B == Below(y)
  <2>3. IsFiniteSet(A) /\ IsFiniteSet(B) /\ Cardinality(A) \in Nat /\ Cardinality(B) \in Nat
    BY <1>1
  <2> HIDE DEF A, B
  <2>4. Cardinality(A \cup {x}) = Cardinality(A) + 1
    BY <2>1, <2>3, FS_AddElement DEF A
  <2>5. Cardinality(A \cup {x}) <= Cardinality(B)
    BY <2>1, <2>3, FS_Subset DEF A, B
  <2>6. QED
    BY <2>2, <2>3, <2>4, <2>5 DEF A, B
<1>3. rank \in [S -> 0..N - 1]
  <2>1. ASSUME NEW x \in S PROVE Cardinality(Below(x)) \in 0..N - 1
    <3> DEFINE B == Below(x)
    <3>1. B \in SUBSET (S \ {x})
      BY <1>0
    <3>2. Cardinality(B) \in Nat
      BY <1>1
    <3> HIDE DEF B
    <3>3. IsFiniteSet(S \ {x}) /\ Cardinality(S \ {x}) = N - 1
      BY FS_RemoveElement
    <3>4. Cardinality(B) <= N - 1
      BY <3>1, <3>3, FS_Subset
    <3>5. QED
      BY <1>1, <3>2, <3>4 DEF B
  <2>2. QED
    BY <2>1
<1>4. rank \in Surjection(S, 0..N - 1)
  <2>1. \A x, y \in S : rank[x] = rank[y] => x = y
    <3>1. ASSUME NEW x \in S, NEW y \in S, rank[x] = rank[y] PROVE x = y
      <4>1. rank[x] \in Int /\ rank[y] \in Int
        BY <1>3
      <4> HIDE DEF rank
      <4>2. key[x] \in Int /\ key[y] \in Int
        BY <1>0
      <4>3. ~ (key[x] < key[y]) /\ ~ (key[y] < key[x])
        BY <1>2, <3>1, <4>1
      <4>4. QED
        BY <4>2, <4>3 DEF Keyed
    <3>2. QED
      BY <3>1
  <2>2. rank \in Injection(S, 0..N - 1)
    <3> HIDE DEF rank
    <3>1. QED
      BY <1>3, <2>1 DEF Injection, IsInjective
  <2>3. IsFiniteSet(0..N - 1) /\ Cardinality(0..N - 1) = N
    <3>1. 0 \in Int /\ N - 1 \in Int
      BY <1>1
    <3>2. IsFiniteSet(0..N - 1) /\ Cardinality(0..N - 1) = IF 0 > N - 1 THEN 0 ELSE N - 1 - 0 + 1
      BY <3>1, FS_Interval
    <3>3. QED
      BY <1>1, <3>2
  <2> HIDE DEF rank
  <2>4. QED
    BY <2>2, <2>3, FS_Injection
<1>5. ASSUME NEW i \in 1..N PROVE s[i] \in S /\ rank[s[i]] = i - 1
  <2>1. i - 1 \in 0..N - 1
    BY <1>1
  <2>2. \E x \in S : rank[x] = i - 1
    <3> HIDE DEF rank
    <3>1. QED
      BY <1>4, <2>1 DEF Surjection
  <2>3. \E x \in S : Cardinality(Below(x)) = i - 1
    BY <2>2
  <2>4. s[i] = CHOOSE x \in S : Cardinality(Below(x)) = i - 1
    OBVIOUS
  <2> HIDE DEF Below, s
  <2>5. s[i] \in S /\ Cardinality(Below(s[i])) = i - 1
    BY <2>3, <2>4
  <2>6. QED
    BY <2>5
<1> HIDE DEF s, rank, Below
<1>6. ASSUME NEW i \in 1..N, NEW j \in 1..N, i < j PROVE key[s[i]] < key[s[j]]
  <2>1. key[s[i]] \in Int /\ key[s[j]] \in Int /\ s[i] \in S /\ s[j] \in S /\ rank[s[i]] < rank[s[j]] /\ rank[s[i]] \in Int /\ rank[s[j]] \in Int
    <3>1. s[i] \in S /\ rank[s[i]] = i - 1 /\ s[j] \in S /\ rank[s[j]] = j - 1
      BY <1>5
    <3>2. i \in Int /\ j \in Int
      BY <1>1
    <3>3. i - 1 < j - 1 /\ i - 1 \in Int /\ j - 1 \in Int
      BY <1>6, <3>2
    <3>4. key[s[i]] \in Int /\ key[s[j]] \in Int
      BY <1>0, <3>1
    <3>5. QED
      BY <3>1, <3>3, <3>4
  <2>2. s[i] # s[j] /\ ~ (key[s[j]] < key[s[i]])
    BY <1>2, <1>5, <2>1
  <2>3. key[s[i]] # key[s[j]]
    BY <2>1, <2>2 DEF Keyed
  <2>4. QED
    BY <2>1, <2>2, <2>3
<1>7. ASSUME NEW x \in S PROVE \E i \in 1..N : s[i] = x
  <2>1. rank[x] \in 0..N - 1
    BY <1>3
  <2>2. PICK k \in 0..N - 1 : k = rank[x]
    BY <2>1
  <2> DEFINE i == k + 1
  <2>3. i \in 1..N /\ i - 1 = rank[x]
    <3>1. k + 1 \in 1..N /\ k + 1 - 1 = k
      BY <1>1
    <3>2. QED
      BY <2>2, <3>1
  <2> HIDE DEF i
  <2>4. s[i] \in S /\ rank[s[i]] = rank[x] /\ rank[x] \in Int
    BY <1>5, <2>1, <2>3
  <2>5. key[s[i]] \in Int /\ key[x] \in Int /\ ~ (key[s[i]] < key[x]) /\ ~ (key[x] < key[s[i]])
    <3>1. ~ (rank[x] < rank[x])
      BY <2>4
    <3>2. ~ (key[s[i]] < key[x])
      BY <1>2, <2>4, <3>1
    <3>3. ~ (key[x] < key[s[i]])
      BY <1>2, <2>4, <3>1
    <3>4. key[s[i]] \in Int /\ key[x] \in Int
      BY <1>0, <2>4
    <3>5. QED
      BY <3>2, <3>3, <3>4
  <2>6. s[i] = x
    BY <2>4, <2>5 DEF Keyed
  <2>7. QED
    BY <2>3, <2>6
<1>8. s \in [1..N -> S]
  BY <1>5 DEF s
<1>9. InOrderOf(S, key, s)
  BY <1>6, <1>7, <1>8 DEF InOrderOf
<1>10. QED
  BY <1>9 DEF s, Below, InKeyOrder

\* ... and those of a finite set of integers, in order.
InOrder(S, s) ==
    /\ s \in [1..Cardinality(S) -> S]
    /\ \A i, j \in 1..Cardinality(S) : i < j => s[i] < s[j]
    /\ \A x \in S : \E i \in 1..Cardinality(S) : s[i] = x

LEMMA IntegersInOrder ==
    ASSUME NEW S \in SUBSET Int, IsFiniteSet(S)
    PROVE  InOrder(S, [i \in 1..Cardinality(S) |-> CHOOSE x \in S : Cardinality({y \in S : y < x}) = i - 1])
<1> DEFINE key == [x \in S |-> x]
           s == [i \in 1..Cardinality(S) |-> CHOOSE x \in S : Cardinality({y \in S : y < x}) = i - 1]
           t == InKeyOrder(S, key)
<1>1. Keyed(S, key)
  BY DEF Keyed
<1>2. \A x \in S : {y \in S : key[y] < key[x]} = {y \in S : y < x}
  OBVIOUS
<1>3. InOrderOf(S, key, t)
  <2> HIDE DEF key
  <2>1. QED
    BY <1>1, OrderIsFound
<1>4. \A x \in S : key[x] = x
  OBVIOUS
<1> HIDE DEF key
<1>5. t = s
  <2> DEFINE A(i) == CHOOSE x \in S : Cardinality({y \in S : key[y] < key[x]}) = i - 1
             B(i) == CHOOSE x \in S : Cardinality({y \in S : y < x}) = i - 1
  <2>1. \A i \in 1..Cardinality(S) : A(i) = B(i)
    BY <1>2
  <2>2. t = [i \in 1..Cardinality(S) |-> A(i)]
    BY DEF InKeyOrder
  <2>3. s = [i \in 1..Cardinality(S) |-> B(i)]
    OBVIOUS
  <2> HIDE DEF A, B, t, s
  <2>4. QED
    BY <2>1, <2>2, <2>3
<1> HIDE DEF t
<1>6. InOrderOf(S, key, s)
  BY <1>3, <1>5
<1> HIDE DEF s
<1>7. InOrder(S, s)
  BY <1>4, <1>6 DEF InOrderOf, InOrder
<1>8. QED
  BY <1>7 DEF s

-----------------------------------------------------------------------------
(***************************************************************************)
(* The greedy matching of two sets of events: its pairs are in order, and  *)
(* step by step from the end, as many events as it makes pairs touch every *)
(* pair that can be made of what is left.                                  *)
(***************************************************************************)
LEMMA SortedIsInOrder ==
    ASSUME NEW S \in SUBSET Int, IsFiniteSet(S)
    PROVE  InOrder(S, Sorted(S))
BY IntegersInOrder DEF Sorted

-----------------------------------------------------------------------------
Climbs(f, n) == f \in [1..n -> Int] /\ \A a, b \in 1..n : a < b => f[a] < f[b]
Together(x, y, tol) == -tol <= x - y /\ x - y <= tol
Could(p, r, P, R, tol) == {e \in (1..P) \X (1..R) : Together(p[e[1]], r[e[2]], tol)}
MatchStates(P, R) == (1..P + 1) \X (1..R + 1) \X SUBSET ((1..P) \X (1..R))

\* A step of the matching: nothing is left, a pair is made, or one event is given up.
Finished(v, P, R) == v[1] > P \/ v[2] > R
Pairs1(v, w, p, r, tol) ==
    /\ Together(p[v[1]], r[v[2]], tol)
    /\ w[1] = v[1] + 1 /\ w[2] = v[2] + 1 /\ w[3] = v[3] \cup {<<v[1], v[2]>>}
SkipsLeft(v, w, p, r, tol) ==
    /\ r[v[2]] - p[v[1]] > tol
    /\ w[1] = v[1] + 1 /\ w[2] = v[2] /\ w[3] = v[3]
SkipsRight(v, w, p, r, tol) ==
    /\ p[v[1]] - r[v[2]] > tol
    /\ w[1] = v[1] /\ w[2] = v[2] + 1 /\ w[3] = v[3]
Moves(v, w, p, r, P, R, tol) ==
    IF Finished(v, P, R) THEN w = v
    ELSE Pairs1(v, w, p, r, tol) \/ SkipsLeft(v, w, p, r, tol) \/ SkipsRight(v, w, p, r, tol)

MatchStep(p, r, P, R, tol) ==
    [x \in (1..P + R) \X MatchStates(P, R) |->
        LET at == x[2]
        IN  IF at[1] > P \/ at[2] > R THEN at
            ELSE LET next == MatchOrSkip(at[1], at[2], p, r, tol)
                 IN  <<next[1], next[2], at[3] \cup next[3]>>]

LEMMA StepMoves ==
    ASSUME NEW P \in Nat, NEW R \in Nat, NEW p, Climbs(p, P), NEW r, Climbs(r, R), NEW tol \in Nat,
           NEW k \in 1..P + R, NEW v \in MatchStates(P, R)
    PROVE  LET w == MatchStep(p, r, P, R, tol)[<<k, v>>]
           IN  w \in MatchStates(P, R) /\ Moves(v, w, p, r, P, R, tol)
<1> DEFINE w == MatchStep(p, r, P, R, tol)[<<k, v>>]
           next == MatchOrSkip(v[1], v[2], p, r, tol)
<1>1. v[1] \in 1..P + 1 /\ v[2] \in 1..R + 1 /\ v[3] \in SUBSET ((1..P) \X (1..R))
      /\ v = <<v[1], v[2], v[3]>>
  BY DEF MatchStates
<1>2. w = IF v[1] > P \/ v[2] > R THEN v ELSE <<next[1], next[2], v[3] \cup next[3]>>
  <2>1. <<k, v>> \in (1..P + R) \X MatchStates(P, R)
    OBVIOUS
  <2>2. QED
    BY <2>1 DEF MatchStep
<1>3. CASE Finished(v, P, R)
  BY <1>2, <1>3 DEF Finished, Moves
<1>4. CASE ~ Finished(v, P, R)
  <2>1. v[1] \in 1..P /\ v[2] \in 1..R /\ <<v[1], v[2]>> \in (1..P) \X (1..R)
    BY <1>1, <1>4 DEF Finished
  <2> DEFINE x == p[v[1]]
             y == r[v[2]]
  <2>2. x \in Int /\ y \in Int
    BY <2>1 DEF Climbs
  <2>3. w = <<next[1], next[2], v[3] \cup next[3]>>
    BY <1>2, <1>4 DEF Finished
  <2> HIDE DEF w
  <2>4. CASE Together(x, y, tol)
    <3>1. Abs(x - y) <= tol
      <4> HIDE DEF x, y
      <4>1. QED
        BY <2>2, <2>4 DEF Together, Abs
    <3>2. next = <<v[1] + 1, v[2] + 1, {<<v[1], v[2]>>}>>
      BY <3>1 DEF MatchOrSkip
    <3>3. w = <<v[1] + 1, v[2] + 1, v[3] \cup {<<v[1], v[2]>>}>>
      BY <2>3, <3>2
    <3>4. v[1] + 1 \in 1..P + 1 /\ v[2] + 1 \in 1..R + 1 /\ v[3] \cup {<<v[1], v[2]>>} \in SUBSET ((1..P) \X (1..R))
      BY <1>1, <2>1
    <3>5. w \in MatchStates(P, R)
      BY <3>3, <3>4 DEF MatchStates
    <3>6. Pairs1(v, w, p, r, tol)
      BY <2>4, <3>3 DEF Pairs1
    <3>7. QED
      BY <1>4, <3>5, <3>6 DEF Moves, w
  <2>5. CASE y - x > tol
    <3>1. ~ Abs(x - y) <= tol /\ x < y
      <4> HIDE DEF x, y
      <4>1. QED
        BY <2>2, <2>5 DEF Abs
    <3>2. next = <<v[1] + 1, v[2], {}>>
      BY <3>1 DEF MatchOrSkip
    <3>3. w = <<v[1] + 1, v[2], v[3]>>
      BY <2>3, <3>2
    <3>4. v[1] + 1 \in 1..P + 1
      BY <2>1
    <3>5. w \in MatchStates(P, R)
      BY <1>1, <3>3, <3>4 DEF MatchStates
    <3>6. SkipsLeft(v, w, p, r, tol)
      BY <2>5, <3>3 DEF SkipsLeft
    <3>7. QED
      BY <1>4, <3>5, <3>6 DEF Moves, w
  <2>6. CASE x - y > tol
    <3>1. ~ Abs(x - y) <= tol /\ ~ x < y
      <4> HIDE DEF x, y
      <4>1. QED
        BY <2>2, <2>6 DEF Abs
    <3>2. next = <<v[1], v[2] + 1, {}>>
      BY <3>1 DEF MatchOrSkip
    <3>3. w = <<v[1], v[2] + 1, v[3]>>
      BY <2>3, <3>2
    <3>4. v[2] + 1 \in 1..R + 1
      BY <2>1
    <3>5. w \in MatchStates(P, R)
      BY <1>1, <3>3, <3>4 DEF MatchStates
    <3>6. SkipsRight(v, w, p, r, tol)
      BY <2>6, <3>3 DEF SkipsRight
    <3>7. QED
      BY <1>4, <3>5, <3>6 DEF Moves, w
  <2>7. Together(x, y, tol) \/ y - x > tol \/ x - y > tol
    <3> HIDE DEF x, y
    <3>1. QED
      BY <2>2 DEF Together
  <2>8. QED
    BY <2>4, <2>5, <2>6, <2>7
<1>5. QED
  BY <1>3, <1>4

\* What holds of every state of the matching after k steps: its pairs can be made, lie before
\* the events still to be looked at, and stand in order.
InChain(M) == \A a, b \in M : a # b => (a[1] < b[1] /\ a[2] < b[2]) \/ (b[1] < a[1] /\ b[2] < a[2])
Sofar(k, v, p, r, P, R, tol) ==
    /\ v[3] \subseteq Could(p, r, P, R, tol)
    /\ \A a \in v[3] : a[1] < v[1] /\ a[2] < v[2]
    /\ InChain(v[3])
    /\ Finished(v, P, R) \/ v[1] + v[2] >= k + 2

LEMMA MovesKeepOrder ==
    ASSUME NEW P \in Nat, NEW R \in Nat, NEW p, Climbs(p, P), NEW r, Climbs(r, R), NEW tol \in Nat,
           NEW k \in 1..P + R, NEW v \in MatchStates(P, R), NEW w \in MatchStates(P, R),
           Moves(v, w, p, r, P, R, tol), Sofar(k - 1, v, p, r, P, R, tol)
    PROVE  Sofar(k, w, p, r, P, R, tol)
<1>1. /\ v[1] \in 1..P + 1 /\ v[2] \in 1..R + 1 /\ v[3] \in SUBSET ((1..P) \X (1..R))
      /\ w[1] \in 1..P + 1 /\ w[2] \in 1..R + 1
  BY DEF MatchStates
<1>2. CASE Finished(v, P, R)
  BY <1>2 DEF Moves, Sofar
<1>3. CASE ~ Finished(v, P, R)
  <2>1. v[1] \in 1..P /\ v[2] \in 1..R /\ <<v[1], v[2]>> \in (1..P) \X (1..R)
    BY <1>1, <1>3 DEF Finished
  <2>2. v[1] + v[2] >= k + 1
    BY <1>1, <1>3 DEF Sofar
  <2>3. \A a \in v[3] : a[1] \in Int /\ a[2] \in Int
    BY <1>1
  <2>4. CASE Pairs1(v, w, p, r, tol)
    <3> DEFINE new == <<v[1], v[2]>>
    <3>1. new \in Could(p, r, P, R, tol)
      BY <2>1, <2>4 DEF Could, Pairs1
    <3>2. w[3] = v[3] \cup {new} /\ w[1] = v[1] + 1 /\ w[2] = v[2] + 1 /\ new[1] = v[1] /\ new[2] = v[2]
      BY <2>4 DEF Pairs1
    <3> HIDE DEF new
    <3>3. w[3] \subseteq Could(p, r, P, R, tol)
      BY <3>1, <3>2 DEF Sofar
    <3>4. \A a \in v[3] : a[1] < new[1] /\ a[2] < new[2]
      BY <3>2 DEF Sofar
    <3>5. InChain(w[3])
      BY <3>2, <3>4 DEF Sofar, InChain
    <3>6. \A a \in w[3] : a[1] < w[1] /\ a[2] < w[2]
      <4>1. ASSUME NEW a \in v[3] PROVE a[1] < w[1] /\ a[2] < w[2]
        BY <1>1, <2>3, <3>2, <3>4
      <4>2. new[1] < w[1] /\ new[2] < w[2]
        BY <1>1, <3>2
      <4>3. QED
        BY <3>2, <4>1, <4>2
    <3>7. w[1] + w[2] >= k + 2
      BY <1>1, <2>2, <3>2
    <3>8. QED
      BY <3>3, <3>5, <3>6, <3>7 DEF Sofar
  <2>5. CASE SkipsLeft(v, w, p, r, tol) \/ SkipsRight(v, w, p, r, tol)
    <3>1. w[3] = v[3] /\ w[1] >= v[1] /\ w[2] >= v[2] /\ w[1] + w[2] = v[1] + v[2] + 1
      BY <1>1, <2>5 DEF SkipsLeft, SkipsRight
    <3>2. \A a \in w[3] : a[1] < w[1] /\ a[2] < w[2]
      <4>1. ASSUME NEW a \in v[3] PROVE a[1] < w[1] /\ a[2] < w[2]
        <5>1. a[1] < v[1] /\ a[2] < v[2]
          BY DEF Sofar
        <5>2. QED
          BY <1>1, <2>3, <3>1, <5>1
      <4>2. QED
        BY <3>1, <4>1
    <3>3. w[1] + w[2] >= k + 2
      BY <1>1, <2>2, <3>1
    <3>4. QED
      BY <3>1, <3>2, <3>3 DEF Sofar
  <2>6. QED
    BY <1>3, <2>4, <2>5 DEF Moves
<1>4. QED
  BY <1>2, <1>3

\* What is paired from here on can be covered by as many events from here on.
CoversFrom(S, T, v, p, r, P, R, tol) ==
    \A e \in Could(p, r, P, R, tol) : e[1] >= v[1] /\ e[2] >= v[2] => e[1] \in S \/ e[2] \in T
Covered(v, n, p, r, P, R, tol) ==
    \E S \in SUBSET (v[1]..P), T \in SUBSET (v[2]..R) :
        CoversFrom(S, T, v, p, r, P, R, tol) /\ Cardinality(S) + Cardinality(T) + Cardinality(v[3]) = n

LEMMA MovesAreCovered ==
    ASSUME NEW P \in Nat, NEW R \in Nat, NEW p, Climbs(p, P), NEW r, Climbs(r, R), NEW tol \in Nat,
           NEW n \in Nat, NEW k \in Int, NEW v \in MatchStates(P, R), NEW w \in MatchStates(P, R),
           Moves(v, w, p, r, P, R, tol), Sofar(k, v, p, r, P, R, tol), Covered(w, n, p, r, P, R, tol)
    PROVE  Covered(v, n, p, r, P, R, tol)
<1>1. /\ v[1] \in 1..P + 1 /\ v[2] \in 1..R + 1 /\ v[3] \in SUBSET ((1..P) \X (1..R))
      /\ w[1] \in 1..P + 1 /\ w[2] \in 1..R + 1
  BY DEF MatchStates
<1>2. CASE Finished(v, P, R)
  BY <1>2 DEF Moves
<1>3. CASE ~ Finished(v, P, R)
  <2> DEFINE i == v[1]
             j == v[2]
             C == Could(p, r, P, R, tol)
  <2>1. i \in 1..P /\ j \in 1..R
    BY <1>1, <1>3 DEF Finished
  <2>2. PICK S \in SUBSET (w[1]..P), T \in SUBSET (w[2]..R) :
           CoversFrom(S, T, w, p, r, P, R, tol) /\ Cardinality(S) + Cardinality(T) + Cardinality(w[3]) = n
    BY DEF Covered
  <2>3. \A e \in C : e[1] \in 1..P /\ e[2] \in 1..R /\ Together(p[e[1]], r[e[2]], tol)
    BY DEF Could
  <2>4. \A a \in 1..P, b \in 1..R : Together(p[a], r[b], tol) => <<a, b>> \in C
    BY DEF Could
  <2>5. \A a \in 1..P : p[a] \in Int /\ \A b \in 1..P : a < b => p[a] < p[b]
    BY DEF Climbs
  <2>6. \A a \in 1..R : r[a] \in Int /\ \A b \in 1..R : a < b => r[a] < r[b]
    BY DEF Climbs
  <2>7. IsFiniteSet(S) /\ IsFiniteSet(T) /\ IsFiniteSet(v[3])
        /\ Cardinality(S) \in Nat /\ Cardinality(T) \in Nat /\ Cardinality(v[3]) \in Nat
    <3>1. 1 \in Int /\ P \in Int /\ R \in Int /\ w[1] \in Int /\ w[2] \in Int
      BY <1>1
    <3>2. IsFiniteSet(1..P) /\ IsFiniteSet(1..R) /\ IsFiniteSet(w[1]..P) /\ IsFiniteSet(w[2]..R)
      BY <3>1, FS_Interval
    <3>3. IsFiniteSet((1..P) \X (1..R))
      BY <3>2, FS_Product
    <3>4. IsFiniteSet(S) /\ IsFiniteSet(T) /\ IsFiniteSet(v[3])
      BY <1>1, <2>2, <3>2, <3>3, FS_Subset
    <3>5. QED
      BY <3>4, FS_CardinalityType
  <2> HIDE DEF C
  <2>8. CASE Pairs1(v, w, p, r, tol)
    <3>1. w[1] = i + 1 /\ w[2] = j + 1 /\ w[3] = v[3] \cup {<<i, j>>} /\ Together(p[i], r[j], tol)
      BY <2>8 DEF Pairs1
    <3> HIDE DEF i, j
    <3>2. Cardinality(w[3]) = Cardinality(v[3]) + 1
      <4>1. <<i, j>> \notin v[3]
        <5>1. ASSUME <<i, j>> \in v[3] PROVE FALSE
          <6> DEFINE a == <<i, j>>
          <6>1. a[1] < i
            BY <5>1 DEF Sofar, i, j
          <6>2. QED
            BY <2>1, <6>1
        <5>2. QED
          BY <5>1
      <4>2. QED
        BY <2>7, <3>1, <4>1, FS_AddElement, ZenonT(60)
    <3>3. \A e \in C : e[1] > i /\ e[2] > j => e[1] \in S \/ e[2] \in T
      <4>1. ASSUME NEW e \in C, e[1] > i, e[2] > j PROVE e[1] \in S \/ e[2] \in T
        <5>1. e[1] >= w[1] /\ e[2] >= w[2]
          BY <2>1, <2>3, <3>1, <4>1
        <5>2. QED
          BY <2>2, <5>1 DEF CoversFrom, C
      <4>2. QED
        BY <4>1
    <3>4. CASE \A b \in 1..R : b > j /\ Together(p[i], r[b], tol) => b \in T
      <4> DEFINE U == T \cup {j}
      <4>1. j \notin T /\ U \in SUBSET (j..R) /\ S \in SUBSET (i..P)
        <5>1. \A x \in w[1]..P : x \in i..P
          BY <2>1, <3>1
        <5>2. \A x \in w[2]..R : x \in j..R /\ x # j
          BY <2>1, <3>1
        <5>3. j \in j..R
          BY <2>1
        <5>4. QED
          BY <2>2, <5>1, <5>2, <5>3
      <4>2. Cardinality(U) = Cardinality(T) + 1
        BY <2>7, <4>1, FS_AddElement
      <4>3. ASSUME NEW e \in C, e[1] >= i, e[2] >= j PROVE e[1] \in S \/ e[2] \in U
        <5>1. CASE e[2] = j
          BY <5>1
        <5>2. CASE e[2] # j /\ e[1] = i
          BY <2>1, <2>3, <3>4, <4>3, <5>2
        <5>3. CASE e[2] # j /\ e[1] # i
          BY <2>1, <2>3, <3>3, <4>3, <5>3
        <5>4. QED
          BY <5>1, <5>2, <5>3
      <4> HIDE DEF U
      <4>4. CoversFrom(S, U, v, p, r, P, R, tol)
        BY <4>3 DEF CoversFrom, C, i, j
      <4>5. Cardinality(S) + Cardinality(U) + Cardinality(v[3]) = n
        BY <2>2, <2>7, <3>2, <4>2
      <4>6. QED
        BY <4>1, <4>4, <4>5 DEF Covered, i, j
    <3>5. CASE ~ \A b \in 1..R : b > j /\ Together(p[i], r[b], tol) => b \in T
      <4> DEFINE U == S \cup {i}
      <4>1. i \notin S /\ U \in SUBSET (i..P) /\ T \in SUBSET (j..R)
        <5>1. \A x \in w[2]..R : x \in j..R
          BY <2>1, <3>1
        <5>2. \A x \in w[1]..P : x \in i..P /\ x # i
          BY <2>1, <3>1
        <5>3. i \in i..P
          BY <2>1
        <5>4. QED
          BY <2>2, <5>1, <5>2, <5>3
      <4>2. Cardinality(U) = Cardinality(S) + 1
        BY <2>7, <4>1, FS_AddElement
      <4>3. PICK b \in 1..R : b > j /\ Together(p[i], r[b], tol) /\ b \notin T
        BY <3>5
      <4>4. ASSUME NEW a \in 1..P, a > i, Together(p[a], r[j], tol) PROVE a \in S
        <5>1. p[i] < p[a] /\ r[j] < r[b]
          BY <2>1, <2>5, <2>6, <4>3, <4>4
        <5>2. p[i] \in Int /\ p[a] \in Int /\ r[j] \in Int /\ r[b] \in Int
          BY <2>1, <2>5, <2>6
        <5>3. Together(p[a], r[b], tol)
          BY <4>3, <4>4, <5>1, <5>2 DEF Together
        <5> DEFINE e == <<a, b>>
        <5>4. e \in C /\ e[1] = a /\ e[2] = b
          BY <2>4, <5>3
        <5> HIDE DEF e
        <5>5. QED
          BY <3>3, <4>3, <4>4, <5>4
      <4>5. ASSUME NEW e \in C, e[1] >= i, e[2] >= j PROVE e[1] \in U \/ e[2] \in T
        <5>1. CASE e[1] = i
          BY <5>1
        <5>2. CASE e[1] # i /\ e[2] = j
          BY <2>1, <2>3, <4>4, <4>5, <5>2
        <5>3. CASE e[2] # j /\ e[1] # i
          BY <2>1, <2>3, <3>3, <4>5, <5>3
        <5>4. QED
          BY <5>1, <5>2, <5>3
      <4> HIDE DEF U
      <4>6. CoversFrom(U, T, v, p, r, P, R, tol)
        BY <4>5 DEF CoversFrom, C, i, j
      <4>7. Cardinality(U) + Cardinality(T) + Cardinality(v[3]) = n
        BY <2>2, <2>7, <3>2, <4>2
      <4>8. QED
        BY <4>1, <4>6, <4>7 DEF Covered, i, j
    <3>6. QED
      BY <3>4, <3>5
  <2>9. CASE SkipsLeft(v, w, p, r, tol)
    <3>1. w[1] = i + 1 /\ w[2] = j /\ w[3] = v[3] /\ r[j] - p[i] > tol
      BY <2>9 DEF SkipsLeft
    <3> HIDE DEF i, j
    <3>2. S \in SUBSET (i..P) /\ T \in SUBSET (j..R)
      <4>1. \A x \in w[1]..P : x \in i..P
        BY <2>1, <3>1
      <4>2. QED
        BY <2>2, <3>1, <4>1
    <3>3. ASSUME NEW e \in C, e[1] >= i, e[2] >= j PROVE e[1] \in S \/ e[2] \in T
      <4>1. e[1] # i
        <5>1. ASSUME e[1] = i PROVE FALSE
          <6>1. r[e[2]] >= r[j] /\ r[e[2]] \in Int /\ r[j] \in Int /\ p[i] \in Int
            BY <2>1, <2>3, <2>5, <2>6, <3>3
          <6>2. Together(p[i], r[e[2]], tol)
            BY <2>3, <5>1
          <6>3. QED
            BY <3>1, <6>1, <6>2 DEF Together
        <5>2. QED
          BY <5>1
      <4>2. e[1] >= w[1] /\ e[2] >= w[2]
        BY <2>1, <2>3, <3>1, <3>3, <4>1
      <4>3. QED
        BY <2>2, <4>2 DEF CoversFrom, C
    <3>4. CoversFrom(S, T, v, p, r, P, R, tol)
      BY <3>3 DEF CoversFrom, C, i, j
    <3>5. QED
      BY <2>2, <3>1, <3>2, <3>4 DEF Covered, i, j
  <2>10. CASE SkipsRight(v, w, p, r, tol)
    <3>1. w[1] = i /\ w[2] = j + 1 /\ w[3] = v[3] /\ p[i] - r[j] > tol
      BY <2>10 DEF SkipsRight
    <3> HIDE DEF i, j
    <3>2. S \in SUBSET (i..P) /\ T \in SUBSET (j..R)
      <4>1. \A x \in w[2]..R : x \in j..R
        BY <2>1, <3>1
      <4>2. QED
        BY <2>2, <3>1, <4>1
    <3>3. ASSUME NEW e \in C, e[1] >= i, e[2] >= j PROVE e[1] \in S \/ e[2] \in T
      <4>1. e[2] # j
        <5>1. ASSUME e[2] = j PROVE FALSE
          <6>1. p[e[1]] >= p[i] /\ p[e[1]] \in Int /\ r[j] \in Int /\ p[i] \in Int
            BY <2>1, <2>3, <2>5, <2>6, <3>3
          <6>2. Together(p[e[1]], r[j], tol)
            BY <2>3, <5>1
          <6>3. QED
            BY <3>1, <6>1, <6>2 DEF Together
        <5>2. QED
          BY <5>1
      <4>2. e[1] >= w[1] /\ e[2] >= w[2]
        BY <2>1, <2>3, <3>1, <3>3, <4>1
      <4>3. QED
        BY <2>2, <4>2 DEF CoversFrom, C
    <3>4. CoversFrom(S, T, v, p, r, P, R, tol)
      BY <3>3 DEF CoversFrom, C, i, j
    <3>5. QED
      BY <2>2, <3>1, <3>2, <3>4 DEF Covered, i, j
  <2>11. QED
    BY <1>3, <2>8, <2>9, <2>10 DEF Moves
<1>4. QED
  BY <1>2, <1>3

LEMMA RisingIsSequence ==
    ASSUME NEW P \in Nat, NEW p, Climbs(p, P)
    PROVE  Len(p) = P /\ DOMAIN p = 1..P
<1>1. p \in [1..P -> Int]
  BY DEF Climbs
<1>2. p \in Seq(Int)
  BY <1>1
<1>3. QED
  BY <1>1, <1>2

LEMMA MatchingRuns ==
    ASSUME NEW P \in Nat, NEW R \in Nat, NEW p, Climbs(p, P), NEW r, Climbs(r, R), NEW tol \in Nat
    PROVE  \E at : /\ Runs(at, P + R, MatchStates(P, R), <<1, 1, {}>>, MatchStep(p, r, P, R, tol))
                   /\ matches(p, r, tol) = at[P + R][3]
<1> DEFINE N == P + R
           V == MatchStates(P, R)
           base == <<1, 1, {}>>
           step == MatchStep(p, r, P, R, tol)
           Go(at) == IF at[1] > P \/ at[2] > R THEN at
                     ELSE LET next == MatchOrSkip(at[1], at[2], p, r, tol)
                          IN  <<next[1], next[2], at[3] \cup next[3]>>
           One(g) == g = [s \in SUBSET (1..N) |-> IF s = {} THEN base ELSE Go(g[s \ {Max(s)}])]
           chosen == CHOOSE g : One(g)
<1>1. N \in Nat /\ Len(p) = P /\ Len(r) = R
  BY RisingIsSequence
<1>2. matches(p, r, tol) = chosen[1..N][3]
  BY <1>1 DEF matches, FoldLeft, MapThenFoldSet
<1>3. base \in V
  <2>1. 1 \in 1..P + 1 /\ 1 \in 1..R + 1 /\ {} \in SUBSET ((1..P) \X (1..R))
    OBVIOUS
  <2>2. QED
    BY <2>1 DEF MatchStates
<1>4. Closed(N, V, step)
  BY StepMoves DEF Closed
<1>5. \A k \in 1..N, v \in V : step[<<k, v>>] = Go(v)
  <2>1. ASSUME NEW k \in 1..N, NEW v \in V PROVE step[<<k, v>>] = Go(v)
    <3>1. <<k, v>> \in (1..N) \X V
      OBVIOUS
    <3> HIDE DEF V
    <3>2. QED
      BY <3>1 DEF MatchStep, V
  <2>2. QED
    BY <2>1
<1>6. \E g \in [SUBSET (1..N) -> V] : FoldsUp(g, N, base, step)
  <2> HIDE DEF N, V, base, step
  <2>1. QED
    BY <1>1, <1>3, <1>4, SomethingUnfolds
<1>7. PICK g \in [SUBSET (1..N) -> V] : FoldsUp(g, N, base, step)
  BY <1>6
<1> HIDE DEF V, step, base, Go
<1>8. One(g)
  <2>1. ASSUME NEW s \in SUBSET (1..N), s # {}
        PROVE  step[<<Max(s), g[s \ {Max(s)}]>>] = Go(g[s \ {Max(s)}])
    <3>1. Max(s) \in 1..N
      BY <1>1, <2>1, GreatestOf
    <3>2. QED
      BY <1>5, <3>1
  <2>2. \A s \in SUBSET (1..N) : g[s] = IF s = {} THEN base ELSE Go(g[s \ {Max(s)}])
    BY <1>7, <2>1 DEF FoldsUp
  <2>3. QED
    BY <2>2
<1>9. One(chosen)
  <2> HIDE DEF One
  <2>1. QED
    BY <1>8
<1>10. Unfolds(chosen, N, V, base, step)
  <2>1. ASSUME NEW s \in SUBSET (1..N), s # {}, chosen[s \ {Max(s)}] \in V
        PROVE  chosen[s] = step[<<Max(s), chosen[s \ {Max(s)}]>>]
    <3>1. Max(s) \in 1..N
      BY <1>1, <2>1, GreatestOf
    <3> HIDE DEF chosen
    <3>2. chosen[s] = Go(chosen[s \ {Max(s)}])
      BY <1>9, <2>1
    <3>3. QED
      BY <1>5, <2>1, <3>1, <3>2
  <2>2. ASSUME NEW s \in SUBSET (1..N), s = {} PROVE chosen[s] = base
    <3> HIDE DEF chosen
    <3>1. QED
      BY <1>9, <2>2
  <2> HIDE DEF chosen
  <2>3. QED
    BY <2>1, <2>2 DEF Unfolds
<1>11. \E at : Runs(at, N, V, base, step) /\ at[N] = chosen[1..N]
  <2> HIDE DEF chosen, N
  <2>1. QED
    BY <1>1, <1>3, <1>4, <1>10, UnfoldingRuns
<1>12. QED
  BY <1>2, <1>11 DEF N, V, base, step

\* The matching is in order, of pairs that could be made, and as large as any: as many events
\* as it has pairs touch every pair that could be made.
IsLargest(p, r, P, R, tol, M) ==
    /\ M \subseteq Could(p, r, P, R, tol)
    /\ InChain(M)
    /\ \E S \in SUBSET (1..P), T \in SUBSET (1..R) :
          /\ \A e \in Could(p, r, P, R, tol) : e[1] \in S \/ e[2] \in T
          /\ Cardinality(S) + Cardinality(T) = Cardinality(M)

LEMMA MatchingIsLargest ==
    ASSUME NEW P \in Nat, NEW R \in Nat, NEW p, Climbs(p, P), NEW r, Climbs(r, R), NEW tol \in Nat
    PROVE  IsLargest(p, r, P, R, tol, matches(p, r, tol))
<1> DEFINE N == P + R
           V == MatchStates(P, R)
           C == Could(p, r, P, R, tol)
           Holds(k, v) == Sofar(k, v, p, r, P, R, tol)
           Moved(v, w) == Moves(v, w, p, r, P, R, tol)
<1>1. PICK at : /\ Runs(at, N, V, <<1, 1, {}>>, MatchStep(p, r, P, R, tol))
                /\ matches(p, r, tol) = at[N][3]
  BY MatchingRuns
<1>2. N \in Nat /\ at \in [0..N -> V] /\ at[0] = <<1, 1, {}>>
  BY <1>1 DEF Runs
<1>3. \A k \in 1..N : Moved(at[k - 1], at[k]) /\ at[k - 1] \in V /\ at[k] \in V
  <2>1. ASSUME NEW k \in 1..N PROVE Moved(at[k - 1], at[k]) /\ at[k - 1] \in V /\ at[k] \in V
    <3> DEFINE v == at[k - 1]
    <3>1. k - 1 \in 0..N /\ k \in 0..N
      BY <1>2
    <3>2. v \in V /\ at[k] \in V
      BY <1>2, <3>1
    <3>3. at[k] = MatchStep(p, r, P, R, tol)[<<k, v>>]
      BY <1>1 DEF Runs
    <3> HIDE DEF v
    <3>4. Moves(v, at[k], p, r, P, R, tol)
      BY <3>2, <3>3, StepMoves
    <3>5. QED
      BY <3>2, <3>4 DEF v
  <2>2. QED
    BY <2>1
<1>4. \A k \in 0..N : Holds(k, at[k])
  <2> DEFINE Bad == {k \in 0..N : ~ Holds(k, at[k])}
  <2>1. Bad # {} => FALSE
    <3>1. ASSUME Bad # {} PROVE FALSE
      <4>1. Bad \subseteq Nat
        BY <1>2
      <4>2. PICK k \in Bad : \A m \in Bad : k <= m
        <5> HIDE DEF Bad
        <5>1. QED
          BY <3>1, <4>1, LeastOf
      <4>3. k # 0
        <5>1. Holds(0, at[0])
          <6>1. at[0][1] = 1 /\ at[0][2] = 1 /\ at[0][3] = {}
            BY <1>2
          <6>2. QED
            BY <6>1 DEF Sofar, InChain
        <5>2. QED
          BY <4>2, <5>1
      <4>4. k \in 1..N /\ k - 1 \in 0..N /\ k - 1 < k
        BY <1>2, <4>2, <4>3
      <4>5. Holds(k - 1, at[k - 1])
        <5>1. k - 1 \notin Bad
          <6> HIDE DEF Bad
          <6>1. QED
            BY <1>2, <4>1, <4>2, <4>4
        <5>2. QED
          BY <4>4, <5>1
      <4> DEFINE v == at[k - 1]
                 w == at[k]
      <4>6. v \in V /\ w \in V /\ Moved(v, w) /\ Holds(k - 1, v)
        BY <1>3, <4>4, <4>5
      <4> HIDE DEF v, w, Bad
      <4>7. Holds(k, w)
        BY <4>4, <4>6, MovesKeepOrder
      <4>8. QED
        BY <4>2, <4>7 DEF w, Bad
    <3>2. QED
      BY <3>1
  <2>2. QED
    BY <2>1
<1> DEFINE n == Cardinality(at[N][3])
<1>5. n \in Nat /\ at[N] \in V
  <2>1. at[N] \in V
    BY <1>2
  <2>2. at[N][3] \in SUBSET ((1..P) \X (1..R))
    BY <2>1 DEF MatchStates
  <2>3. 1 \in Int /\ P \in Int /\ R \in Int
    OBVIOUS
  <2>4. IsFiniteSet((1..P) \X (1..R))
    BY <2>3, FS_Interval, FS_Product
  <2>5. QED
    BY <2>1, <2>2, <2>4, FS_Subset, FS_CardinalityType
<1> DEFINE Done(k) == Covered(at[k], n, p, r, P, R, tol)
<1>6. Done(N)
  <2> DEFINE v == at[N]
  <2>1. v \in V /\ Holds(N, v)
    BY <1>2, <1>4
  <2>2. v[1] \in 1..P + 1 /\ v[2] \in 1..R + 1
    BY <2>1 DEF MatchStates
  <2>3. Finished(v, P, R)
    <3> HIDE DEF v
    <3>1. QED
      BY <2>1, <2>2 DEF Sofar, Finished
  <2>4. ASSUME NEW e \in C, e[1] >= v[1], e[2] >= v[2] PROVE FALSE
    <3>1. e[1] \in 1..P /\ e[2] \in 1..R
      BY DEF Could
    <3> HIDE DEF v
    <3>2. QED
      BY <2>2, <2>3, <2>4, <3>1 DEF Finished
  <2>5. Cardinality({}) = 0
    BY FS_EmptySet
  <2>6. CoversFrom({}, {}, v, p, r, P, R, tol)
    BY <2>4 DEF CoversFrom
  <2>7. Cardinality({}) + Cardinality({}) + Cardinality(v[3]) = n
    BY <1>5, <2>5
  <2>8. QED
    BY <2>6, <2>7 DEF Covered
<1> HIDE DEF n
<1>7. \A k \in 1..N : Done(k) => Done(k - 1)
  <2>1. ASSUME NEW k \in 1..N, Done(k) PROVE Done(k - 1)
    <3> DEFINE v == at[k - 1]
               w == at[k]
    <3>1. k - 1 \in 0..N /\ k - 1 \in Int
      BY <1>2
    <3>2. v \in V /\ w \in V /\ Moved(v, w) /\ Holds(k - 1, v) /\ Covered(w, n, p, r, P, R, tol)
      BY <1>3, <1>4, <2>1, <3>1
    <3> HIDE DEF v, w
    <3>3. Covered(v, n, p, r, P, R, tol)
      BY <1>5, <3>1, <3>2, MovesAreCovered
    <3>4. QED
      BY <3>3 DEF v
  <2>2. QED
    BY <2>1
<1>8. Done(0)
  <2> DEFINE Bad == {m \in 0..N : ~ Done(N - m)}
  <2> HIDE DEF Done
  <2>1. Bad # {} => FALSE
    <3>1. ASSUME Bad # {} PROVE FALSE
      <4>1. Bad \subseteq Nat
        BY <1>2
      <4>2. PICK m \in Bad : \A i \in Bad : m <= i
        <5> HIDE DEF Bad
        <5>1. QED
          BY <3>1, <4>1, LeastOf
      <4>3. m # 0 /\ m \in 0..N
        <5>1. N - 0 = N
          BY <1>2
        <5>2. QED
          BY <1>6, <4>2, <5>1
      <4>4. m - 1 \in 0..N /\ m - 1 < m /\ N - m + 1 \in 1..N /\ N - (m - 1) = N - m + 1
            /\ N - m + 1 - 1 = N - m
        BY <1>2, <4>3
      <4>5. m - 1 \notin Bad
        <5> HIDE DEF Bad
        <5>1. QED
          BY <4>1, <4>2, <4>4
      <4>6. Done(N - m + 1)
        BY <4>4, <4>5
      <4>7. Done(N - m)
        BY <1>7, <4>4, <4>6
      <4>8. QED
        BY <4>2, <4>7
    <3>2. QED
      BY <3>1
  <2>2. N \in 0..N /\ N - N = 0
    BY <1>2
  <2>3. N \notin Bad
    <3> HIDE DEF Bad
    <3>1. QED
      BY <2>1
  <2>4. QED
    BY <2>2, <2>3
<1>9. PICK S \in SUBSET (1..P), T \in SUBSET (1..R) :
         /\ CoversFrom(S, T, at[0], p, r, P, R, tol)
         /\ Cardinality(S) + Cardinality(T) + Cardinality(at[0][3]) = n
  <2>1. at[0][1] = 1 /\ at[0][2] = 1
    BY <1>2
  <2>2. QED
    BY <1>8, <2>1 DEF Covered
<1>10. \A e \in C : e[1] \in S \/ e[2] \in T
  <2>1. at[0][1] = 1 /\ at[0][2] = 1
    BY <1>2
  <2>2. \A e \in C : e[1] >= 1 /\ e[2] >= 1
    BY DEF Could
  <2>3. QED
    BY <1>9, <2>1, <2>2 DEF CoversFrom
<1>11. Cardinality(S) + Cardinality(T) = n
  <2>1. at[0][3] = {} /\ Cardinality({}) = 0
    BY <1>2, FS_EmptySet
  <2>2. 1 \in Int /\ P \in Int /\ R \in Int
    OBVIOUS
  <2>3. IsFiniteSet(S) /\ IsFiniteSet(T)
    BY <2>2, FS_Interval, FS_Subset
  <2>4. Cardinality(S) \in Nat /\ Cardinality(T) \in Nat
    BY <2>3, FS_CardinalityType
  <2>5. QED
    BY <1>9, <2>1, <2>4
<1>12. Holds(N, at[N])
  BY <1>2, <1>4
<1>13. QED
  BY <1>1, <1>10, <1>11, <1>12 DEF IsLargest, Sofar, n

\* What GreedyIsLargest says of a matching of two sets of events and its labels.
MatchedWell(A, B, tol, pairs, cases) ==
    LET p == Sorted(A)
        r == Sorted(B)
        could == {e \in (DOMAIN p) \X (DOMAIN r) : Abs(p[e[1]] - r[e[2]]) <= tol}
        Covers(S, T) == \A e \in could : e[1] \in S \/ e[2] \in T
    IN  /\ pairs \subseteq could
        /\ \A a, b \in pairs : a # b => (a[1] < b[1] /\ a[2] < b[2]) \/ (b[1] < a[1] /\ b[2] < a[2])
        /\ \E S \in SUBSET DOMAIN p, T \in SUBSET DOMAIN r :
              Covers(S, T) /\ Cardinality(S) + Cardinality(T) = Cardinality(pairs)
        /\ \A i \in DOMAIN cases, a, b \in pairs :
              a[1] = i /\ b[1] = i + 1 =>
                cases[i] = CASE b[2] = a[2] + 1 -> "one_beat"
                             [] b[2] = a[2] + 2 -> "missing_one"
                             [] OTHER -> "missing_multiple"

LEMMA SortedRises ==
    ASSUME NEW A \in SUBSET Int, IsFiniteSet(A)
    PROVE  Climbs(Sorted(A), Cardinality(A)) /\ Cardinality(A) \in Nat
<1>1. Cardinality(A) \in Nat /\ InOrder(A, Sorted(A))
  BY SortedIsInOrder, FS_CardinalityType
<1>2. QED
  BY <1>1 DEF InOrder, Climbs

\* The greedy matching of any two finite sets of events, for every tolerance, is as large as
\* any, and its labels say how many reference events lie between two matched ones (matches,
\* label_case).
THEOREM GreedyMatchingIsLargest ==
    ASSUME NEW A \in SUBSET Int, IsFiniteSet(A), NEW B \in SUBSET Int, IsFiniteSet(B), NEW tol \in Nat
    PROVE  MatchedWell(A, B, tol, matches(Sorted(A), Sorted(B), tol), label_case(Sorted(A), Sorted(B), tol))
<1> DEFINE p == Sorted(A)
           r == Sorted(B)
           P == Cardinality(A)
           R == Cardinality(B)
           M == matches(p, r, tol)
           cases == label_case(p, r, tol)
           could == {e \in (DOMAIN p) \X (DOMAIN r) : Abs(p[e[1]] - r[e[2]]) <= tol}
<1>1. P \in Nat /\ R \in Nat /\ Climbs(p, P) /\ Climbs(r, R)
  BY SortedRises
<1> HIDE DEF p, r, P, R
<1>2. IsLargest(p, r, P, R, tol, M)
  BY <1>1, MatchingIsLargest
<1>3. DOMAIN p = 1..P /\ DOMAIN r = 1..R /\ Len(p) = P
  BY <1>1, RisingIsSequence
<1>4. could = Could(p, r, P, R, tol)
  <2>1. ASSUME NEW e \in (1..P) \X (1..R)
        PROVE  Abs(p[e[1]] - r[e[2]]) <= tol <=> Together(p[e[1]], r[e[2]], tol)
    <3>1. p[e[1]] \in Int /\ r[e[2]] \in Int
      BY <1>1 DEF Climbs
    <3>2. QED
      BY <3>1 DEF Abs, Together
  <2>2. QED
    BY <1>3, <2>1 DEF Could
<1>5. ASSUME NEW i \in DOMAIN cases, NEW a \in M, NEW b \in M, a[1] = i, b[1] = i + 1
      PROVE  cases[i] = CASE b[2] = a[2] + 1 -> "one_beat"
                          [] b[2] = a[2] + 2 -> "missing_one"
                          [] OTHER -> "missing_multiple"
  <2> DEFINE Anchor(k) == (CHOOSE q \in M : q[1] = k)[2]
             by == Anchor(i + 1) - Anchor(i)
  <2> HIDE DEF M
  <2>1. \A q \in M : q[1] \in Int /\ q[2] \in Int
    BY <1>2 DEF IsLargest, Could
  <2>2. \A q, s \in M : q[1] = s[1] => q = s
    BY <1>2, <2>1 DEF IsLargest, InChain
  <2>3. Anchor(i) = a[2] /\ Anchor(i + 1) = b[2]
    BY <1>5, <2>2
  <2> HIDE DEF Anchor
  <2>4. DOMAIN cases = 1..P - 1
    BY <1>3 DEF label_case
  <2>5. {i, i + 1} \subseteq {q[1] : q \in M}
    BY <1>5
  <2>6. i \in 1..Len(p) - 1
    BY <1>3, <2>4
  <2>7. cases[i] = IF ~{i, i + 1} \subseteq {q[1] : q \in M} THEN "unmatched_anchor"
                   ELSE IF by = 1 THEN "one_beat" ELSE IF by = 2 THEN "missing_one" ELSE "missing_multiple"
    BY <2>6 DEF label_case, M, Anchor
  <2>8. by = b[2] - a[2] /\ a[2] \in Int /\ b[2] \in Int
    BY <2>1, <2>3
  <2> HIDE DEF by, cases
  <2>9. (by = 1 <=> b[2] = a[2] + 1) /\ (by = 2 <=> b[2] = a[2] + 2)
    BY <2>8
  <2>10. ~ (b[2] = a[2] + 1 /\ b[2] = a[2] + 2)
    BY <2>8
  <2>11. QED
    BY <2>5, <2>7, <2>9, <2>10
<1>6. PICK S \in SUBSET (1..P), T \in SUBSET (1..R) :
         /\ \A e \in Could(p, r, P, R, tol) : e[1] \in S \/ e[2] \in T
         /\ Cardinality(S) + Cardinality(T) = Cardinality(M)
  BY <1>2 DEF IsLargest
<1> HIDE DEF M, cases
<1>7. S \in SUBSET DOMAIN p /\ T \in SUBSET DOMAIN r /\ \A e \in could : e[1] \in S \/ e[2] \in T
  BY <1>3, <1>4, <1>6
<1>8. M \subseteq could /\ \A a, b \in M : a # b => (a[1] < b[1] /\ a[2] < b[2]) \/ (b[1] < a[1] /\ b[2] < a[2])
  BY <1>2, <1>4 DEF IsLargest, InChain
<1>9. MatchedWell(A, B, tol, M, cases)
  BY <1>5, <1>6, <1>7, <1>8 DEF MatchedWell, p, r
<1>10. QED
  BY <1>9 DEF M, cases, p, r

-----------------------------------------------------------------------------
(***************************************************************************)
(* Selecting downbeats. The runs of candidates lie apart, so the beat that *)
(* a label beside a run should move to is asked for once at most; working  *)
(* off the pairs in order then keeps every label once and in order, and    *)
(* says of each that stands elsewhere which pair put it there.             *)
(***************************************************************************)
LEMMA FoldRuns ==
    ASSUME NEW n \in Nat, NEW V, NEW base \in V, NEW step, Closed(n, V, step)
    PROVE  \E r : Runs(r, n, V, base, step)
<1>1. PICK g \in [SUBSET (1..n) -> V] : FoldsUp(g, n, base, step)
  BY SomethingUnfolds
<1>2. Unfolds(g, n, V, base, step)
  BY <1>1 DEF FoldsUp, Unfolds
<1>3. QED
  BY <1>2, UnfoldingRuns

\* Where every element of a flattened sequence comes from: a sequence and a place in it, each
\* place once.
ComesFrom(f, seqs, n, from) ==
    /\ from \in [1..Len(f) -> (1..n) \X Nat]
    /\ \A k \in 1..Len(f) :
          /\ from[k][2] \in 1..Len(seqs[from[k][1]])
          /\ f[k] = seqs[from[k][1]][from[k][2]]
    /\ \A k, l \in 1..Len(f) : from[k] = from[l] => k = l

LEMMA ConcatComesFrom ==
    ASSUME NEW T, NEW n \in Nat, NEW seqs \in [1..n -> Seq(T)], NEW k \in 1..n,
           NEW f \in Seq(T), NEW from, ComesFrom(f, seqs, n, from),
           \A i \in 1..Len(f) : from[i][1] < k
    PROVE  \E g : /\ ComesFrom(f \o seqs[k], seqs, n, g)
                  /\ \A i \in 1..Len(f \o seqs[k]) : g[i][1] <= k
<1> DEFINE s == seqs[k]
           h == f \o s
           g == [i \in 1..Len(h) |-> IF i <= Len(f) THEN from[i] ELSE <<k, i - Len(f)>>]
<1>1. s \in Seq(T)
  OBVIOUS
<1>2. /\ h \in Seq(T) /\ Len(h) = Len(f) + Len(s) /\ Len(f) \in Nat /\ Len(s) \in Nat
      /\ \A i \in 1..Len(h) : h[i] = IF i <= Len(f) THEN f[i] ELSE s[i - Len(f)]
  BY <1>1, ConcatProperties, LenProperties
<1> HIDE DEF h
<1>3. \A i \in 1..Len(f) : from[i] \in (1..n) \X Nat /\ from[i][1] < k
  BY DEF ComesFrom
<1>4. ASSUME NEW i \in 1..Len(h)
      PROVE  /\ g[i] \in (1..n) \X Nat /\ g[i][1] <= k
             /\ g[i][2] \in 1..Len(seqs[g[i][1]]) /\ h[i] = seqs[g[i][1]][g[i][2]]
             /\ i <= Len(f) => i \in 1..Len(f) /\ g[i] = from[i]
             /\ ~ i <= Len(f) => g[i] = <<k, i - Len(f)>>
  <2>1. CASE i <= Len(f)
    <3>1. i \in 1..Len(f) /\ g[i] = from[i] /\ h[i] = f[i]
      BY <1>2, <2>1
    <3> HIDE DEF g
    <3>2. from[i][1] \in 1..n /\ from[i][1] <= k
      BY <1>3, <3>1
    <3>3. from[i][2] \in 1..Len(seqs[from[i][1]]) /\ f[i] = seqs[from[i][1]][from[i][2]]
      BY <3>1 DEF ComesFrom
    <3>4. QED
      BY <1>3, <2>1, <3>1, <3>2, <3>3
  <2>2. CASE ~ i <= Len(f)
    <3>1. g[i] = <<k, i - Len(f)>> /\ h[i] = s[i - Len(f)] /\ i - Len(f) \in 1..Len(s)
      BY <1>2, <2>2
    <3> HIDE DEF g
    <3>2. g[i][1] = k /\ g[i][2] = i - Len(f) /\ g[i] \in (1..n) \X Nat
      BY <1>2, <3>1
    <3>3. QED
      BY <2>2, <3>1, <3>2
  <2>3. QED
    BY <2>1, <2>2
<1>5. ASSUME NEW i \in 1..Len(h), NEW j \in 1..Len(h), g[i] = g[j] PROVE i = j
  <2> HIDE DEF g
  <2>1. CASE i <= Len(f) /\ j <= Len(f)
    BY <1>4, <1>5, <2>1 DEF ComesFrom
  <2>2. CASE ~ i <= Len(f) /\ ~ j <= Len(f)
    <3>1. i - Len(f) = j - Len(f)
      BY <1>4, <1>5, <2>2
    <3>2. QED
      BY <1>2, <3>1
  <2>3. ASSUME NEW x \in 1..Len(h), NEW y \in 1..Len(h), x <= Len(f), ~ y <= Len(f), g[x] = g[y] PROVE FALSE
    <3>1. x \in 1..Len(f) /\ g[x] = from[x] /\ g[y] = <<k, y - Len(f)>>
      BY <1>4, <2>3
    <3>2. from[x][1] < k
      BY <1>3, <3>1
    <3>3. from[x] = <<k, y - Len(f)>>
      BY <2>3, <3>1
    <3>4. from[x][1] = k
      BY <3>3
    <3>5. QED
      BY <3>2, <3>4
  <2>4. QED
    BY <1>5, <2>1, <2>2, <2>3
<1>6. g \in [1..Len(h) -> (1..n) \X Nat]
  BY <1>4
<1> HIDE DEF g
<1>7. ComesFrom(h, seqs, n, g)
  BY <1>4, <1>5, <1>6 DEF ComesFrom
<1>8. QED
  BY <1>4, <1>7 DEF h

LEMMA FlattenComesFrom ==
    ASSUME NEW T, NEW n \in Nat, NEW seqs \in [1..n -> Seq(T)]
    PROVE  FlattenSeq(seqs) \in Seq(T) /\ \E from : ComesFrom(FlattenSeq(seqs), seqs, n, from)
<1> DEFINE V == Seq(T)
           step == [x \in (1..n) \X V |-> x[2] \o seqs[x[1]]]
           f == FlattenSeq(seqs)
<1>1. seqs \in Seq(Seq(T)) /\ Len(seqs) = n
  OBVIOUS
<1>2. \A k \in 1..n, v \in V : step[<<k, v>>] = v \o seqs[k] /\ step[<<k, v>>] \in V
  <2>1. ASSUME NEW k \in 1..n, NEW v \in V PROVE step[<<k, v>>] = v \o seqs[k] /\ step[<<k, v>>] \in V
    <3>1. seqs[k] \in Seq(T) /\ v \in Seq(T)
      OBVIOUS
    <3>2. v \o seqs[k] \in V
      BY <3>1, ConcatProperties
    <3> HIDE DEF V
    <3>3. step[<<k, v>>] = v \o seqs[k]
      OBVIOUS
    <3>4. QED
      BY <3>2, <3>3
  <2>2. QED
    BY <2>1
<1>3. PICK r : Runs(r, n, V, <<>>, step)
  <2>1. <<>> \in V
    BY EmptySeq
  <2> HIDE DEF V, step
  <2>2. Closed(n, V, step)
    BY <1>2 DEF Closed
  <2>3. QED
    BY <2>1, <2>2, FoldRuns
<1>4. r \in [0..n -> V] /\ r[0] = <<>> /\ \A k \in 1..n : r[k] = r[k - 1] \o seqs[k]
  <2>1. r \in [0..n -> V] /\ r[0] = <<>>
    BY <1>3 DEF Runs
  <2>2. ASSUME NEW k \in 1..n PROVE r[k] = r[k - 1] \o seqs[k]
    <3>1. k - 1 \in 0..n
      OBVIOUS
    <3>2. r[k - 1] \in V /\ r[k] = step[<<k, r[k - 1]>>]
      BY <1>3, <2>1, <3>1 DEF Runs
    <3> HIDE DEF V, step
    <3>3. QED
      BY <1>2, <3>2
  <2>3. QED
    BY <2>1, <2>2
<1> HIDE DEF step
<1> DEFINE SoFarFrom(k) == \E from : ComesFrom(r[k], seqs, n, from) /\ \A i \in 1..Len(r[k]) : from[i][1] <= k
           Bad == {k \in 0..n : ~ SoFarFrom(k)}
<1>5. Bad # {} => FALSE
  <2>1. ASSUME Bad # {} PROVE FALSE
    <3>1. Bad \subseteq Nat
      OBVIOUS
    <3>2. PICK k \in Bad : \A m \in Bad : k <= m
      <4> HIDE DEF Bad
      <4>1. QED
        BY <2>1, <3>1, LeastOf
    <3>3. k # 0
      <4>1. SoFarFrom(0)
        <5>1. Len(r[0]) = 0
          BY <1>4
        <5>2. ComesFrom(r[0], seqs, n, <<>>)
          BY <5>1 DEF ComesFrom
        <5>3. QED
          BY <5>1, <5>2
      <4>2. QED
        BY <3>2, <4>1
    <3>4. k \in 1..n /\ k - 1 \in 0..n /\ k - 1 < k
      BY <3>2, <3>3
    <3>5. k - 1 \notin Bad
      <4> HIDE DEF Bad
      <4>1. QED
        BY <3>1, <3>2, <3>4
    <3>6. PICK from : ComesFrom(r[k - 1], seqs, n, from) /\ \A i \in 1..Len(r[k - 1]) : from[i][1] <= k - 1
      BY <3>4, <3>5
    <3> DEFINE v == r[k - 1]
    <3>7. v \in Seq(T) /\ r[k] = v \o seqs[k]
      BY <1>4, <3>4
    <3> HIDE DEF v, Bad
    <3>8. ComesFrom(v, seqs, n, from) /\ \A i \in 1..Len(v) : from[i][1] < k
      <4>1. \A i \in 1..Len(v) : from[i][1] \in Int /\ from[i][1] <= k - 1
        <5>1. ASSUME NEW i \in 1..Len(v) PROVE from[i][1] \in Int /\ from[i][1] <= k - 1
          <6>1. from[i] \in (1..n) \X Nat
            BY <3>6 DEF ComesFrom, v
          <6>2. from[i][1] <= k - 1
            BY <3>6 DEF v
          <6>3. QED
            BY <6>1, <6>2
        <5>2. QED
          BY <5>1
      <4>2. QED
        BY <3>4, <3>6, <4>1 DEF v
    <3>9. \E g : /\ ComesFrom(v \o seqs[k], seqs, n, g)
                 /\ \A i \in 1..Len(v \o seqs[k]) : g[i][1] <= k
      BY <3>4, <3>7, <3>8, ConcatComesFrom
    <3>10. SoFarFrom(k)
      BY <3>7, <3>9
    <3>11. QED
      BY <3>2, <3>10 DEF Bad
  <2>2. QED
    BY <2>1
<1>6. \A k \in 0..n : SoFarFrom(k)
  <2> HIDE DEF SoFarFrom
  <2>1. QED
    BY <1>5
<1>7. f = r[n]
  <2>1. CASE n = 0
    <3>1. seqs = <<>>
      BY <2>1
    <3>2. f = seqs
      BY <1>1, <2>1 DEF FlattenSeq
    <3>3. QED
      BY <1>4, <2>1, <3>1, <3>2
  <2>2. CASE n # 0
    <3> DEFINE Sat(g) == g = [i \in 1..n |-> IF i = 1 THEN seqs[i] ELSE g[i - 1] \o seqs[i]]
               w == [i \in 1..n |-> r[i]]
    <3>1. f = (CHOOSE g : Sat(g))[n]
      BY <1>1, <2>2 DEF FlattenSeq
    <3>2. Sat(w)
      <4>1. ASSUME NEW i \in 1..n PROVE w[i] = IF i = 1 THEN seqs[i] ELSE w[i - 1] \o seqs[i]
        <5>1. CASE i = 1
          <6>1. seqs[1] \in Seq(T)
            BY <5>1
          <6>2. <<>> \o seqs[1] = seqs[1]
            BY <6>1, ConcatEmptySeq
          <6>3. r[1] = r[0] \o seqs[1]
            <7>1. r[i] = r[i - 1] \o seqs[i]
              BY <1>4
            <7>2. i - 1 = 0
              BY <5>1
            <7>3. r[i] = r[0] \o seqs[i]
              BY <7>1, <7>2
            <7>4. QED
              BY <5>1, <7>3
          <6>4. QED
            BY <1>4, <5>1, <6>2, <6>3
        <5>2. CASE i # 1
          <6>1. i - 1 \in 1..n
            BY <5>2
          <6>2. QED
            BY <1>4, <5>2, <6>1
        <5>3. QED
          BY <5>1, <5>2
      <4>2. QED
        BY <4>1
    <3> DEFINE c == CHOOSE g : Sat(g)
    <3>3. Sat(c)
      <4> HIDE DEF Sat
      <4>1. QED
        BY <3>2
    <3> HIDE DEF c
    <3>4. \A i \in 1..n : c[i] = IF i = 1 THEN seqs[i] ELSE c[i - 1] \o seqs[i]
      BY <3>3
    <3>5. \A i \in 1..n : w[i] = IF i = 1 THEN seqs[i] ELSE w[i - 1] \o seqs[i]
      BY <3>2
    <3> HIDE DEF Sat, w
    <3> DEFINE Off == {i \in 1..n : c[i] # w[i]}
    <3>6. Off # {} => FALSE
      <4>1. ASSUME Off # {} PROVE FALSE
        <5>1. Off \subseteq Nat
          OBVIOUS
        <5>2. PICK i \in Off : \A m \in Off : i <= m
          <6> HIDE DEF Off
          <6>1. QED
            BY <4>1, <5>1, LeastOf
        <5>3. i # 1 /\ i \in 1..n
          BY <3>4, <3>5, <5>2
        <5>4. i - 1 \in 1..n /\ i - 1 < i
          BY <5>3
        <5>5. i - 1 \notin Off
          <6> HIDE DEF Off
          <6>1. QED
            BY <5>1, <5>2, <5>4
        <5>6. c[i - 1] = w[i - 1]
          BY <5>4, <5>5
        <5>7. QED
          BY <3>4, <3>5, <5>2, <5>3, <5>6
      <4>2. QED
        BY <4>1
    <3>7. n \in 1..n
      BY <2>2
    <3>8. c[n] = w[n]
      BY <3>6, <3>7
    <3>9. QED
      BY <3>1, <3>7, <3>8 DEF c, w
  <2>3. QED
    BY <2>1, <2>2
<1>8. n \in 0..n
  OBVIOUS
<1>9. r[n] \in Seq(T) /\ \E from : ComesFrom(r[n], seqs, n, from)
  BY <1>4, <1>6, <1>8
<1>10. QED
  BY <1>7, <1>9

\* A run: its positions, the steps inside it, and that it can be made no longer.
IsRun(r, cand, n) ==
    /\ r = <<r[1], r[2]>> /\ r[1] \in 1..n /\ r[2] \in 1..n /\ r[1] < r[2]
    /\ \A i \in r[1]..r[2] - 1 : cand[i + 1] - cand[i] = 2
    /\ r[1] > 1 => cand[r[1]] - cand[r[1] - 1] # 2
    /\ r[2] < n => cand[r[2] + 1] - cand[r[2]] # 2

LEMMA RunsAreRuns ==
    ASSUME NEW n \in Nat, NEW cand, Climbs(cand, n), Len(cand) = n, DOMAIN cand = 1..n,
           NEW r \in half_bar_runs(cand)
    PROVE  IsRun(r, cand, n)
<1>1. /\ r \in (1..n) \X (1..n) /\ r[2] - r[1] + 1 >= FewestInRun
      /\ \A i \in r[1]..r[2] - 1 : cand[i + 1] - cand[i] = 2
      /\ r[1] > 1 => cand[r[1] - 1 + 1] - cand[r[1] - 1] # 2
      /\ r[2] < n => cand[r[2] + 1] - cand[r[2]] # 2
  BY DEF half_bar_runs, HALF_BAR
<1>2. r[1] \in 1..n /\ r[2] \in 1..n /\ r = <<r[1], r[2]>>
  BY <1>1
<1>3. FewestInRun \in Nat /\ FewestInRun >= 2
  BY RunAssumption
<1>4. r[1] < r[2] /\ r[1] - 1 + 1 = r[1]
  BY <1>1, <1>2, <1>3
<1>5. QED
  BY <1>1, <1>2, <1>4 DEF IsRun

\* Two runs with a candidate in common are one.
LEMMA RunsApart ==
    ASSUME NEW n \in Nat, NEW cand, Climbs(cand, n),
           NEW r, IsRun(r, cand, n), NEW q, IsRun(q, cand, n),
           NEW i \in Int, r[1] <= i, i <= r[2], q[1] <= i, i <= q[2]
    PROVE  r = q
<1>1. ASSUME NEW a, IsRun(a, cand, n), NEW b, IsRun(b, cand, n),
             a[1] <= i, i <= a[2], b[1] <= i, i <= b[2]
      PROVE  ~ a[1] < b[1] /\ ~ a[2] < b[2]
  <2>1. a[1] \in Int /\ a[2] \in Int /\ b[1] \in Int /\ b[2] \in Int /\ a[2] <= n /\ b[2] <= n /\ a[1] >= 1 /\ b[1] >= 1
    BY <1>1 DEF IsRun
  <2>2. ASSUME a[1] < b[1] PROVE FALSE
    <3> DEFINE j == b[1] - 1
    <3>1. j \in a[1]..a[2] - 1 /\ j + 1 = b[1] /\ b[1] > 1
      BY <1>1, <2>1, <2>2
    <3>2. cand[j + 1] - cand[j] = 2
      BY <1>1, <3>1 DEF IsRun
    <3>3. cand[b[1]] - cand[j] # 2
      BY <1>1, <3>1 DEF IsRun
    <3> HIDE DEF j
    <3>4. QED
      BY <3>1, <3>2, <3>3
  <2>3. ASSUME a[2] < b[2] PROVE FALSE
    <3>1. a[2] \in b[1]..b[2] - 1 /\ a[2] < n
      BY <1>1, <2>1, <2>3
    <3>2. cand[a[2] + 1] - cand[a[2]] = 2
      BY <1>1, <3>1 DEF IsRun
    <3>3. cand[a[2] + 1] - cand[a[2]] # 2
      BY <1>1, <3>1 DEF IsRun
    <3>4. QED
      BY <3>2, <3>3
  <2>4. QED
    BY <2>2, <2>3
<1>2. ~ r[1] < q[1] /\ ~ r[2] < q[2] /\ ~ q[1] < r[1] /\ ~ q[2] < r[2]
  BY <1>1
<1>3. r[1] = q[1] /\ r[2] = q[2]
  BY <1>2 DEF IsRun
<1>4. QED
  BY <1>3 DEF IsRun

\* The last beat of a phase of a run is the last but one of the run or its last.
LEMMA LastOfPhase ==
    ASSUME NEW n \in Nat, NEW cand, NEW r, IsRun(r, cand, n), NEW ph \in {0, 1}
    PROVE  LET l == CHOOSE i \in Ofphase(r, ph) : \A k \in Ofphase(r, ph) : k <= i
           IN  l \in Ofphase(r, ph) /\ (l = r[2] \/ l = r[2] - 1)
<1> DEFINE O == Ofphase(r, ph)
           l == CHOOSE i \in O : \A k \in O : k <= i
<1>1. r[1] \in Int /\ r[2] \in Int /\ r[1] < r[2]
  BY DEF IsRun
<1>2. \A i \in O : i \in Int /\ i <= r[2]
  BY <1>1 DEF Ofphase
<1>3. r[2] \in O \/ r[2] - 1 \in O
  <2>1. r[2] \in r[1]..r[2] /\ r[2] - 1 \in r[1]..r[2]
    BY <1>1
  <2>2. (r[2] - r[1]) % 2 = ph \/ (r[2] - 1 - r[1]) % 2 = ph
    BY <1>1
  <2>3. QED
    BY <2>1, <2>2 DEF Ofphase
<1> HIDE DEF O
<1>4. \E i \in O : (\A k \in O : k <= i) /\ (i = r[2] \/ i = r[2] - 1)
  <2>1. CASE r[2] \in O
    BY <1>2, <2>1
  <2>2. CASE r[2] \notin O /\ r[2] - 1 \in O
    <3>1. \A k \in O : k <= r[2] - 1
      BY <1>1, <1>2, <2>2
    <3>2. QED
      BY <2>2, <3>1
  <2>3. QED
    BY <1>3, <2>1, <2>2
<1>5. PICK i \in O : (\A k \in O : k <= i) /\ (i = r[2] \/ i = r[2] - 1)
  BY <1>4
<1>6. l \in O /\ \A k \in O : k <= l
  BY <1>5
<1> HIDE DEF l
<1>7. l = i
  BY <1>2, <1>5, <1>6
<1>8. QED
  BY <1>5, <1>6, <1>7 DEF l, O

\* The label beside a run, before or after it, and where the bars of the run put it.
Beyond(r, side) == IF side = "before" THEN r[1] - 1 ELSE r[2] + 1
Anchored(r, ph, side) ==
    IF side = "before" THEN r[1] + ph
    ELSE CHOOSE i \in Ofphase(r, ph) : \A k \in Ofphase(r, ph) : k <= i
IsPair(p, r, ph, side, cand, n) ==
    /\ Beyond(r, side) \in 1..n
    /\ p.displaced = cand[Beyond(r, side)]
    /\ p.expected = IF side = "before" THEN cand[Anchored(r, ph, side)] - 4 ELSE cand[Anchored(r, ph, side)] + 4

LEMMA AnchorIsOfPhase ==
    ASSUME NEW n \in Nat, NEW cand, Climbs(cand, n), NEW r, IsRun(r, cand, n), NEW ph \in {0, 1},
           NEW side \in {"before", "after"}
    PROVE  /\ Anchored(r, ph, side) \in Ofphase(r, ph) /\ Anchored(r, ph, side) \in 1..n
           /\ side = "before" => cand[Anchored(r, ph, side)] <= cand[r[1]] + 2
           /\ side = "after" => cand[Anchored(r, ph, side)] >= cand[r[2]] - 2
<1> DEFINE a == Anchored(r, ph, side)
<1>1. r[1] \in 1..n /\ r[2] \in 1..n /\ r[1] < r[2]
  BY DEF IsRun
<1>2. \A i \in Ofphase(r, ph) : i \in 1..n
  BY <1>1 DEF Ofphase
<1>3. CASE side = "before"
  <2>1. a = r[1] + ph
    BY <1>3 DEF Anchored
  <2>2. a \in Ofphase(r, ph)
    <3>1. a \in r[1]..r[2] /\ (a - r[1]) % 2 = ph
      BY <1>1, <2>1
    <3>2. QED
      BY <3>1 DEF Ofphase
  <2>3. cand[a] <= cand[r[1]] + 2
    <3>1. cand[r[1]] \in Int
      BY <1>1 DEF Climbs
    <3>2. CASE ph = 0
      <4>1. a = r[1]
        BY <1>1, <2>1, <3>2
      <4> HIDE DEF a
      <4>2. QED
        BY <3>1, <4>1
    <3>3. CASE ph = 1
      <4>1. r[1] \in r[1]..r[2] - 1
        BY <1>1
      <4>2. cand[r[1] + 1] - cand[r[1]] = 2
        BY <4>1 DEF IsRun
      <4>3. cand[r[1] + 1] \in Int /\ a = r[1] + 1
        BY <1>1, <2>1, <3>3 DEF Climbs
      <4> HIDE DEF a
      <4>4. QED
        BY <3>1, <4>2, <4>3
    <3>4. QED
      BY <3>2, <3>3
  <2>4. QED
    BY <1>2, <1>3, <2>2, <2>3
<1>4. CASE side = "after"
  <2>1. a \in Ofphase(r, ph) /\ (a = r[2] \/ a = r[2] - 1)
    BY <1>4, LastOfPhase DEF Anchored
  <2>2. cand[a] >= cand[r[2]] - 2
    <3>1. cand[r[2]] \in Int
      BY <1>1 DEF Climbs
    <3>2. CASE a = r[2]
      <4> HIDE DEF a
      <4>1. QED
        BY <3>1, <3>2
    <3>3. CASE a = r[2] - 1
      <4>1. a \in r[1]..r[2] - 1 /\ a + 1 = r[2] /\ a \in 1..n
        BY <1>1, <3>3
      <4> HIDE DEF a
      <4>2. cand[a + 1] - cand[a] = 2
        BY <4>1 DEF IsRun
      <4>3. cand[a] \in Int /\ cand[a + 1] = cand[r[2]]
        BY <4>1 DEF Climbs
      <4>4. QED
        BY <3>1, <4>2, <4>3
    <3>4. QED
      BY <2>1, <3>2, <3>3
  <2>3. QED
    BY <1>2, <1>4, <2>1, <2>2
<1>5. QED
  BY <1>3, <1>4

\* When the beat a label should move to, one away, is itself a candidate, that one lies
\* beyond the label, ...
LEMMA NextIsBeyond ==
    ASSUME NEW n \in Nat, NEW cand, Climbs(cand, n), NEW r, IsRun(r, cand, n), NEW ph \in {0, 1},
           NEW side \in {"before", "after"}, NEW p, IsPair(p, r, ph, side, cand, n),
           p.expected - p.displaced \in {-1, 1}, NEW x \in 1..n, cand[x] = p.expected
    PROVE  /\ side = "before" => x = r[1] - 2 /\ cand[x + 1] - cand[x] = 1
           /\ side = "after" => x = r[2] + 2 /\ cand[x] - cand[x - 1] = 1
<1> DEFINE a == Anchored(r, ph, side)
<1>1. r[1] \in 1..n /\ r[2] \in 1..n /\ r[1] < r[2]
  BY DEF IsRun
<1>2. /\ \A i \in 1..n : cand[i] \in Int
      /\ \A i, j \in 1..n : i < j => cand[i] < cand[j]
  BY DEF Climbs
<1>3. a \in 1..n
  BY AnchorIsOfPhase
<1> HIDE DEF a
<1>4. CASE side = "before"
  <2> DEFINE y == r[1] - 1
  <2>1. y \in 1..n /\ p.displaced = cand[y] /\ cand[x] = cand[a] - 4
    BY <1>4 DEF IsPair, Beyond, a
  <2>2. cand[a] <= cand[r[1]] + 2
    BY <1>4, AnchorIsOfPhase DEF a
  <2> DEFINE u == cand[x]
             v == cand[y]
             w == cand[r[1]]
             z == cand[a]
  <2>3. u \in Int /\ v \in Int /\ w \in Int /\ z \in Int /\ u = z - 4 /\ z <= w + 2 /\ v < w
        /\ (u = v - 1 \/ u = v + 1)
    <3>1. u \in Int /\ v \in Int /\ w \in Int /\ z \in Int
      BY <1>1, <1>2, <1>3, <2>1
    <3>2. y < r[1]
      BY <1>1
    <3>3. v < w
      BY <1>1, <1>2, <2>1, <3>2
    <3>4. p.expected - p.displaced = -1 \/ p.expected - p.displaced = 1
      OBVIOUS
    <3>5. u - v = -1 \/ u - v = 1
      BY <2>1, <3>4
    <3> HIDE DEF u, v, w, z
    <3>6. u = v - 1 \/ u = v + 1
      BY <3>1, <3>5
    <3>7. QED
      BY <2>1, <2>2, <3>1, <3>3, <3>6 DEF u, w, z
  <2>4. u < w
    <3> HIDE DEF u, v, w, z
    <3>1. QED
      BY <2>3
  <2>5. x < r[1]
    BY <1>1, <1>2, <2>4
  <2>6. u = v - 1
    <3>1. ASSUME u = v + 1 PROVE FALSE
      <4>1. v < u
        <5> HIDE DEF u, v, w, z
        <5>1. QED
          BY <2>3, <3>1
      <4>2. y < x
        BY <1>2, <2>1, <2>3, <4>1
      <4>3. QED
        BY <1>1, <2>5, <4>2
    <3>2. QED
      BY <2>3, <3>1
  <2>7. u < v
    <3> HIDE DEF u, v, w, z
    <3>1. QED
      BY <2>3, <2>6
  <2>8. x < y
    <3>1. x # y /\ ~ (y < x)
      BY <1>2, <2>1, <2>3, <2>7
    <3>2. QED
      BY <2>1, <3>1
  <2>9. ~ (x < y - 1)
    <3>1. ASSUME x < y - 1 PROVE FALSE
      <4>1. y - 1 \in 1..n /\ y - 1 < y
        BY <2>1, <3>1
      <4>2. cand[x] < cand[y - 1] /\ cand[y - 1] < cand[y] /\ cand[y - 1] \in Int
        BY <1>2, <2>1, <3>1, <4>1
      <4>3. QED
        BY <2>3, <2>6, <4>2
    <3>2. QED
      BY <3>1
  <2>10. x = y - 1 /\ x + 1 = y
    BY <2>1, <2>8, <2>9
  <2>11. cand[x + 1] - cand[x] = 1
    <3>1. v - u = 1
      <4> HIDE DEF u, v, w, z
      <4>1. QED
        BY <2>3, <2>6
    <3>2. QED
      BY <2>10, <3>1
  <2>12. QED
    BY <1>1, <1>4, <2>10, <2>11
<1>5. CASE side = "after"
  <2> DEFINE y == r[2] + 1
  <2>1. y \in 1..n /\ p.displaced = cand[y] /\ cand[x] = cand[a] + 4
    BY <1>5 DEF IsPair, Beyond, a
  <2>2. cand[a] >= cand[r[2]] - 2
    BY <1>5, AnchorIsOfPhase DEF a
  <2> DEFINE u == cand[x]
             v == cand[y]
             w == cand[r[2]]
             z == cand[a]
  <2>3. u \in Int /\ v \in Int /\ w \in Int /\ z \in Int /\ u = z + 4 /\ z >= w - 2 /\ w < v
        /\ (u = v - 1 \/ u = v + 1)
    <3>1. u \in Int /\ v \in Int /\ w \in Int /\ z \in Int
      BY <1>1, <1>2, <1>3, <2>1
    <3>2. r[2] < y
      BY <1>1
    <3>3. w < v
      BY <1>1, <1>2, <2>1, <3>2
    <3>4. p.expected - p.displaced = -1 \/ p.expected - p.displaced = 1
      OBVIOUS
    <3>5. u - v = -1 \/ u - v = 1
      BY <2>1, <3>4
    <3> HIDE DEF u, v, w, z
    <3>6. u = v - 1 \/ u = v + 1
      BY <3>1, <3>5
    <3>7. QED
      BY <2>1, <2>2, <3>1, <3>3, <3>6 DEF u, w, z
  <2>4. w < u
    <3> HIDE DEF u, v, w, z
    <3>1. QED
      BY <2>3
  <2>5. r[2] < x
    BY <1>1, <1>2, <2>4
  <2>6. u = v + 1
    <3>1. ASSUME u = v - 1 PROVE FALSE
      <4>1. u < v
        <5> HIDE DEF u, v, w, z
        <5>1. QED
          BY <2>3, <3>1
      <4>2. x < y
        BY <1>2, <2>1, <2>3, <4>1
      <4>3. QED
        BY <1>1, <2>5, <4>2
    <3>2. QED
      BY <2>3, <3>1
  <2>7. v < u
    <3> HIDE DEF u, v, w, z
    <3>1. QED
      BY <2>3, <2>6
  <2>8. y < x
    <3>1. x # y /\ ~ (x < y)
      BY <1>2, <2>1, <2>3, <2>7
    <3>2. QED
      BY <2>1, <3>1
  <2>9. ~ (y + 1 < x)
    <3>1. ASSUME y + 1 < x PROVE FALSE
      <4>1. y + 1 \in 1..n /\ y < y + 1
        BY <2>1, <3>1
      <4>2. cand[y + 1] < cand[x] /\ cand[y] < cand[y + 1] /\ cand[y + 1] \in Int
        BY <1>2, <2>1, <3>1, <4>1
      <4>3. QED
        BY <2>3, <2>6, <4>2
    <3>2. QED
      BY <3>1
  <2>10. x = y + 1 /\ x - 1 = y
    BY <2>1, <2>8, <2>9
  <2>11. cand[x] - cand[x - 1] = 1
    <3>1. u - v = 1
      <4> HIDE DEF u, v, w, z
      <4>1. QED
        BY <2>3, <2>6
    <3>2. QED
      BY <2>10, <3>1
  <2>12. QED
    BY <1>1, <1>5, <2>10, <2>11
<1>6. QED
  BY <1>4, <1>5

\* ... is in no run, if it is beside one, and is beside that one only.
LEMMA BeyondIsFree ==
    ASSUME NEW n \in Nat, NEW cand, Climbs(cand, n), NEW r, IsRun(r, cand, n), NEW ph \in {0, 1},
           NEW side \in {"before", "after"}, NEW p, IsPair(p, r, ph, side, cand, n),
           p.expected - p.displaced \in {-1, 1}, NEW x \in 1..n, cand[x] = p.expected,
           NEW q, IsRun(q, cand, n), NEW t \in {"before", "after"}, Beyond(q, t) = x
    PROVE  /\ t # side
           /\ \A o : IsRun(o, cand, n) => ~ (o[1] <= x /\ x <= o[2])
           /\ \A o : IsRun(o, cand, n) /\ Beyond(o, t) = x => o = q
<1>1. /\ \A o : IsRun(o, cand, n) => o[1] \in 1..n /\ o[2] \in 1..n /\ o[1] < o[2]
      /\ \A o : IsRun(o, cand, n) => \A i \in o[1]..o[2] - 1 : cand[i + 1] - cand[i] = 2
  BY DEF IsRun
<1>2. r[1] \in 1..n /\ r[2] \in 1..n /\ r[1] < r[2] /\ q[1] \in 1..n /\ q[2] \in 1..n /\ q[1] < q[2]
  BY <1>1
<1>3. CASE side = "before"
  <2>1. x = r[1] - 2 /\ cand[x + 1] - cand[x] = 1
    BY <1>3, NextIsBeyond
  <2>2. t # "before"
    <3>1. ASSUME t = "before" PROVE FALSE
      <4>1. q[1] = r[1] - 1
        BY <1>2, <2>1, <3>1 DEF Beyond
      <4>2. q = r
        <5>1. q[1] <= r[1] /\ r[1] <= q[2] /\ r[1] <= r[2] /\ r[1] <= r[1] /\ r[1] \in Int
          BY <1>2, <4>1
        <5>2. QED
          BY <5>1, RunsApart
      <4>3. QED
        BY <1>2, <4>1, <4>2
    <3>2. QED
      BY <3>1
  <2>3. q[2] = x - 1
    BY <1>2, <2>1, <2>2 DEF Beyond
  <2>4. ASSUME NEW o, IsRun(o, cand, n), o[1] <= x, x <= o[2] PROVE FALSE
    <3>1. o[1] \in 1..n /\ o[2] \in 1..n /\ o[1] < o[2]
      BY <1>1, <2>4
    <3>2. x = o[2]
      <4>1. ASSUME x < o[2] PROVE FALSE
        <5>1. x \in o[1]..o[2] - 1
          BY <2>4, <3>1, <4>1
        <5>2. cand[x + 1] - cand[x] = 2
          BY <1>1, <2>4, <5>1
        <5>3. QED
          BY <2>1, <5>2
      <4>2. QED
        BY <2>4, <3>1, <4>1
    <3>3. o[1] <= q[2] /\ q[2] <= o[2] /\ q[1] <= q[2] /\ q[2] <= q[2] /\ q[2] \in Int
      BY <1>2, <2>3, <3>1, <3>2
    <3>4. o = q
      BY <2>4, <3>3, RunsApart
    <3>5. QED
      BY <1>2, <2>3, <3>2, <3>4
  <2>5. ASSUME NEW o, IsRun(o, cand, n), Beyond(o, t) = x PROVE o = q
    <3>1. o[1] \in 1..n /\ o[2] \in 1..n /\ o[1] < o[2]
      BY <1>1, <2>5
    <3>2. o[2] = x - 1
      BY <2>2, <2>5, <3>1 DEF Beyond
    <3>3. o[1] <= q[2] /\ q[2] <= o[2] /\ q[1] <= q[2] /\ q[2] <= q[2] /\ q[2] \in Int
      BY <1>2, <2>3, <3>1, <3>2
    <3>4. QED
      BY <2>5, <3>3, RunsApart
  <2>6. QED
    BY <1>3, <2>2, <2>4, <2>5
<1>4. CASE side = "after"
  <2>1. x = r[2] + 2 /\ cand[x] - cand[x - 1] = 1
    BY <1>4, NextIsBeyond
  <2>2. t # "after"
    <3>1. ASSUME t = "after" PROVE FALSE
      <4>1. q[2] = r[2] + 1
        BY <1>2, <2>1, <3>1 DEF Beyond
      <4>2. q = r
        <5>1. q[1] <= r[2] /\ r[2] <= q[2] /\ r[1] <= r[2] /\ r[2] <= r[2] /\ r[2] \in Int
          BY <1>2, <4>1
        <5>2. QED
          BY <5>1, RunsApart
      <4>3. QED
        BY <1>2, <4>1, <4>2
    <3>2. QED
      BY <3>1
  <2>3. q[1] = x + 1
    BY <1>2, <2>1, <2>2 DEF Beyond
  <2>4. ASSUME NEW o, IsRun(o, cand, n), o[1] <= x, x <= o[2] PROVE FALSE
    <3>1. o[1] \in 1..n /\ o[2] \in 1..n /\ o[1] < o[2]
      BY <1>1, <2>4
    <3>2. x = o[1]
      <4>1. ASSUME o[1] < x PROVE FALSE
        <5>1. x - 1 \in o[1]..o[2] - 1 /\ x - 1 + 1 = x
          BY <2>4, <3>1, <4>1
        <5>2. cand[x - 1 + 1] - cand[x - 1] = 2
          BY <1>1, <2>4, <5>1
        <5>3. QED
          BY <2>1, <5>1, <5>2
      <4>2. QED
        BY <2>4, <3>1, <4>1
    <3>3. o[1] <= q[1] /\ q[1] <= o[2] /\ q[1] <= q[2] /\ q[1] <= q[1] /\ q[1] \in Int
      BY <1>2, <2>3, <3>1, <3>2
    <3>4. o = q
      BY <2>4, <3>3, RunsApart
    <3>5. QED
      BY <1>2, <2>3, <3>2, <3>4
  <2>5. ASSUME NEW o, IsRun(o, cand, n), Beyond(o, t) = x PROVE o = q
    <3>1. o[1] \in 1..n /\ o[2] \in 1..n /\ o[1] < o[2]
      BY <1>1, <2>5
    <3>2. o[1] = x + 1
      BY <2>2, <2>5, <3>1, <1>4 DEF Beyond
    <3>3. o[1] <= q[1] /\ q[1] <= o[2] /\ q[1] <= q[2] /\ q[1] <= q[1] /\ q[1] \in Int
      BY <1>2, <2>3, <3>1, <3>2
    <3>4. QED
      BY <2>5, <3>3, RunsApart
  <2>6. QED
    BY <1>4, <2>2, <2>4, <2>5
<1>5. QED
  BY <1>3, <1>4

PairsOf == [expected : Int, displaced : Int]
Chosen(phases, R, cand, n) ==
    /\ IsFiniteSet(R) /\ phases \in [R -> {0, 1}] /\ \A r \in R : IsRun(r, cand, n)

LEMMA RunsInOrder ==
    ASSUME NEW n \in Nat, NEW cand, Climbs(cand, n), NEW R, NEW phases, Chosen(phases, R, cand, n)
    PROVE  LET s == Ordered(R, LAMBDA r : r[1])
           IN  /\ s \in [1..Cardinality(R) -> R] /\ Cardinality(R) \in Nat
               /\ \A i, j \in 1..Cardinality(R) : s[i] = s[j] => i = j
<1> DEFINE key == [r \in R |-> r[1]]
           s == Ordered(R, LAMBDA r : r[1])
           t == InKeyOrder(R, key)
           N == Cardinality(R)
<1>1. \A r \in R : key[r] = r[1] /\ r[1] \in Int
  BY DEF Chosen, IsRun
<1>2. Keyed(R, key)
  <2>1. ASSUME NEW x \in R, NEW y \in R, key[x] = key[y] PROVE x = y
    <3>1. IsRun(x, cand, n) /\ IsRun(y, cand, n) /\ x[1] = y[1]
      BY <1>1, <2>1 DEF Chosen
    <3>2. x[1] \in Int /\ x[1] <= x[1] /\ x[1] <= x[2] /\ y[1] <= x[1] /\ x[1] <= y[2]
      BY <3>1 DEF IsRun
    <3>3. QED
      BY <3>1, <3>2, RunsApart
  <2>2. key \in [R -> Int]
    BY <1>1
  <2> HIDE DEF key
  <2>3. QED
    BY <2>1, <2>2 DEF Keyed
<1>3. InOrderOf(R, key, t) /\ N \in Nat
  <2>1. IsFiniteSet(R)
    BY DEF Chosen
  <2> HIDE DEF key
  <2>2. QED
    BY <1>2, <2>1, OrderIsFound, FS_CardinalityType
<1>4. t = s
  <2> DEFINE A(i) == CHOOSE x \in R : Cardinality({y \in R : key[y] < key[x]}) = i - 1
             B(i) == CHOOSE x \in R : Cardinality({y \in R : y[1] < x[1]}) = i - 1
  <2>1. \A i \in 1..N : A(i) = B(i)
    <3>1. \A x \in R : {y \in R : key[y] < key[x]} = {y \in R : y[1] < x[1]}
      BY <1>1
    <3> HIDE DEF key
    <3>2. QED
      BY <3>1
  <2>2. t = [i \in 1..N |-> A(i)]
    BY DEF InKeyOrder
  <2>3. s = [i \in 1..N |-> B(i)]
    BY DEF Ordered
  <2> HIDE DEF A, B, t, s
  <2>4. QED
    BY <2>1, <2>2, <2>3
<1> HIDE DEF t, key, s
<1>5. s \in [1..N -> R] /\ \A i, j \in 1..N : i < j => key[s[i]] < key[s[j]]
  BY <1>3, <1>4 DEF InOrderOf
<1>6. ASSUME NEW i \in 1..N, NEW j \in 1..N, s[i] = s[j] PROVE i = j
  <2>1. key[s[i]] \in Int
    BY <1>1, <1>5
  <2>2. ~ key[s[i]] < key[s[j]] /\ ~ key[s[j]] < key[s[i]]
    BY <1>6, <2>1
  <2>3. ~ i < j /\ ~ j < i
    BY <1>5, <2>2
  <2>4. QED
    BY <1>3, <2>3
<1>7. QED
  BY <1>3, <1>5, <1>6 DEF s

LEMMA SidesAreSides ==
    ASSUME NEW n \in Nat, NEW cand, Climbs(cand, n), Len(cand) = n,
           NEW D \in SUBSET Int, \A b \in D : \A c \in 0..b : c \in D, \A i \in 1..n : cand[i] \in D,
           NEW r, IsRun(r, cand, n), NEW ph \in {0, 1}
    PROVE  /\ before_run(cand, r, ph) \in Seq(PairsOf) /\ Len(before_run(cand, r, ph)) \in {0, 1}
           /\ Len(before_run(cand, r, ph)) = 1 =>
                 IsPair(before_run(cand, r, ph)[1], r, ph, "before", cand, n) /\ before_run(cand, r, ph)[1].expected \in D
           /\ after_run(D, cand, r, ph) \in Seq(PairsOf) /\ Len(after_run(D, cand, r, ph)) \in {0, 1}
           /\ Len(after_run(D, cand, r, ph)) = 1 =>
                 IsPair(after_run(D, cand, r, ph)[1], r, ph, "after", cand, n) /\ after_run(D, cand, r, ph)[1].expected \in D
<1>1. r[1] \in 1..n /\ r[2] \in 1..n /\ r[1] < r[2]
  BY DEF IsRun
<1>2. \A i \in 1..n : cand[i] \in Int /\ cand[i] \in D
  BY DEF Climbs
<1>3. /\ before_run(cand, r, ph) \in Seq(PairsOf) /\ Len(before_run(cand, r, ph)) \in {0, 1}
      /\ Len(before_run(cand, r, ph)) = 1 =>
            IsPair(before_run(cand, r, ph)[1], r, ph, "before", cand, n) /\ before_run(cand, r, ph)[1].expected \in D
  <2> DEFINE a == Anchored(r, ph, "before")
             p == [expected |-> cand[a] - 4, displaced |-> cand[r[1] - 1]]
             s == before_run(cand, r, ph)
  <2>1. a \in 1..n /\ a = r[1] + ph
    BY AnchorIsOfPhase DEF Anchored
  <2>2. s = IF cand[a] >= 4 /\ r[1] > 1 THEN <<p>> ELSE <<>>
    BY <2>1 DEF before_run, BAR
  <2>3. CASE cand[a] >= 4 /\ r[1] > 1
    <3>1. r[1] - 1 \in 1..n /\ cand[a] \in Int /\ cand[a] \in D
      BY <1>1, <1>2, <2>1, <2>3, SMTT(40)
    <3>2. p.expected = cand[a] - 4 /\ p.displaced = cand[r[1] - 1] /\ p \in PairsOf /\ p.expected \in D
      <4>1. cand[a] - 4 \in 0..cand[a]
        BY <2>3, <3>1
      <4>2. cand[r[1] - 1] \in Int
        BY <1>2, <3>1
      <4>3. QED
        BY <3>1, <4>1, <4>2 DEF PairsOf
    <3>3. s = <<p>>
      BY <2>2, <2>3
    <3> HIDE DEF s, p, a
    <3>4. s \in Seq(PairsOf) /\ Len(s) = 1 /\ s[1] = p
      BY <3>2, <3>3
    <3>5. IsPair(p, r, ph, "before", cand, n)
      BY <3>1, <3>2 DEF IsPair, Beyond, a
    <3>6. QED
      BY <3>2, <3>4, <3>5 DEF s
  <2>4. CASE ~ (cand[a] >= 4 /\ r[1] > 1)
    <3>1. s = <<>>
      BY <2>2, <2>4
    <3> HIDE DEF s
    <3>2. s \in Seq(PairsOf) /\ Len(s) = 0
      BY <3>1, EmptySeq
    <3>3. QED
      BY <3>2 DEF s
  <2>5. QED
    BY <2>3, <2>4
<1>4. /\ after_run(D, cand, r, ph) \in Seq(PairsOf) /\ Len(after_run(D, cand, r, ph)) \in {0, 1}
      /\ Len(after_run(D, cand, r, ph)) = 1 =>
            IsPair(after_run(D, cand, r, ph)[1], r, ph, "after", cand, n) /\ after_run(D, cand, r, ph)[1].expected \in D
  <2> DEFINE a == Anchored(r, ph, "after")
             p == [expected |-> cand[a] + 4, displaced |-> cand[r[2] + 1]]
             s == after_run(D, cand, r, ph)
  <2>1. a \in 1..n /\ a = CHOOSE i \in Ofphase(r, ph) : \A k \in Ofphase(r, ph) : k <= i
    BY AnchorIsOfPhase, ZenonT(60) DEF Anchored
  <2>2. s = IF r[2] < n /\ cand[a] + 4 \in D THEN <<p>> ELSE <<>>
    <3> DEFINE c == CHOOSE i \in Ofphase(r, ph) : \A k \in Ofphase(r, ph) : k <= i
    <3>1. s = IF r[2] < Len(cand) /\ cand[c] + BAR \in D
              THEN <<[expected |-> cand[c] + BAR, displaced |-> cand[r[2] + 1]]>> ELSE <<>>
      BY DEF after_run
    <3>2. a = c
      BY <2>1
    <3> HIDE DEF c, s, a
    <3>3. QED
      BY <3>1, <3>2 DEF BAR
  <2>3. CASE r[2] < n /\ cand[a] + 4 \in D
    <3>1. r[2] + 1 \in 1..n /\ cand[a] \in Int /\ cand[a] + 4 \in D
      BY <1>1, <1>2, <2>1, <2>3, SMTT(40)
    <3>2. p.expected = cand[a] + 4 /\ p.displaced = cand[r[2] + 1] /\ p \in PairsOf /\ p.expected \in D
      <4>1. cand[r[2] + 1] \in Int
        BY <1>2, <3>1
      <4>2. QED
        BY <3>1, <4>1 DEF PairsOf
    <3>3. s = <<p>>
      BY <2>2, <2>3
    <3> HIDE DEF s, p, a
    <3>4. s \in Seq(PairsOf) /\ Len(s) = 1 /\ s[1] = p
      BY <3>2, <3>3
    <3>5. IsPair(p, r, ph, "after", cand, n)
      BY <3>1, <3>2 DEF IsPair, Beyond, a
    <3>6. QED
      BY <3>2, <3>4, <3>5 DEF s
  <2>4. CASE ~ (r[2] < n /\ cand[a] + 4 \in D)
    <3>1. s = <<>>
      BY <2>2, <2>4
    <3> HIDE DEF s
    <3>2. s \in Seq(PairsOf) /\ Len(s) = 0
      BY <3>1, EmptySeq
    <3>3. QED
      BY <3>2 DEF s
  <2>5. QED
    BY <2>3, <2>4
<1>5. QED
  BY <1>3, <1>4

\* Every pair is of one side of one selected run, and each side has at most one.
Origins(f, run, side, phases, cand, n, D) ==
    /\ run \in [1..Len(f) -> DOMAIN phases] /\ side \in [1..Len(f) -> {"before", "after"}]
    /\ \A k \in 1..Len(f) : IsPair(f[k], run[k], phases[run[k]], side[k], cand, n) /\ f[k].expected \in D
    /\ \A k, l \in 1..Len(f) : run[k] = run[l] /\ side[k] = side[l] => k = l

LEMMA PairsHaveOrigins ==
    ASSUME NEW n \in Nat, NEW cand, Climbs(cand, n), Len(cand) = n,
           NEW D \in SUBSET Int, \A b \in D : \A c \in 0..b : c \in D, \A i \in 1..n : cand[i] \in D,
           NEW R, NEW phases, Chosen(phases, R, cand, n)
    PROVE  LET f == boundaries(D, cand, phases)
           IN  f \in Seq(PairsOf) /\ \E run, side : Origins(f, run, side, phases, cand, n, D)
<1> DEFINE f == boundaries(D, cand, phases)
           s == Ordered(R, LAMBDA r : r[1])
           N == Cardinality(R)
           Before(r) == before_run(cand, r, phases[r])
           After(r) == after_run(D, cand, r, phases[r])
           seqs == [i \in 1..N |-> Before(s[i]) \o After(s[i])]
<1>1. s \in [1..N -> R] /\ N \in Nat /\ \A i, j \in 1..N : s[i] = s[j] => i = j
  BY RunsInOrder
<1>2. f = FlattenSeq(seqs)
  <2>1. DOMAIN phases = R
    BY DEF Chosen
  <2>2. DOMAIN s = 1..N
    BY <1>1
  <2>3. QED
    BY <2>1, <2>2 DEF boundaries
<1>3. \A r \in R : IsRun(r, cand, n) /\ phases[r] \in {0, 1}
  BY DEF Chosen
<1> HIDE DEF s, N, f
<1>4. ASSUME NEW r \in R
      PROVE  /\ Before(r) \in Seq(PairsOf) /\ Len(Before(r)) \in {0, 1}
             /\ Len(Before(r)) = 1 => IsPair(Before(r)[1], r, phases[r], "before", cand, n) /\ Before(r)[1].expected \in D
             /\ After(r) \in Seq(PairsOf) /\ Len(After(r)) \in {0, 1}
             /\ Len(After(r)) = 1 => IsPair(After(r)[1], r, phases[r], "after", cand, n) /\ After(r)[1].expected \in D
  <2> DEFINE ph == phases[r]
  <2>1. IsRun(r, cand, n) /\ ph \in {0, 1}
    BY <1>3
  <2> HIDE DEF ph
  <2>2. QED
    BY <2>1, SidesAreSides DEF ph
<1> HIDE DEF Before, After
<1>5. ASSUME NEW i \in 1..N
      PROVE  /\ seqs[i] \in Seq(PairsOf)
             /\ \A j \in 1..Len(seqs[i]) :
                   \/ Len(Before(s[i])) = 1 /\ j = 1 /\ seqs[i][j] = Before(s[i])[1]
                   \/ ~ (Len(Before(s[i])) = 1 /\ j = 1) /\ Len(After(s[i])) = 1 /\ seqs[i][j] = After(s[i])[1]
                         /\ j = Len(Before(s[i])) + 1
  <2> DEFINE b == Before(s[i])
             a == After(s[i])
  <2>1. s[i] \in R
    BY <1>1
  <2>2. b \in Seq(PairsOf) /\ Len(b) \in {0, 1} /\ a \in Seq(PairsOf) /\ Len(a) \in {0, 1}
    BY <1>4, <2>1
  <2>3. seqs[i] = b \o a
    OBVIOUS
  <2> HIDE DEF b, a, seqs
  <2>4. /\ seqs[i] \in Seq(PairsOf) /\ Len(seqs[i]) = Len(b) + Len(a)
        /\ \A j \in 1..Len(b) + Len(a) : seqs[i][j] = IF j <= Len(b) THEN b[j] ELSE a[j - Len(b)]
    BY <2>2, <2>3, ConcatProperties
  <2>5. ASSUME NEW j \in 1..Len(seqs[i])
        PROVE  \/ Len(b) = 1 /\ j = 1 /\ seqs[i][j] = b[1]
               \/ ~ (Len(b) = 1 /\ j = 1) /\ Len(a) = 1 /\ seqs[i][j] = a[1] /\ j = Len(b) + 1
    <3>1. j \in 1..Len(b) + Len(a) /\ seqs[i][j] = IF j <= Len(b) THEN b[j] ELSE a[j - Len(b)]
      BY <2>4
    <3>2. CASE Len(b) = 0
      <4>1. Len(a) = 1 /\ j = 1
        BY <2>2, <3>1, <3>2
      <4>2. j - Len(b) = 1 /\ ~ j <= Len(b)
        BY <3>2, <4>1
      <4>3. QED
        BY <3>1, <3>2, <4>1, <4>2
    <3>3. CASE Len(b) = 1 /\ j = 1
      BY <3>1, <3>3
    <3>4. CASE Len(b) = 1 /\ j # 1
      <4>1. j = 2 /\ Len(a) = 1
        BY <2>2, <3>1, <3>4
      <4>2. j - Len(b) = 1 /\ ~ j <= Len(b)
        BY <3>4, <4>1
      <4>3. QED
        BY <3>1, <3>4, <4>1, <4>2
    <3>5. QED
      BY <2>2, <3>2, <3>3, <3>4
  <2>6. QED
    BY <2>4, <2>5 DEF b, a
<1>6. seqs \in [1..N -> Seq(PairsOf)]
  BY <1>5
<1> HIDE DEF seqs
<1>7. f \in Seq(PairsOf)
  BY <1>1, <1>2, <1>6, FlattenComesFrom
<1>8. PICK from : ComesFrom(f, seqs, N, from)
  BY <1>1, <1>2, <1>6, FlattenComesFrom
<1> DEFINE IsBefore(k) == Len(Before(s[from[k][1]])) = 1 /\ from[k][2] = 1
           run == [k \in 1..Len(f) |-> s[from[k][1]]]
           side == [k \in 1..Len(f) |-> IF IsBefore(k) THEN "before" ELSE "after"]
<1>9. ASSUME NEW k \in 1..Len(f)
      PROVE  /\ from[k] = <<from[k][1], from[k][2]>> /\ from[k][1] \in 1..N /\ from[k][2] \in 1..Len(seqs[from[k][1]])
             /\ f[k] = seqs[from[k][1]][from[k][2]] /\ s[from[k][1]] \in R
  <2>1. from[k] \in (1..N) \X Nat /\ from[k][2] \in 1..Len(seqs[from[k][1]]) /\ f[k] = seqs[from[k][1]][from[k][2]]
    BY <1>8 DEF ComesFrom
  <2>2. from[k][1] \in 1..N /\ from[k] = <<from[k][1], from[k][2]>>
    BY <2>1
  <2>3. QED
    BY <1>1, <2>1, <2>2
<1>10. ASSUME NEW k \in 1..Len(f)
       PROVE  /\ IsPair(f[k], run[k], phases[run[k]], side[k], cand, n) /\ f[k].expected \in D
              /\ run[k] \in R /\ side[k] \in {"before", "after"}
              /\ side[k] = "before" => from[k][2] = 1
              /\ side[k] = "after" => from[k][2] = Len(Before(run[k])) + 1
  <2> DEFINE i == from[k][1]
             j == from[k][2]
  <2>1. i \in 1..N /\ j \in 1..Len(seqs[i]) /\ f[k] = seqs[i][j] /\ s[i] \in R
    BY <1>9
  <2>2. run[k] = s[i] /\ side[k] = IF IsBefore(k) THEN "before" ELSE "after"
    OBVIOUS
  <2>3. IsBefore(k) <=> Len(Before(s[i])) = 1 /\ j = 1
    OBVIOUS
  <2> HIDE DEF i, j, run, side, IsBefore
  <2>4. CASE IsBefore(k)
    <3>1. f[k] = Before(s[i])[1] /\ side[k] = "before" /\ j = 1
      BY <1>5, <2>1, <2>2, <2>3, <2>4
    <3>2. IsPair(f[k], s[i], phases[s[i]], "before", cand, n) /\ f[k].expected \in D
      BY <1>4, <2>1, <2>3, <2>4, <3>1
    <3>3. QED
      BY <2>1, <2>2, <3>1, <3>2 DEF j
  <2>5. CASE ~ IsBefore(k)
    <3>1. f[k] = After(s[i])[1] /\ side[k] = "after" /\ j = Len(Before(s[i])) + 1 /\ Len(After(s[i])) = 1
      BY <1>5, <2>1, <2>2, <2>3, <2>5
    <3>2. IsPair(f[k], s[i], phases[s[i]], "after", cand, n) /\ f[k].expected \in D
      BY <1>4, <2>1, <3>1
    <3>3. QED
      BY <2>1, <2>2, <3>1, <3>2 DEF j
  <2>6. QED
    BY <2>4, <2>5
<1>11. run \in [1..Len(f) -> R] /\ side \in [1..Len(f) -> {"before", "after"}]
  BY <1>9
<1>12. ASSUME NEW k \in 1..Len(f), NEW l \in 1..Len(f), run[k] = run[l], side[k] = side[l] PROVE k = l
  <2>1. from[k][1] = from[l][1]
    <3>1. run[k] = s[from[k][1]] /\ run[l] = s[from[l][1]]
      OBVIOUS
    <3> HIDE DEF run
    <3>2. QED
      BY <1>1, <1>9, <1>12, <3>1
  <2> HIDE DEF run, side
  <2>2. from[k][2] = from[l][2]
    BY <1>10, <1>12
  <2>3. from[k] = from[l]
    BY <1>9, <2>1, <2>2
  <2>4. QED
    BY <1>8, <2>3 DEF ComesFrom
<1> HIDE DEF run, side
<1>13. DOMAIN phases = R
  BY DEF Chosen
<1>14. Origins(f, run, side, phases, cand, n, D)
  BY <1>10, <1>11, <1>12, <1>13 DEF Origins
<1>15. QED
  BY <1>7, <1>14 DEF f

\* What is kept of the candidates, the runs that have selected a phase and the pairs they ask
\* for: whatever was rejected belongs to one of those runs.
Setting(D, K, cand, n, R, phases, f, run, side) ==
    /\ n \in Nat /\ Climbs(cand, n) /\ D \in SUBSET Int /\ \A i \in 1..n : cand[i] \in D
    /\ Chosen(phases, R, cand, n) /\ f \in Seq(PairsOf) /\ Origins(f, run, side, phases, cand, n, D)
    /\ K \in SUBSET D
    /\ \A i \in 1..n : cand[i] \notin K => \E o \in R : o[1] <= i /\ i <= o[2]

\* The beat next to a label that should move there is asked for by one pair at most; if by one,
\* the candidate there is kept.
LEMMA OnePairMovesIt ==
    ASSUME NEW D, NEW K, NEW cand, NEW n, NEW R, NEW phases, NEW f, NEW run, NEW side,
           Setting(D, K, cand, n, R, phases, f, run, side),
           NEW m \in 1..Len(f), NEW k \in 1..Len(f),
           f[m].expected - f[m].displaced \in {-1, 1}, f[m].expected = f[k].displaced
    PROVE  f[k].displaced \in K /\ \A l \in 1..Len(f) : f[l].displaced = f[k].displaced => l = k
<1>1. /\ n \in Nat /\ Climbs(cand, n) /\ Chosen(phases, R, cand, n)
      /\ Origins(f, run, side, phases, cand, n, D) /\ DOMAIN phases = R
  BY DEF Setting, Chosen
<1>2. \A l \in 1..Len(f) :
         /\ run[l] \in R /\ IsRun(run[l], cand, n) /\ phases[run[l]] \in {0, 1} /\ side[l] \in {"before", "after"}
         /\ IsPair(f[l], run[l], phases[run[l]], side[l], cand, n)
         /\ Beyond(run[l], side[l]) \in 1..n /\ f[l].displaced = cand[Beyond(run[l], side[l])]
  BY <1>1 DEF Origins, Chosen, IsPair
<1> DEFINE x == Beyond(run[k], side[k])
           r == run[m]
           ph == phases[run[m]]
           s == side[m]
           p == f[m]
<1>3. /\ x \in 1..n /\ cand[x] = p.expected /\ p.expected - p.displaced \in {-1, 1}
      /\ IsRun(r, cand, n) /\ ph \in {0, 1} /\ s \in {"before", "after"} /\ IsPair(p, r, ph, s, cand, n)
  BY <1>2
<1> HIDE DEF x, r, ph, s, p
<1>4. ASSUME NEW q, IsRun(q, cand, n), NEW t \in {"before", "after"}, Beyond(q, t) = x
      PROVE  /\ t # s
             /\ \A o : IsRun(o, cand, n) => ~ (o[1] <= x /\ x <= o[2])
             /\ \A o : IsRun(o, cand, n) /\ Beyond(o, t) = x => o = q
  BY <1>1, <1>3, <1>4, BeyondIsFree
<1> DEFINE q == run[k]
           t == side[k]
<1>5. IsRun(q, cand, n) /\ t \in {"before", "after"} /\ Beyond(q, t) = x
  BY <1>2 DEF x
<1>6. f[k].displaced \in K
  <2>1. \A o \in R : ~ (o[1] <= x /\ x <= o[2])
    BY <1>1, <1>4, <1>5 DEF Chosen
  <2>2. cand[x] \in K
    BY <1>3, <2>1 DEF Setting
  <2>3. QED
    BY <1>2, <2>2 DEF x
<1>7. ASSUME NEW l \in 1..Len(f), f[l].displaced = f[k].displaced PROVE l = k
  <2> DEFINE o == run[l]
             v == side[l]
             y == Beyond(o, v)
  <2>1. IsRun(o, cand, n) /\ v \in {"before", "after"} /\ y \in 1..n /\ cand[y] = cand[x]
    BY <1>2, <1>7 DEF x
  <2> HIDE DEF y
  <2>2. y = x
    <3>1. ~ cand[y] < cand[x] /\ ~ cand[x] < cand[y]
      <4>1. cand[x] \in Int
        BY <1>1, <1>3 DEF Climbs
      <4>2. QED
        BY <2>1, <4>1
    <3>2. QED
      BY <1>1, <1>3, <2>1, <3>1 DEF Climbs
  <2> HIDE DEF o, v, q, t
  <2>3. v # s /\ t # s
    BY <1>4, <1>5, <2>1, <2>2 DEF y
  <2>4. v = t
    BY <1>3, <1>5, <2>1, <2>3
  <2>5. o = q
    BY <1>4, <1>5, <2>1, <2>2, <2>4 DEF y
  <2>6. QED
    BY <1>1, <2>4, <2>5 DEF Origins, o, q, v, t
<1>8. QED
  BY <1>6, <1>7

-----------------------------------------------------------------------------
\* Where the labels stand after k pairs: every kept one once, in order, and one that is not in
\* its place was put where it is by one of the pairs, onto a beat that is no kept candidate or
\* one whose label had moved before.
InPlace(l, D, K) ==
    /\ l \in [D -> K \cup {Unlabelled}]
    /\ \A c \in K : \E b \in D : l[b] = c
    /\ \A a, b \in D : l[a] # Unlabelled /\ l[b] # Unlabelled /\ a < b => l[a] < l[b]
Brought(b, c, k, f, K) ==
    \E m \in 1..k : /\ f[m].displaced = c /\ f[m].expected = b /\ b - c \in {-1, 1}
                    /\ b \in K => \E l \in 1..m - 1 : f[l].displaced = b
Stand(l, k, D, K, f) ==
    /\ InPlace(l, D, K)
    /\ \A b \in D : l[b] # Unlabelled => l[b] = b \/ Brought(b, l[b], k, f, K)
Swapped(l, e, d, D) ==
    [b \in D |-> IF b = d THEN Unlabelled ELSE IF b = e THEN l[d] ELSE l[b]]

LEMMA RealignSwaps ==
    ASSUME NEW D \in SUBSET Int, NEW K \in SUBSET D, NEW l \in [D -> K \cup {Unlabelled}],
           NEW p \in PairsOf, p.expected \in D, p.displaced \in D, NEW louder
    PROVE  LET w == realign_boundary_downbeat(l, p, louder)
           IN  \/ w = l
               \/ /\ p.expected - p.displaced \in {-1, 1}
                  /\ l[p.expected] = Unlabelled /\ l[p.displaced] # Unlabelled
                  /\ w = Swapped(l, p.expected, p.displaced, D)
<1> DEFINE e == p.expected
           d == p.displaced
           go == e - d \in -1..1 /\ l[e] = Unlabelled /\ l[d] # Unlabelled /\ p \in louder
<1>1. realign_boundary_downbeat(l, p, louder) =
        IF go THEN [l EXCEPT ![e] = l[d], ![d] = Unlabelled] ELSE l
  BY DEF realign_boundary_downbeat
<1>2. e \in Int /\ d \in Int
  BY DEF PairsOf
<1>3. ASSUME go PROVE e - d \in {-1, 1} /\ [l EXCEPT ![e] = l[d], ![d] = Unlabelled] = Swapped(l, e, d, D)
  <2>1. e # d
    BY <1>3
  <2>2. e - d \in {-1, 1}
    BY <1>2, <1>3, <2>1
  <2> HIDE DEF e, d
  <2>3. [l EXCEPT ![e] = l[d], ![d] = Unlabelled] = Swapped(l, e, d, D)
    BY <2>1 DEF Swapped
  <2>4. QED
    BY <2>2, <2>3
<1> HIDE DEF e, d
<1>4. QED
  BY <1>1, <1>3 DEF e, d

LEMMA RealignKeepsPlace ==
    ASSUME NEW D \in SUBSET Int, NEW K \in SUBSET D, NEW l, InPlace(l, D, K),
           NEW e \in D, NEW d \in D, e - d \in {-1, 1}, l[e] = Unlabelled, l[d] # Unlabelled
    PROVE  InPlace(Swapped(l, e, d, D), D, K)
<1> DEFINE w == Swapped(l, e, d, D)
<1>1. /\ l \in [D -> K \cup {Unlabelled}] /\ \A c \in K : \E b \in D : l[b] = c
      /\ \A a, b \in D : l[a] # Unlabelled /\ l[b] # Unlabelled /\ a < b => l[a] < l[b]
  BY DEF InPlace
<1>2. e \in Int /\ d \in Int /\ e # d /\ (e = d - 1 \/ e = d + 1)
  BY <1>1
<1>3. w = [b \in D |-> IF b = d THEN Unlabelled ELSE IF b = e THEN l[d] ELSE l[b]]
  BY DEF Swapped
<1> HIDE DEF w
<1>4. w[d] = Unlabelled /\ w[e] = l[d] /\ \A b \in D : b # d /\ b # e => w[b] = l[b]
  BY <1>2, <1>3
<1>5. w \in [D -> K \cup {Unlabelled}]
  BY <1>1, <1>3
<1>6. ASSUME NEW c \in K PROVE \E b \in D : w[b] = c
  <2>1. PICK b \in D : l[b] = c
    BY <1>1
  <2>2. CASE b = d
    BY <1>4, <2>1, <2>2
  <2>3. CASE b # d
    <3>1. c # Unlabelled
      BY UnlabelledAssumption
    <3>2. b # e
      BY <2>1, <3>1
    <3>3. QED
      BY <1>4, <2>1, <2>3, <3>2
  <2>4. QED
    BY <2>2, <2>3
<1>7. ASSUME NEW a \in D, NEW b \in D, w[a] # Unlabelled, w[b] # Unlabelled, a < b PROVE w[a] < w[b]
  <2>1. a # d /\ b # d /\ a \in Int /\ b \in Int
    BY <1>4, <1>7
  <2>2. CASE a = e
    <3>1. d < b /\ b # e
      BY <1>2, <1>7, <2>1, <2>2
    <3>2. QED
      BY <1>1, <1>4, <1>7, <2>1, <2>2, <3>1
  <2>3. CASE b = e
    <3>1. a < d /\ a # e
      BY <1>2, <1>7, <2>1, <2>3
    <3>2. QED
      BY <1>1, <1>4, <1>7, <2>1, <2>3, <3>1
  <2>4. CASE a # e /\ b # e
    BY <1>1, <1>4, <1>7, <2>1, <2>4
  <2>5. QED
    BY <2>2, <2>3, <2>4
<1>8. InPlace(w, D, K)
  BY <1>5, <1>6, <1>7 DEF InPlace
<1>9. QED
  BY <1>8 DEF w

LEMMA RealignStands ==
    ASSUME NEW D, NEW K, NEW cand, NEW n, NEW R, NEW phases, NEW f, NEW run, NEW side,
           Setting(D, K, cand, n, R, phases, f, run, side),
           NEW k \in 1..Len(f), NEW l, Stand(l, k - 1, D, K, f), NEW louder
    PROVE  Stand(realign_boundary_downbeat(l, f[k], louder), k, D, K, f)
<1> DEFINE p == f[k]
           e == p.expected
           d == p.displaced
           w == realign_boundary_downbeat(l, p, louder)
<1>1. /\ D \in SUBSET Int /\ K \in SUBSET D /\ InPlace(l, D, K) /\ l \in [D -> K \cup {Unlabelled}]
      /\ \A b \in D : l[b] # Unlabelled => l[b] = b \/ Brought(b, l[b], k - 1, f, K)
      /\ Len(f) \in Nat
  <2>1. Len(f) \in Nat
    BY LenProperties DEF Setting
  <2>2. QED
    BY <2>1 DEF Setting, Stand, InPlace
<1>2. /\ p \in PairsOf /\ e \in D /\ d \in D
  <2>1. f \in Seq(PairsOf) /\ Origins(f, run, side, phases, cand, n, D)
    BY DEF Setting
  <2>2. p \in PairsOf
    BY <2>1, ElementOfSeq
  <2>3. e \in D /\ IsPair(p, run[k], phases[run[k]], side[k], cand, n)
    BY <2>1 DEF Origins
  <2> HIDE DEF e, p
  <2>4. d \in D
    BY <2>3 DEF IsPair, Setting
  <2>5. QED
    BY <2>2, <2>3, <2>4
<1>3. \A b, c : Brought(b, c, k - 1, f, K) => Brought(b, c, k, f, K)
  <2>1. \A m \in 1..k - 1 : m \in 1..k
    BY <1>1
  <2>2. QED
    BY <2>1 DEF Brought
<1>4. \/ w = l
      \/ e - d \in {-1, 1} /\ l[e] = Unlabelled /\ l[d] # Unlabelled /\ w = Swapped(l, e, d, D)
  <2> HIDE DEF p
  <2>1. D \in SUBSET Int /\ K \in SUBSET D /\ l \in [D -> K \cup {Unlabelled}]
    BY <1>1
  <2>2. p \in PairsOf /\ p.expected \in D /\ p.displaced \in D
    BY <1>2
  <2>3. QED
    BY <2>1, <2>2, RealignSwaps, ZenonT(60)
<1> HIDE DEF w
<1>5. CASE w = l
  BY <1>1, <1>3, <1>5 DEF Stand, w
<1>6. CASE e - d \in {-1, 1} /\ l[e] = Unlabelled /\ l[d] # Unlabelled /\ w = Swapped(l, e, d, D)
  <2>1. InPlace(w, D, K)
    <3> HIDE DEF e, d
    <3>1. QED
      BY <1>1, <1>2, <1>6, RealignKeepsPlace
  <2>2. l[d] = d
    <3>1. ASSUME l[d] # d PROVE FALSE
      <4>1. Brought(d, l[d], k - 1, f, K)
        BY <1>1, <1>2, <1>6, <3>1
      <4>2. PICK m \in 1..k - 1 : /\ f[m].displaced = l[d] /\ f[m].expected = d /\ d - l[d] \in {-1, 1}
                                  /\ d \in K => \E i \in 1..m - 1 : f[i].displaced = d
        BY <4>1 DEF Brought
      <4>3. m \in 1..Len(f) /\ m < k /\ f[m].expected - f[m].displaced \in {-1, 1}
        BY <1>1, <4>2
      <4>4. f[k].displaced \in K /\ \A i \in 1..Len(f) : f[i].displaced = f[k].displaced => i = k
        BY <4>2, <4>3, OnePairMovesIt
      <4>5. PICK i \in 1..m - 1 : f[i].displaced = d
        BY <4>2, <4>4
      <4>6. i \in 1..Len(f) /\ i < k
        BY <1>1, <4>2, <4>3
      <4>7. QED
        BY <4>4, <4>5, <4>6
    <3>2. QED
      BY <3>1
  <2>3. ASSUME NEW b \in D, w[b] # Unlabelled PROVE w[b] = b \/ Brought(b, w[b], k, f, K)
    <3>1. w[b] = IF b = d THEN Unlabelled ELSE IF b = e THEN l[d] ELSE l[b]
      BY <1>6 DEF Swapped
    <3>2. CASE b # e
      BY <1>1, <1>3, <2>3, <3>1, <3>2
    <3>3. CASE b = e
      <4>1. w[b] = d /\ b # d
        BY <2>2, <2>3, <3>1, <3>3
      <4>2. b \in K => \E i \in 1..k - 1 : f[i].displaced = b
        <5>1. ASSUME b \in K PROVE \E i \in 1..k - 1 : f[i].displaced = b
          <6>1. PICK a \in D : l[a] = b
            BY <1>1, <5>1 DEF InPlace
          <6>2. b # Unlabelled
            BY <1>1, UnlabelledAssumption
          <6>3. a # b
            BY <1>6, <3>3, <6>1, <6>2
          <6>4. Brought(a, b, k - 1, f, K)
            BY <1>1, <6>1, <6>2, <6>3
          <6>5. QED
            BY <6>4 DEF Brought
        <5>2. QED
          BY <5>1
      <4>3. k \in 1..k /\ f[k].displaced = d /\ f[k].expected = b /\ b - d \in {-1, 1}
        BY <1>1, <1>6, <3>3
      <4>4. Brought(b, d, k, f, K)
        <5> HIDE DEF d, e, p
        <5>1. QED
          BY <4>2, <4>3 DEF Brought
      <4>5. QED
        BY <4>1, <4>4
    <3>4. QED
      BY <3>2, <3>3
  <2>4. QED
    BY <2>1, <2>3 DEF Stand, w
<1>7. QED
  BY <1>4, <1>5, <1>6

\* The pairs are worked off in order: one state of the labels after each.
Labellings(D, K) == [D -> K \cup {Unlabelled}]
Realigned(at, base, f, louder, V) ==
    /\ at \in [0..Len(f) -> V] /\ at[0] = base
    /\ \A k \in 1..Len(f) : at[k] = realign_boundary_downbeat(at[k - 1], f[k], louder)

AllRealigned(base, f, louder) == FoldLeft(LAMBDA l, pair : realign_boundary_downbeat(l, pair, louder), base, f)

LEMMA RealignIsLabels ==
    ASSUME NEW D \in SUBSET Int, NEW K \in SUBSET D, NEW l \in Labellings(D, K),
           NEW p \in PairsOf, p.expected \in D, p.displaced \in D, NEW louder
    PROVE  realign_boundary_downbeat(l, p, louder) \in Labellings(D, K)
<1> DEFINE w == realign_boundary_downbeat(l, p, louder)
<1>1. l \in [D -> K \cup {Unlabelled}]
  BY DEF Labellings
<1>2. w = l \/ w = Swapped(l, p.expected, p.displaced, D)
  BY <1>1, RealignSwaps
<1> HIDE DEF w
<1>3. Swapped(l, p.expected, p.displaced, D) \in [D -> K \cup {Unlabelled}]
  BY <1>1 DEF Swapped
<1>4. QED
  BY <1>1, <1>2, <1>3 DEF Labellings, w

LEMMA RealigningRuns ==
    ASSUME NEW D \in SUBSET Int, NEW K \in SUBSET D, NEW base \in Labellings(D, K), NEW f \in Seq(PairsOf),
           \A k \in 1..Len(f) : f[k].expected \in D /\ f[k].displaced \in D, NEW louder
    PROVE  \E at : /\ Realigned(at, base, f, louder, Labellings(D, K))
                   /\ AllRealigned(base, f, louder) = at[Len(f)]
<1> DEFINE N == Len(f)
           V == Labellings(D, K)
           step == [x \in (1..N) \X V |-> realign_boundary_downbeat(x[2], f[x[1]], louder)]
           Go(l, k) == realign_boundary_downbeat(l, f[k], louder)
           One(g) == g = [s \in SUBSET (1..N) |-> IF s = {} THEN base ELSE Go(g[s \ {Max(s)}], Max(s))]
           chosen == CHOOSE g : One(g)
<1>1. N \in Nat /\ DOMAIN f = 1..N
  BY LenProperties
<1>2. AllRealigned(base, f, louder) = chosen[1..N]
  BY <1>1 DEF AllRealigned, FoldLeft, MapThenFoldSet
<1>3. \A k \in 1..N, v \in V : step[<<k, v>>] = Go(v, k)
  <2>1. ASSUME NEW k \in 1..N, NEW v \in V PROVE step[<<k, v>>] = Go(v, k)
    <3>1. <<k, v>> \in (1..N) \X V
      OBVIOUS
    <3> HIDE DEF V
    <3>2. QED
      BY <3>1
  <2>2. QED
    BY <2>1
<1>4. \A k \in 1..N, v \in V : Go(v, k) \in V
  <2>1. ASSUME NEW k \in 1..N, NEW v \in V PROVE Go(v, k) \in V
    <3> DEFINE p == f[k]
    <3>1. p \in PairsOf /\ p.expected \in D /\ p.displaced \in D
      BY ElementOfSeq
    <3> HIDE DEF p
    <3>2. realign_boundary_downbeat(v, p, louder) \in Labellings(D, K)
      BY <3>1, RealignIsLabels
    <3>3. QED
      BY <3>2 DEF p
  <2>2. QED
    BY <2>1
<1> HIDE DEF V, step, Go
<1>5. Closed(N, V, step)
  BY <1>3, <1>4 DEF Closed
<1>6. base \in V
  BY DEF V
<1>7. PICK g \in [SUBSET (1..N) -> V] : FoldsUp(g, N, base, step)
  <2> HIDE DEF N
  <2>1. QED
    BY <1>1, <1>5, <1>6, SomethingUnfolds
<1>8. One(g)
  <2>1. ASSUME NEW s \in SUBSET (1..N), s # {}
        PROVE  step[<<Max(s), g[s \ {Max(s)}]>>] = Go(g[s \ {Max(s)}], Max(s))
    <3>1. Max(s) \in 1..N
      BY <1>1, <2>1, GreatestOf
    <3>2. QED
      BY <1>3, <3>1
  <2>2. \A s \in SUBSET (1..N) : g[s] = IF s = {} THEN base ELSE Go(g[s \ {Max(s)}], Max(s))
    BY <1>7, <2>1 DEF FoldsUp
  <2>3. QED
    BY <2>2
<1>9. One(chosen)
  <2> HIDE DEF One
  <2>1. QED
    BY <1>8
<1>10. Unfolds(chosen, N, V, base, step)
  <2>1. ASSUME NEW s \in SUBSET (1..N), s # {}, chosen[s \ {Max(s)}] \in V
        PROVE  chosen[s] = step[<<Max(s), chosen[s \ {Max(s)}]>>]
    <3>1. Max(s) \in 1..N
      BY <1>1, <2>1, GreatestOf
    <3> HIDE DEF chosen
    <3>2. chosen[s] = Go(chosen[s \ {Max(s)}], Max(s))
      BY <1>9, <2>1
    <3>3. QED
      BY <1>3, <2>1, <3>1, <3>2
  <2>2. ASSUME NEW s \in SUBSET (1..N), s = {} PROVE chosen[s] = base
    <3> HIDE DEF chosen
    <3>1. QED
      BY <1>9, <2>2
  <2> HIDE DEF chosen
  <2>3. QED
    BY <2>1, <2>2 DEF Unfolds
<1>11. PICK at : Runs(at, N, V, base, step) /\ at[N] = chosen[1..N]
  <2> HIDE DEF chosen, N
  <2>1. QED
    BY <1>1, <1>5, <1>6, <1>10, UnfoldingRuns
<1>12. Realigned(at, base, f, louder, V)
  <2>1. at \in [0..N -> V] /\ at[0] = base
    BY <1>11 DEF Runs
  <2>2. ASSUME NEW k \in 1..N PROVE at[k] = Go(at[k - 1], k)
    <3>1. k - 1 \in 0..N
      BY <1>1
    <3>2. at[k - 1] \in V
      BY <2>1, <3>1
    <3>3. at[k] = step[<<k, at[k - 1]>>]
      BY <1>11 DEF Runs
    <3>4. QED
      BY <1>3, <3>2, <3>3
  <2>3. QED
    BY <2>1, <2>2 DEF Realigned, Go
<1> HIDE DEF chosen
<1>13. QED
  BY <1>2, <1>11, <1>12 DEF V

LEMMA RealigningStands ==
    ASSUME NEW D, NEW K, NEW cand, NEW n, NEW R, NEW phases, NEW f, NEW run, NEW side,
           Setting(D, K, cand, n, R, phases, f, run, side),
           NEW base, Stand(base, 0, D, K, f), NEW louder
    PROVE  Stand(AllRealigned(base, f, louder), Len(f), D, K, f)
<1> DEFINE N == Len(f)
           V == Labellings(D, K)
<1>1. D \in SUBSET Int /\ K \in SUBSET D /\ f \in Seq(PairsOf) /\ N \in Nat
  BY LenProperties DEF Setting
<1>2. base \in V
  BY DEF Stand, InPlace, Labellings
<1>3. \A k \in 1..Len(f) : f[k].expected \in D /\ f[k].displaced \in D
  <2>1. ASSUME NEW k \in 1..Len(f) PROVE f[k].expected \in D /\ f[k].displaced \in D
    <3>1. f[k].expected \in D /\ IsPair(f[k], run[k], phases[run[k]], side[k], cand, n)
      BY DEF Setting, Origins
    <3>2. QED
      BY <3>1 DEF IsPair, Setting
  <2>2. QED
    BY <2>1
<1>4. PICK at : /\ Realigned(at, base, f, louder, Labellings(D, K))
                /\ AllRealigned(base, f, louder) = at[Len(f)]
  BY <1>1, <1>2, <1>3, RealigningRuns
<1> DEFINE Bad == {k \in Nat : k <= N /\ ~ Stand(at[k], k, D, K, f)}
<1>5. ASSUME Bad # {} PROVE FALSE
  <2>1. PICK k \in Bad : \A j \in Bad : k <= j
    <3>1. Bad \subseteq Nat
      OBVIOUS
    <3> HIDE DEF Bad
    <3>2. QED
      BY <1>5, <3>1, LeastOf
  <2>2. k \in Nat /\ k <= N /\ ~ Stand(at[k], k, D, K, f)
    BY <2>1
  <2>3. k # 0
    BY <1>4, <2>2 DEF Realigned
  <2>4. k - 1 \in Nat /\ k - 1 <= N /\ k \in 1..N /\ k - 1 \notin Bad
    <3> HIDE DEF Bad, N
    <3>1. QED
      BY <1>1, <2>1, <2>2, <2>3
  <2>5. Stand(at[k - 1], k - 1, D, K, f)
    BY <2>4
  <2>6. at[k] = realign_boundary_downbeat(at[k - 1], f[k], louder)
    BY <1>4, <2>4 DEF Realigned
  <2>7. Stand(realign_boundary_downbeat(at[k - 1], f[k], louder), k, D, K, f)
    BY <2>4, <2>5, RealignStands
  <2>8. QED
    BY <2>2, <2>6, <2>7
<1>6. N \notin Bad
  <2> HIDE DEF Bad
  <2>1. QED
    BY <1>5
<1>7. Stand(at[N], N, D, K, f)
  BY <1>1, <1>6
<1>8. QED
  BY <1>4, <1>7

\* The candidates of a labelling: its labelled beats, in order.
Marked(D, S, cand, n) ==
    /\ D \in SUBSET Int /\ IsFiniteSet(D) /\ S \in SUBSET D /\ n \in Nat
    /\ Climbs(cand, n) /\ Len(cand) = n /\ DOMAIN cand = 1..n
    /\ \A i \in 1..n : cand[i] \in S
    /\ \A b \in S : \E i \in 1..n : cand[i] = b

LEMMA CandidatesAreMarked ==
    ASSUME NEW D \in SUBSET Int, IsFiniteSet(D), NEW labels, DOMAIN labels = D
    PROVE  Marked(D, Labelled(labels), candidates_of(labels), Cardinality(Labelled(labels)))
<1> DEFINE S == Labelled(labels)
           cand == candidates_of(labels)
           n == Cardinality(S)
<1>1. S \in SUBSET D
  BY DEF Labelled
<1>2. cand = [i \in 1..n |-> CHOOSE x \in S : Cardinality({y \in S : y < x}) = i - 1]
  BY DEF candidates_of, Ordered
<1> HIDE DEF S, cand
<1>3. IsFiniteSet(S) /\ S \in SUBSET Int /\ n \in Nat
  BY <1>1, FS_Subset, FS_CardinalityType
<1>4. InOrder(S, cand)
  BY <1>2, <1>3, IntegersInOrder
<1>5. /\ cand \in [1..n -> S] /\ \A i, j \in 1..n : i < j => cand[i] < cand[j]
      /\ \A x \in S : \E i \in 1..n : cand[i] = x
  BY <1>4 DEF InOrder
<1> HIDE DEF n
<1>6. cand \in [1..n -> Int] /\ cand \in Seq(Int)
  <2>1. cand \in [1..n -> Int]
    BY <1>3, <1>5
  <2>2. QED
    BY <1>3, <2>1
<1>7. Len(cand) = n /\ DOMAIN cand = 1..n
  BY <1>3, <1>6
<1>8. Climbs(cand, n)
  BY <1>5, <1>6 DEF Climbs
<1>9. Marked(D, S, cand, n)
  BY <1>1, <1>3, <1>5, <1>7, <1>8 DEF Marked
<1>10. QED
  BY <1>9 DEF S, cand, n

\* What a selection keeps, and that whatever it rejects is of a selected run.
Kept(K, S, cand, n, R, phases) == Chosen(phases, R, cand, n) /\ K = S \ Rejected(cand, phases)

LEMMA KeptOfRun ==
    ASSUME NEW D, NEW S, NEW cand, NEW n, Marked(D, S, cand, n),
           NEW K, NEW R, NEW phases, Kept(K, S, cand, n, R, phases),
           NEW r \in R, NEW i \in r[1]..r[2]
    PROVE  i \in 1..n /\ (cand[i] \in K <=> i \in Ofphase(r, phases[r]))
<1>1. /\ n \in Nat /\ Climbs(cand, n) /\ DOMAIN phases = R /\ IsRun(r, cand, n) /\ phases[r] \in {0, 1}
      /\ K = S \ Rejected(cand, phases)
  BY DEF Marked, Kept, Chosen
<1>2. r[1] \in 1..n /\ r[2] \in 1..n
  BY <1>1 DEF IsRun
<1>3. i \in 1..n
  BY <1>1, <1>2
<1>4. cand[i] \in S
  BY <1>3 DEF Marked
<1>5. ASSUME i \notin Ofphase(r, phases[r]) PROVE cand[i] \in Rejected(cand, phases)
  <2>1. (i - r[1]) % 2 # phases[r] /\ (i - r[1]) % 2 \in {0, 1}
    BY <1>2, <1>3, <1>5 DEF Ofphase
  <2>2. (i - r[1]) % 2 = 1 - phases[r]
    BY <1>1, <2>1
  <2>3. i \in Ofphase(r, 1 - phases[r])
    BY <2>2 DEF Ofphase
  <2>4. QED
    BY <1>1, <2>3 DEF Rejected
<1>6. ASSUME cand[i] \in Rejected(cand, phases) PROVE i \notin Ofphase(r, phases[r])
  <2>1. PICK q \in R : \E k \in Ofphase(q, 1 - phases[q]) : cand[i] = cand[k]
    BY <1>1, <1>6 DEF Rejected
  <2>2. PICK k \in Ofphase(q, 1 - phases[q]) : cand[i] = cand[k]
    BY <2>1
  <2>3. IsRun(q, cand, n)
    BY DEF Kept, Chosen
  <2>4. k \in q[1]..q[2] /\ (k - q[1]) % 2 = 1 - phases[q] /\ q[1] \in 1..n /\ q[2] \in 1..n
    BY <2>3 DEF Ofphase, IsRun
  <2>5. k \in 1..n
    BY <1>1, <2>4
  <2>6. k = i
    <3>1. cand[i] \in Int /\ ~ cand[i] < cand[k] /\ ~ cand[k] < cand[i]
      BY <1>1, <1>3, <2>2 DEF Climbs
    <3>2. QED
      BY <1>1, <1>3, <2>5, <3>1 DEF Climbs
  <2>7. r[1] <= i /\ i <= r[2] /\ q[1] <= i /\ i <= q[2] /\ i \in Int
    BY <1>2, <1>3, <2>4, <2>6
  <2>8. q = r
    BY <1>1, <2>3, <2>7, RunsApart
  <2>9. (i - r[1]) % 2 = 1 - phases[r]
    BY <2>4, <2>6, <2>8
  <2>10. (i - r[1]) % 2 # phases[r]
    BY <1>1, <2>9
  <2>11. QED
    BY <2>10 DEF Ofphase
<1>7. QED
  BY <1>1, <1>3, <1>4, <1>5, <1>6

LEMMA RejectedIsOfRun ==
    ASSUME NEW D, NEW S, NEW cand, NEW n, Marked(D, S, cand, n),
           NEW K, NEW R, NEW phases, Kept(K, S, cand, n, R, phases),
           NEW i \in 1..n, cand[i] \notin K
    PROVE  \E o \in R : o[1] <= i /\ i <= o[2]
<1>1. n \in Nat /\ Climbs(cand, n) /\ DOMAIN phases = R /\ cand[i] \in S /\ K = S \ Rejected(cand, phases)
  BY DEF Marked, Kept, Chosen
<1>2. cand[i] \in Rejected(cand, phases)
  BY <1>1
<1>3. PICK q \in R : \E k \in Ofphase(q, 1 - phases[q]) : cand[i] = cand[k]
  BY <1>1, <1>2 DEF Rejected
<1>4. PICK k \in Ofphase(q, 1 - phases[q]) : cand[i] = cand[k]
  BY <1>3
<1>5. k \in q[1]..q[2] /\ q[1] \in 1..n /\ q[2] \in 1..n
  BY DEF Ofphase, Kept, Chosen, IsRun
<1>6. k \in 1..n
  BY <1>1, <1>5
<1>7. cand[i] \in Int /\ ~ cand[i] < cand[k] /\ ~ cand[k] < cand[i]
  BY <1>1, <1>4 DEF Climbs
<1>8. k = i
  BY <1>1, <1>6, <1>7 DEF Climbs
<1>9. QED
  BY <1>5, <1>8

-----------------------------------------------------------------------------
\* What is kept of a selected run is a bar apart.
BeatsOfRun(cand, r) == {cand[i] : i \in r[1]..r[2]}

LEMMA HighestOfRun ==
    ASSUME NEW n \in Nat, NEW cand, Climbs(cand, n), NEW r, IsRun(r, cand, n)
    PROVE  Highest(BeatsOfRun(cand, r)) = cand[r[2]]
<1> DEFINE T == BeatsOfRun(cand, r)
           top == cand[r[2]]
<1>1. r[1] \in 1..n /\ r[2] \in 1..n /\ r[1] < r[2]
  BY DEF IsRun
<1>2. \A x \in T : x \in Int /\ x <= top
  <2>1. ASSUME NEW i \in r[1]..r[2] PROVE cand[i] \in Int /\ cand[i] <= top
    <3>1. i \in 1..n /\ (i < r[2] \/ i = r[2])
      BY <1>1
    <3>2. cand[i] \in Int /\ top \in Int
      BY <1>1, <3>1 DEF Climbs
    <3>3. cand[i] < top \/ cand[i] = top
      BY <1>1, <3>1 DEF Climbs
    <3> HIDE DEF top
    <3>4. QED
      BY <3>2, <3>3
  <2> HIDE DEF top
  <2>2. QED
    BY <2>1 DEF BeatsOfRun
<1>3. top \in T
  BY <1>1 DEF BeatsOfRun
<1> HIDE DEF T, top
<1>4. Highest(T) \in T /\ \A y \in T : y <= Highest(T)
  BY <1>2, <1>3 DEF Highest
<1>5. Highest(T) = top
  <2>1. Highest(T) \in Int /\ top \in Int /\ Highest(T) <= top /\ top <= Highest(T)
    BY <1>2, <1>3, <1>4
  <2>2. QED
    BY <2>1
<1>6. QED
  BY <1>5 DEF T, top

BarApart(K, cand, r) ==
    \A c \in K \cap BeatsOfRun(cand, r) : c + BAR <= Highest(BeatsOfRun(cand, r)) => c + BAR \in K /\ c + HALF_BAR \notin K

LEMMA KeptIsBarApart ==
    ASSUME NEW D, NEW S, NEW cand, NEW n, Marked(D, S, cand, n),
           NEW K, NEW R, NEW phases, Kept(K, S, cand, n, R, phases), NEW r \in R
    PROVE  BarApart(K, cand, r)
<1>1. n \in Nat /\ Climbs(cand, n) /\ IsRun(r, cand, n) /\ phases[r] \in {0, 1}
  BY DEF Marked, Kept, Chosen
<1>2. r[1] \in 1..n /\ r[2] \in 1..n /\ r[1] < r[2] /\ \A i \in r[1]..r[2] - 1 : cand[i + 1] - cand[i] = 2
  BY <1>1 DEF IsRun
<1>3. ASSUME NEW c \in K \cap BeatsOfRun(cand, r), c + 4 <= cand[r[2]] PROVE c + 4 \in K /\ c + 2 \notin K
  <2>1. PICK i \in r[1]..r[2] : c = cand[i]
    BY <1>3 DEF BeatsOfRun
  <2>2. i \in Ofphase(r, phases[r]) /\ i \in 1..n
    BY <1>3, <2>1, KeptOfRun
  <2>3. (i - r[1]) % 2 = phases[r]
    BY <2>2 DEF Ofphase
  <2>4. c \in Int
    BY <1>1, <2>1, <2>2 DEF Climbs
  <2>5. i # r[2]
    <3>1. ASSUME i = r[2] PROVE FALSE
      BY <1>3, <2>1, <2>4, <3>1
    <3>2. QED
      BY <3>1
  <2>6. i \in r[1]..r[2] - 1 /\ i + 1 \in r[1]..r[2] /\ i + 1 \in 1..n
    <3>1. i \in Int /\ r[1] \in Int /\ r[2] \in Int /\ r[1] <= i /\ i <= r[2] /\ r[1] >= 1 /\ r[2] <= n
      BY <1>2, <2>1
    <3>2. r[1] <= i /\ i < r[2]
      BY <2>5, <3>1
    <3>3. QED
      BY <1>1, <3>1, <3>2
  <2>7. cand[i + 1] = c + 2
    <3>1. cand[i + 1] - cand[i] = 2 /\ cand[i + 1] \in Int
      BY <1>1, <1>2, <2>6 DEF Climbs
    <3>2. QED
      BY <2>1, <2>4, <3>1
  <2>8. i + 1 # r[2]
    <3>1. ASSUME i + 1 = r[2] PROVE FALSE
      BY <1>3, <2>4, <2>7, <3>1
    <3>2. QED
      BY <3>1
  <2>9. i + 1 \in r[1]..r[2] - 1 /\ i + 2 \in r[1]..r[2] /\ i + 2 \in 1..n /\ i + 1 + 1 = i + 2
    <3>1. i \in Int /\ r[1] \in Int /\ r[2] \in Int /\ r[1] <= i /\ i + 1 <= r[2] /\ r[1] >= 1 /\ r[2] <= n
      BY <1>2, <2>1, <2>6
    <3>2. i + 1 < r[2]
      BY <2>8, <3>1
    <3>3. QED
      BY <1>1, <3>1, <3>2
  <2>10. cand[i + 2] = c + 4
    <3>1. cand[i + 1 + 1] - cand[i + 1] = 2
      BY <1>2, <2>9
    <3>2. cand[i + 2] \in Int /\ cand[i + 2] - cand[i + 1] = 2
      BY <1>1, <2>9, <3>1 DEF Climbs
    <3>3. QED
      BY <2>4, <2>7, <3>2
  <2>11. i + 1 \notin Ofphase(r, phases[r]) /\ i + 2 \in Ofphase(r, phases[r])
    <3>1. (i + 1 - r[1]) % 2 # (i - r[1]) % 2 /\ (i + 2 - r[1]) % 2 = (i - r[1]) % 2
      <4> DEFINE k == i - r[1]
      <4>1. k \in Int /\ i + 1 - r[1] = k + 1 /\ i + 2 - r[1] = k + 2
        BY <1>2, <2>1
      <4> HIDE DEF k
      <4>2. (k + 1) % 2 # k % 2 /\ (k + 2) % 2 = k % 2
        BY <4>1
      <4>3. QED
        BY <4>1, <4>2 DEF k
    <3> DEFINE j == i + 1
               l == i + 2
    <3>2. j \in r[1]..r[2] /\ l \in r[1]..r[2] /\ (j - r[1]) % 2 # phases[r] /\ (l - r[1]) % 2 = phases[r]
      <4>1. j \in r[1]..r[2]
        BY <2>6
      <4>2. l \in r[1]..r[2]
        BY <2>9
      <4>3. (j - r[1]) % 2 # phases[r]
        BY <1>2, <2>1, <2>3, <3>1
      <4>4. (l - r[1]) % 2 = phases[r]
        BY <1>2, <2>1, <2>3, <3>1
      <4>5. QED
        BY <4>1, <4>2, <4>3, <4>4
    <3> HIDE DEF j, l
    <3>3. j \notin Ofphase(r, phases[r]) /\ l \in Ofphase(r, phases[r])
      BY <3>2 DEF Ofphase
    <3>4. QED
      BY <3>3 DEF j, l
  <2>12. cand[i + 2] \in K
    BY <2>9, <2>11, KeptOfRun
  <2>13. cand[i + 1] \notin K
    BY <2>6, <2>11, KeptOfRun
  <2>14. QED
    BY <2>7, <2>10, <2>12, <2>13
<1>4. Highest(BeatsOfRun(cand, r)) = cand[r[2]]
  BY <1>1, HighestOfRun
<1>5. QED
  BY <1>3, <1>4 DEF BarApart, BAR, HALF_BAR

\* A label that is not where it was stands next to its place, a bar from a kept label of a
\* selected run it was beside.
PlaceOf(after, c) == CHOOSE b \in DOMAIN after : after[b] = c
BesideRun(cand, r) == {cand[i] : i \in {r[1] - 1, r[2] + 1} \cap DOMAIN cand}
MovedToBar(K, cand, phases, after, c) ==
    /\ PlaceOf(after, c) - c \in {-1, 1}
    /\ \E r \in DOMAIN phases : c \in BesideRun(cand, r) /\ \E a \in K \cap BeatsOfRun(cand, r) :
          /\ PlaceOf(after, c) - a \in {-BAR, BAR}
          /\ PlaceOf(after, a) # a \/ PlaceOf(after, c) - PlaceOf(after, a) \in {-BAR, BAR}

LEMMA BroughtToBar ==
    ASSUME NEW D, NEW S, NEW cand, NEW n, Marked(D, S, cand, n),
           NEW K, NEW R, NEW phases, Kept(K, S, cand, n, R, phases),
           NEW f, NEW run, NEW side, Setting(D, K, cand, n, R, phases, f, run, side),
           NEW after, NEW c, Brought(PlaceOf(after, c), c, Len(f), f, K)
    PROVE  MovedToBar(K, cand, phases, after, c)
<1> DEFINE b == PlaceOf(after, c)
<1>1. PICK m \in 1..Len(f) : f[m].displaced = c /\ f[m].expected = b /\ b - c \in {-1, 1}
  BY DEF Brought
<1> HIDE DEF b
<1> DEFINE r == run[m]
           t == side[m]
           ph == phases[r]
           i == Anchored(r, ph, t)
<1>2. r \in R /\ t \in {"before", "after"} /\ IsPair(f[m], r, ph, t, cand, n) /\ DOMAIN phases = R
  BY DEF Setting, Origins, Chosen
<1>3. n \in Nat /\ Climbs(cand, n) /\ IsRun(r, cand, n) /\ ph \in {0, 1} /\ DOMAIN cand = 1..n
  BY <1>2 DEF Marked, Kept, Chosen
<1> HIDE DEF r, t, ph, i
<1>4. i \in Ofphase(r, ph) /\ i \in 1..n
  BY <1>2, <1>3, AnchorIsOfPhase DEF i
<1>5. i \in r[1]..r[2]
  BY <1>4 DEF Ofphase
<1>6. cand[i] \in K \cap BeatsOfRun(cand, r)
  <2>1. cand[i] \in K
    BY <1>2, <1>4, <1>5, KeptOfRun DEF ph
  <2>2. QED
    BY <1>5, <2>1 DEF BeatsOfRun
<1>7. c \in BesideRun(cand, r)
  <2>1. Beyond(r, t) \in {r[1] - 1, r[2] + 1} \cap DOMAIN cand /\ c = cand[Beyond(r, t)]
    BY <1>1, <1>2, <1>3 DEF IsPair, Beyond
  <2>2. QED
    BY <2>1 DEF BesideRun
<1>8. b - cand[i] \in {-4, 4}
  <2>1. cand[i] \in Int
    BY <1>3, <1>4 DEF Climbs
  <2>2. b = cand[i] - 4 \/ b = cand[i] + 4
    BY <1>1, <1>2 DEF IsPair, i
  <2>3. QED
    BY <2>1, <2>2
<1>9. PlaceOf(after, cand[i]) # cand[i] \/ b - PlaceOf(after, cand[i]) \in {-4, 4}
  BY <1>8
<1>10. QED
  BY <1>1, <1>2, <1>6, <1>7, <1>8, <1>9 DEF MovedToBar, BAR, b

\* The labels in their places: as many as were kept, each once, in order.
InPlaces(K, after) ==
    /\ Cardinality(Labelled(after)) = Cardinality(K) /\ K \subseteq Range(after)
    /\ \A c, d \in K : c < d => PlaceOf(after, c) < PlaceOf(after, d)

LEMMA PlacesHoldKept ==
    ASSUME NEW D \in SUBSET Int, IsFiniteSet(D), NEW K \in SUBSET D, NEW after, InPlace(after, D, K)
    PROVE  InPlaces(K, after) /\ \A c \in K : PlaceOf(after, c) \in D /\ after[PlaceOf(after, c)] = c
<1> DEFINE L == Labelled(after)
           g == [b \in L |-> after[b]]
<1>1. /\ after \in [D -> K \cup {Unlabelled}] /\ \A c \in K : \E b \in D : after[b] = c
      /\ \A a, b \in D : after[a] # Unlabelled /\ after[b] # Unlabelled /\ a < b => after[a] < after[b]
  BY DEF InPlace
<1>2. L = {b \in D : after[b] # Unlabelled} /\ DOMAIN after = D
  BY <1>1 DEF Labelled
<1>3. \A c \in K : c # Unlabelled /\ c \in Int
  BY UnlabelledAssumption
<1>4. \A c \in K : PlaceOf(after, c) \in D /\ after[PlaceOf(after, c)] = c
  BY <1>1, <1>2 DEF PlaceOf
<1>5. \A b \in L : b \in D /\ after[b] \in K /\ b \in Int
  BY <1>1, <1>2
<1>6. \A c \in K : \E b \in L : after[b] = c
  BY <1>1, <1>2, <1>3
<1>7. \A a, b \in L : after[a] = after[b] => a = b
  <2>1. ASSUME NEW a \in L, NEW b \in L, after[a] = after[b] PROVE a = b
    <3>1. ~ after[a] < after[b] /\ ~ after[b] < after[a]
      <4>1. after[a] \in Int /\ after[b] \in Int
        BY <1>3, <1>5
      <4>2. QED
        BY <2>1, <4>1
    <3>2. ~ a < b /\ ~ b < a
      BY <1>1, <1>2, <1>5, <3>1
    <3>3. QED
      BY <1>5, <3>2
  <2>2. QED
    BY <2>1
<1> HIDE DEF L
<1>8. Cardinality(L) = Cardinality(K)
  <2>1. IsFiniteSet(L)
    BY <1>2, FS_Subset
  <2>2. g \in [L -> K] /\ \A b \in L : g[b] = after[b]
    BY <1>5
  <2> HIDE DEF g
  <2>3. g \in Bijection(L, K)
    BY <1>6, <1>7, <2>2 DEF Bijection, Injection, Surjection, IsInjective
  <2>4. ExistsBijection(L, K)
    BY <2>3 DEF ExistsBijection
  <2>5. QED
    BY <2>1, <2>4, FS_Bijection
<1>9. K \subseteq Range(after)
  BY <1>1, <1>2 DEF Range
<1>10. ASSUME NEW c \in K, NEW d \in K, c < d PROVE PlaceOf(after, c) < PlaceOf(after, d)
  <2> DEFINE x == PlaceOf(after, c)
             y == PlaceOf(after, d)
  <2>1. x \in D /\ y \in D /\ after[x] = c /\ after[y] = d /\ x \in Int /\ y \in Int
    BY <1>4
  <2> HIDE DEF x, y
  <2>2. c \in Int /\ d \in Int /\ c # Unlabelled /\ d # Unlabelled
    BY <1>3
  <2>3. x # y
    BY <1>10, <2>1, <2>2
  <2>4. ~ y < x
    <3>1. ASSUME y < x PROVE FALSE
      <4>1. d < c
        BY <1>1, <2>1, <2>2, <3>1
      <4>2. QED
        BY <1>10, <2>2, <4>1
    <3>2. QED
      BY <3>1
  <2>5. x < y
    BY <2>1, <2>3, <2>4
  <2>6. QED
    BY <2>5 DEF x, y
<1>11. QED
  BY <1>4, <1>8, <1>9, <1>10 DEF InPlaces, L

\* One outcome of the selection.
Keeping(labels, phases) ==
    [b \in DOMAIN labels |-> IF b \in Rejected(candidates_of(labels), phases) THEN Unlabelled ELSE labels[b]]
Outcome(labels, phases, louder) ==
    LET pairs == boundaries(DOMAIN labels, candidates_of(labels), phases)
    IN  [phases |-> phases, kept |-> Keeping(labels, phases),
         after |-> AllRealigned(Keeping(labels, phases), pairs, louder)]

LEMMA SelectionHasOutcomes ==
    ASSUME NEW labels, NEW o \in select_bar_level_downbeats(labels)
    PROVE  \E phases \in Selections(half_bar_runs(candidates_of(labels))) :
              \E louder : o = Outcome(labels, phases, louder)
<1> DEFINE candidates == candidates_of(labels)
           pairs(phases) == boundaries(DOMAIN labels, candidates, phases)
           Result(phases, louder) ==
              [phases |-> phases, kept |-> Keeping(labels, phases),
               after |-> FoldLeft(LAMBDA at, pair : realign_boundary_downbeat(at, pair, louder),
                                  Keeping(labels, phases), pairs(phases))]
           AskedOf(phases) == Range(pairs(phases))
<1>1. select_bar_level_downbeats(labels) =
        UNION {{Result(phases, louder) : louder \in Loudnesses(AskedOf(phases))} :
                 phases \in Selections(half_bar_runs(candidates))}
  BY DEF select_bar_level_downbeats, Keeping
<1>2. \A phases, louder : Result(phases, louder) = Outcome(labels, phases, louder)
  BY DEF Outcome, AllRealigned
<1> HIDE DEF Result, AskedOf, candidates
<1>3. PICK phases \in Selections(half_bar_runs(candidates)) :
         o \in {Result(phases, louder) : louder \in Loudnesses(AskedOf(phases))}
  BY <1>1
<1>4. PICK louder \in Loudnesses(AskedOf(phases)) : o = Result(phases, louder)
  BY <1>3
<1>5. QED
  BY <1>2, <1>3, <1>4 DEF candidates

\* A labelling as the backend leaves it: every labelled beat carries its own label.
Fresh(labels, N) ==
    /\ N \in Nat /\ labels \in [0..N - 1 -> 0..N - 1 \cup {Unlabelled}]
    /\ \A b \in 0..N - 1 : labels[b] \in {b, Unlabelled}
Survives(labels, o) ==
    LET K == Labelled(o.kept)
    IN  /\ InPlaces(K, o.after)
        /\ \A r \in DOMAIN o.phases : BarApart(K, candidates_of(labels), r)
        /\ \A c \in K : PlaceOf(o.after, c) # c => MovedToBar(K, candidates_of(labels), o.phases, o.after, c)

LEMMA SelectionIsKept ==
    ASSUME NEW N, NEW labels, Fresh(labels, N), NEW phases \in Selections(half_bar_runs(candidates_of(labels)))
    PROVE  LET D == DOMAIN labels
               S == Labelled(labels)
               cand == candidates_of(labels)
               n == Cardinality(S)
               K == Labelled(Keeping(labels, phases))
           IN  /\ D = 0..N - 1 /\ D \in SUBSET Int /\ IsFiniteSet(D) /\ K \in SUBSET D
               /\ Marked(D, S, cand, n) /\ Kept(K, S, cand, n, DOMAIN phases, phases)
<1> DEFINE D == DOMAIN labels
           S == Labelled(labels)
           cand == candidates_of(labels)
           n == Cardinality(S)
           kept == Keeping(labels, phases)
           K == Labelled(kept)
           R == DOMAIN phases
<1>1. D = 0..N - 1 /\ D \in SUBSET Int /\ N \in Nat
  BY DEF Fresh
<1>2. IsFiniteSet(D)
  <2>1. 0 \in Int /\ N - 1 \in Int
    BY <1>1
  <2> HIDE DEF D
  <2>2. QED
    BY <1>1, <2>1, FS_Interval
<1>3. Marked(D, S, cand, n)
  BY <1>1, <1>2, CandidatesAreMarked
<1>4. /\ n \in Nat /\ Climbs(cand, n) /\ Len(cand) = n /\ DOMAIN cand = 1..n
  <2> HIDE DEF D, S, cand, n
  <2>1. QED
    BY <1>3 DEF Marked
<1>5. R \in SUBSET half_bar_runs(cand) /\ phases \in [R -> {0, 1}]
  <2> HIDE DEF cand
  <2>1. QED
    BY DEF Selections, cand
<1>6. IsFiniteSet(R)
  <2>1. 1 \in Int /\ n \in Int
    BY <1>4
  <2>2. IsFiniteSet(1..n)
    BY <2>1, FS_Interval
  <2>3. IsFiniteSet((1..n) \X (1..n))
    BY <2>2, FS_Product
  <2>4. R \in SUBSET ((1..n) \X (1..n))
    <3>1. half_bar_runs(cand) \in SUBSET ((1..n) \X (1..n))
      <4> HIDE DEF cand
      <4>1. QED
        BY <1>4 DEF half_bar_runs
    <3>2. QED
      BY <1>5, <3>1
  <2>5. QED
    BY <2>3, <2>4, FS_Subset
<1>7. \A r \in R : IsRun(r, cand, n)
  <2>1. ASSUME NEW r \in R PROVE IsRun(r, cand, n)
    <3>1. r \in half_bar_runs(cand)
      BY <1>5
    <3> HIDE DEF cand, n
    <3>2. QED
      BY <1>4, <3>1, RunsAreRuns
  <2>2. QED
    BY <2>1
<1>8. Chosen(phases, R, cand, n)
  BY <1>5, <1>6, <1>7 DEF Chosen
<1>9. K = S \ Rejected(cand, phases)
  BY DEF Labelled, Keeping
<1>10. K \in SUBSET D
  BY DEF Labelled, Keeping
<1> HIDE DEF K, S, cand, n, R, D
<1>11. Kept(K, S, cand, n, R, phases)
  BY <1>8, <1>9 DEF Kept
<1>12. QED
  BY <1>1, <1>2, <1>3, <1>10, <1>11 DEF K, S, cand, n, R, D, kept

LEMMA OutcomeSurvives ==
    ASSUME NEW N, NEW labels, Fresh(labels, N),
           NEW phases \in Selections(half_bar_runs(candidates_of(labels))), NEW louder
    PROVE  Survives(labels, Outcome(labels, phases, louder))
<1> DEFINE D == DOMAIN labels
           S == Labelled(labels)
           cand == candidates_of(labels)
           n == Cardinality(S)
           kept == Keeping(labels, phases)
           K == Labelled(kept)
           R == DOMAIN phases
           f == boundaries(D, cand, phases)
           after == AllRealigned(kept, f, louder)
           o == Outcome(labels, phases, louder)
<1>1. /\ D = 0..N - 1 /\ D \in SUBSET Int /\ IsFiniteSet(D) /\ K \in SUBSET D
      /\ Marked(D, S, cand, n) /\ Kept(K, S, cand, n, R, phases)
  BY SelectionIsKept
<1>2. o.phases = phases /\ o.kept = kept /\ o.after = after
  BY DEF Outcome
<1>3. \A b \in D : kept[b] \in {b, Unlabelled}
  BY DEF Keeping, Fresh
<1>4. DOMAIN kept = D
  BY DEF Keeping
<1>5. K = {b \in D : kept[b] # Unlabelled}
  BY <1>4 DEF Labelled
<1>6. kept \in [D -> K \cup {Unlabelled}]
  <2>1. kept = [b \in D |-> kept[b]]
    BY DEF Keeping
  <2> HIDE DEF kept, D, K
  <2>2. \A b \in D : kept[b] \in K \cup {Unlabelled}
    BY <1>3, <1>5
  <2>3. QED
    BY <2>1, <2>2
<1> HIDE DEF D, S, cand, n, kept, K, R, f, after, o
<1>7. /\ n \in Nat /\ Climbs(cand, n) /\ Len(cand) = n /\ \A i \in 1..n : cand[i] \in D
      /\ Chosen(phases, R, cand, n)
  BY <1>1 DEF Marked, Kept
<1>8. \A b \in D : \A c \in 0..b : c \in D
  <2>1. N \in Nat
    BY DEF Fresh
  <2>2. QED
    BY <1>1, <2>1
<1>9. f \in Seq(PairsOf) /\ \E run, side : Origins(f, run, side, phases, cand, n, D)
  BY <1>1, <1>7, <1>8, PairsHaveOrigins DEF f
<1>10. PICK run, side : Origins(f, run, side, phases, cand, n, D)
  BY <1>9
<1>11. Setting(D, K, cand, n, R, phases, f, run, side)
  <2>1. \A i \in 1..n : cand[i] \notin K => \E q \in R : q[1] <= i /\ i <= q[2]
    BY <1>1, RejectedIsOfRun
  <2>2. QED
    BY <1>1, <1>7, <1>9, <1>10, <2>1 DEF Setting
<1>12. Stand(kept, 0, D, K, f)
  <2>1. \A c \in K : c \in D /\ kept[c] = c
    BY <1>3, <1>5
  <2>2. \A a, b \in D : kept[a] # Unlabelled /\ kept[b] # Unlabelled /\ a < b => kept[a] < kept[b]
    BY <1>3
  <2>3. InPlace(kept, D, K)
    BY <1>6, <2>1, <2>2 DEF InPlace
  <2>4. QED
    BY <1>3, <2>3 DEF Stand
<1>13. Stand(after, Len(f), D, K, f)
  BY <1>11, <1>12, RealigningStands DEF after
<1>14. InPlace(after, D, K)
  BY <1>13 DEF Stand
<1>15. InPlaces(K, after) /\ \A c \in K : PlaceOf(after, c) \in D /\ after[PlaceOf(after, c)] = c
  <2>1. D \in SUBSET Int /\ IsFiniteSet(D) /\ K \in SUBSET D
    BY <1>1
  <2>2. InPlaces(K, after)
    BY <1>14, <2>1, PlacesHoldKept
  <2>3. \A c \in K : PlaceOf(after, c) \in D /\ after[PlaceOf(after, c)] = c
    BY <1>14, <2>1, PlacesHoldKept
  <2>4. QED
    BY <2>2, <2>3
<1>16. \A r \in R : BarApart(K, cand, r)
  BY <1>1, KeptIsBarApart
<1>17. ASSUME NEW c \in K, PlaceOf(after, c) # c PROVE MovedToBar(K, cand, phases, after, c)
  <2>1. c # Unlabelled
    BY <1>1, UnlabelledAssumption
  <2>2. Brought(PlaceOf(after, c), c, Len(f), f, K)
    BY <1>13, <1>15, <1>17, <2>1 DEF Stand
  <2>3. QED
    BY <1>1, <1>11, <2>2, BroughtToBar
<1>18. Survives(labels, o)
  BY <1>2, <1>15, <1>16, <1>17 DEF Survives, K, cand, R
<1>19. QED
  BY <1>18 DEF o

-----------------------------------------------------------------------------
\* Supplied clocks, and what is decided of windows on them.

\* A clock with one change of period, its grains in a frame before and after it, and the
\* phase it has at the change.
IsClock(c) ==
    /\ c = [pre |-> c.pre, post |-> c.post, boundary |-> c.boundary, anchor |-> c.anchor]
    /\ c.pre \in 2..4 /\ c.post \in 2..4 /\ c.boundary \in Int /\ c.anchor \in Int
Of1(period) == Grain \div period
Crossing(c) == (c.boundary - c.anchor) * Of1(c.pre)

LEMMA GrainOf ==
    ASSUME NEW p \in 2..4
    PROVE  Of1(p) \in Nat \ {0} /\ Grain = p * Of1(p)
<1>1. Grain \in Nat \ {0} /\ Grain % p = 0
  BY GrainAssumption
<1>2. CASE p = 2
  BY <1>1, <1>2 DEF Of1
<1>3. CASE p = 3
  BY <1>1, <1>3 DEF Of1
<1>4. CASE p = 4
  BY <1>1, <1>4 DEF Of1
<1>5. QED
  BY <1>2, <1>3, <1>4

LEMMA GrainShare ==
    ASSUME NEW p \in 2..4, NEW x \in Int
    PROVE  (x * Grain) \div p = x * Of1(p)
<1> DEFINE g == Of1(p)
           q == x * g
           n == x * Grain
<1>1. g \in Nat \ {0} /\ Grain = p * g /\ Grain \in Int
  BY GrainOf, GrainAssumption
<1>2. q \in Int /\ n \in Int /\ n = p * q
  <2> HIDE DEF g
  <2>1. QED
    BY <1>1
<1> HIDE DEF q, n
<1>3. CASE p = 2
  BY <1>2, <1>3 DEF q, n
<1>4. CASE p = 3
  BY <1>2, <1>4 DEF q, n
<1>5. CASE p = 4
  BY <1>2, <1>5 DEF q, n
<1>6. QED
  BY <1>3, <1>4, <1>5

LEMMA GrainIsTwelfths == Grain \in Nat /\ Grain >= 12 /\ Grain % 4 = 0 /\ Grain % 2 = 0
<1>1. Grain \in Nat \ {0} /\ Grain % 2 = 0 /\ Grain % 3 = 0 /\ Grain % 4 = 0
  BY GrainAssumption
<1>2. QED
  BY <1>1

\* Phases and times of a clock, with its quotients taken.
LEMMA PhaseIs ==
    ASSUME NEW c, IsClock(c), NEW t \in Int
    PROVE  phase_at(t, c) = IF t <= c.boundary THEN (t - c.anchor) * Of1(c.pre)
                            ELSE Crossing(c) + (t - c.boundary) * Of1(c.post)
<1>1. c.pre \in 2..4 /\ c.post \in 2..4 /\ t - c.anchor \in Int /\ c.boundary - c.anchor \in Int /\ t - c.boundary \in Int
  BY DEF IsClock
<1>2. /\ ((t - c.anchor) * Grain) \div c.pre = (t - c.anchor) * Of1(c.pre)
      /\ ((c.boundary - c.anchor) * Grain) \div c.pre = (c.boundary - c.anchor) * Of1(c.pre)
      /\ ((t - c.boundary) * Grain) \div c.post = (t - c.boundary) * Of1(c.post)
  BY <1>1, GrainShare
<1>3. QED
  BY <1>2 DEF phase_at, Crossing

LEMMA TimeIs ==
    ASSUME NEW c, IsClock(c), NEW f
    PROVE  time_at(f, c) = IF f <= Crossing(c) THEN c.anchor * Grain + f * c.pre
                           ELSE c.boundary * Grain + (f - Crossing(c)) * c.post
<1>1. c.pre \in 2..4 /\ c.boundary - c.anchor \in Int
  BY DEF IsClock
<1>2. ((c.boundary - c.anchor) * Grain) \div c.pre = Crossing(c)
  BY <1>1, GrainShare DEF Crossing
<1>3. QED
  BY <1>2 DEF time_at

\* What there is to know of a clock's constants: all of it is linear.
ClockFacts(c, p, q, X, A, B) ==
    /\ p \in 2..4 /\ q \in 2..4 /\ X \in Int /\ A \in Int /\ B \in Int /\ A + X * p = B
    /\ \A f : time_at(f, c) = IF f <= X THEN A + f * p ELSE B + (f - X) * q

LEMMA ClockIsLinear ==
    ASSUME NEW c, IsClock(c)
    PROVE  ClockFacts(c, c.pre, c.post, Crossing(c), c.anchor * Grain, c.boundary * Grain)
<1> DEFINE p == c.pre
           g == Of1(p)
           X == Crossing(c)
           A == c.anchor * Grain
           B == c.boundary * Grain
           d == c.boundary - c.anchor
<1>1. p \in 2..4 /\ c.post \in 2..4 /\ c.boundary \in Int /\ c.anchor \in Int /\ d \in Int
  BY DEF IsClock
<1>2. Grain \in Int /\ g \in Int /\ Grain = p * g
  BY <1>1, GrainOf, GrainAssumption
<1>3. X = d * g
  BY DEF Crossing
<1>4. X \in Int /\ A \in Int /\ B \in Int
  <2> HIDE DEF X, g, d
  <2>1. QED
    BY <1>1, <1>2, <1>3
<1>5. A + X * p = B
  <2>1. X * p = d * Grain
    <3> HIDE DEF X, g, d, p
    <3>1. QED
      BY <1>1, <1>2, <1>3
  <2>2. d * Grain = B - A
    BY <1>1, <1>2
  <2> HIDE DEF X, d, A, B
  <2>3. QED
    BY <1>4, <2>1, <2>2
<1>6. \A f : time_at(f, c) = IF f <= X THEN A + f * p ELSE B + (f - X) * c.post
  BY TimeIs
<1> HIDE DEF X, A, B
<1>7. QED
  BY <1>1, <1>4, <1>5, <1>6 DEF ClockFacts, X, A, B

\* Later phases have later times.
LEMMA TimeClimbs ==
    ASSUME NEW c, IsClock(c), NEW f \in Int, NEW h \in Int, f < h
    PROVE  time_at(f, c) \in Int /\ time_at(h, c) \in Int /\ time_at(f, c) < time_at(h, c)
<1> DEFINE p == c.pre
           q == c.post
           X == Crossing(c)
           A == c.anchor * Grain
           B == c.boundary * Grain
<1>1. ClockFacts(c, p, q, X, A, B)
  BY ClockIsLinear
<1> HIDE DEF p, q, X, A, B
<1>2. p \in 2..4 /\ q \in 2..4 /\ X \in Int /\ A \in Int /\ B \in Int /\ A + X * p = B
  BY <1>1 DEF ClockFacts
<1>3. /\ time_at(f, c) = IF f <= X THEN A + f * p ELSE B + (f - X) * q
      /\ time_at(h, c) = IF h <= X THEN A + h * p ELSE B + (h - X) * q
  BY <1>1 DEF ClockFacts
<1>4. f * p < h * p /\ f * p \in Int /\ h * p \in Int
  <2>1. p = 2 \/ p = 3 \/ p = 4
    BY <1>2
  <2>2. QED
    BY <2>1
<1>5. CASE h <= X
  BY <1>2, <1>3, <1>4, <1>5
<1>6. CASE f <= X /\ ~ h <= X
  <2>1. f * p <= X * p /\ X * p \in Int
    <3>1. p = 2 \/ p = 3 \/ p = 4
      BY <1>2
    <3>2. QED
      BY <1>2, <1>6, <3>1
  <2>2. (h - X) * q > 0 /\ (h - X) * q \in Int
    <3>1. q = 2 \/ q = 3 \/ q = 4
      BY <1>2
    <3>2. QED
      BY <1>2, <1>6, <3>1
  <2>3. QED
    BY <1>2, <1>3, <1>4, <1>6, <2>1, <2>2
<1>7. CASE ~ f <= X
  <2>1. (f - X) * q < (h - X) * q /\ (f - X) * q \in Int /\ (h - X) * q \in Int
    <3>1. q = 2 \/ q = 3 \/ q = 4
      BY <1>2
    <3>2. QED
      BY <1>2, <1>7, <3>1
  <2>2. ~ h <= X
    BY <1>2, <1>7
  <2>3. QED
    BY <1>2, <1>3, <1>7, <2>1, <2>2
<1>8. QED
  BY <1>2, <1>5, <1>6, <1>7

LEMMA PhaseIsInt ==
    ASSUME NEW c, IsClock(c), NEW t \in Int
    PROVE  phase_at(t, c) \in Int /\ Crossing(c) \in Int
<1>1. /\ c.pre \in 2..4 /\ c.post \in 2..4 /\ c.boundary - c.anchor \in Int /\ t - c.anchor \in Int
      /\ t - c.boundary \in Int
  BY DEF IsClock
<1>2. Of1(c.pre) \in Int /\ Of1(c.post) \in Int
  BY <1>1, GrainOf
<1>3. Crossing(c) \in Int /\ (t - c.anchor) * Of1(c.pre) \in Int /\ (t - c.boundary) * Of1(c.post) \in Int
  BY <1>1, <1>2 DEF Crossing
<1>4. QED
  BY <1>3, PhaseIs

\* The time of the phase of a time is that time.
LEMMA TimesTurnBack ==
    ASSUME NEW c, IsClock(c), NEW t \in Int
    PROVE  time_at(phase_at(t, c), c) = t * Grain
<1> DEFINE p == c.pre
           q == c.post
           g == Of1(p)
           h == Of1(q)
           b == c.boundary
           a == c.anchor
           X == Crossing(c)
<1>1. p \in 2..4 /\ q \in 2..4 /\ a \in Int /\ b \in Int
  BY DEF IsClock
<1>2. g \in Nat \ {0} /\ Grain = p * g /\ h \in Nat \ {0} /\ Grain = q * h /\ Grain \in Int
  BY <1>1, GrainOf, GrainAssumption
<1>3. X = (b - a) * g
  BY DEF Crossing
<1>4. phase_at(t, c) = IF t <= b THEN (t - a) * g ELSE X + (t - b) * h
  BY PhaseIs
<1>5. \A f : time_at(f, c) = IF f <= X THEN a * Grain + f * p ELSE b * Grain + (f - X) * q
  BY TimeIs
<1> HIDE DEF p, q, g, h, b, a, X
<1>6. CASE t <= b
  <2>1. (t - a) * g <= X
    BY <1>1, <1>2, <1>3, <1>6, Grows
  <2>2. time_at(phase_at(t, c), c) = a * Grain + ((t - a) * g) * p
    BY <1>4, <1>5, <1>6, <2>1
  <2>3. ((t - a) * g) * p = (t - a) * Grain
    BY <1>1, <1>2
  <2>4. a * Grain + (t - a) * Grain = t * Grain
    BY <1>1, <1>2
  <2>5. QED
    BY <2>2, <2>3, <2>4
<1>7. CASE ~ t <= b
  <2> DEFINE e == (t - b) * h
  <2>1. e \in Int /\ e > 0 /\ X \in Int
    <3>1. 1 * h <= (t - b) * h
      BY <1>1, <1>2, <1>7, Grows
    <3>2. QED
      BY <1>1, <1>2, <1>3, <3>1
  <2>2. e * q = (t - b) * Grain
    BY <1>1, <1>2
  <2>3. b * Grain + (t - b) * Grain = t * Grain
    BY <1>1, <1>2
  <2>4. phase_at(t, c) = X + e
    BY <1>4, <1>7
  <2> HIDE DEF e
  <2>5. ~ X + e <= X /\ (X + e) - X = e
    BY <2>1
  <2>6. time_at(X + e, c) = IF X + e <= X THEN a * Grain + (X + e) * p ELSE b * Grain + ((X + e) - X) * q
    BY <1>5
  <2>8. time_at(phase_at(t, c), c) = b * Grain + e * q
    BY <2>4, <2>5, <2>6
  <2>7. QED
    BY <2>2, <2>3, <2>8
<1>8. QED
  BY <1>6, <1>7

\* A clock counted from its beat at 0 instead of the one it names.
Moved(c) == [c EXCEPT !.anchor = 0]
Shift(c) == c.anchor * Of1(c.pre)

LEMMA MovedIsClock ==
    ASSUME NEW c, IsClock(c)
    PROVE  /\ IsClock(Moved(c)) /\ Moved(c).pre = c.pre /\ Moved(c).post = c.post
           /\ Moved(c).boundary = c.boundary /\ Moved(c).anchor = 0
<1>1. c = [pre |-> c.pre, post |-> c.post, boundary |-> c.boundary, anchor |-> c.anchor]
      /\ c.pre \in 2..4 /\ c.post \in 2..4 /\ c.boundary \in Int /\ c.anchor \in Int
  BY DEF IsClock
<1>2. Moved(c) = [pre |-> c.pre, post |-> c.post, boundary |-> c.boundary, anchor |-> 0]
  BY <1>1 DEF Moved
<1> DEFINE m == Moved(c)
<1> HIDE DEF m
<1>3. m = [pre |-> c.pre, post |-> c.post, boundary |-> c.boundary, anchor |-> 0]
  BY <1>2 DEF m
<1>4. m.pre = c.pre /\ m.post = c.post /\ m.boundary = c.boundary /\ m.anchor = 0
  BY <1>3
<1>5. IsClock(m)
  BY <1>1, <1>3, <1>4 DEF IsClock
<1>6. QED
  BY <1>4, <1>5 DEF m

\* Every phase is later by the same amount, and so is the phase of every time.
LEMMA MovedIsShifted ==
    ASSUME NEW c, IsClock(c), NEW t \in Int, NEW f \in Int
    PROVE  /\ Shift(c) \in Int
           /\ phase_at(t, Moved(c)) = phase_at(t, c) + Shift(c)
           /\ time_at(f + Shift(c), Moved(c)) = time_at(f, c)
<1> DEFINE p == c.pre
           q == c.post
           g == Of1(p)
           h == Of1(q)
           b == c.boundary
           a == c.anchor
           m == Moved(c)
           X == Crossing(c)
           Y == Crossing(m)
           d == Shift(c)
<1>1. p \in 2..4 /\ q \in 2..4 /\ a \in Int /\ b \in Int
  BY DEF IsClock
<1>2. g \in Nat \ {0} /\ Grain = p * g /\ h \in Nat \ {0} /\ Grain = q * h /\ Grain \in Int
  BY <1>1, GrainOf, GrainAssumption
<1>3. IsClock(m) /\ m.pre = p /\ m.post = q /\ m.boundary = b /\ m.anchor = 0
  BY MovedIsClock
<1>4. X = (b - a) * g /\ Y = (b - 0) * g /\ d = a * g
  BY <1>3 DEF Crossing, Shift
<1>5. phase_at(t, c) = IF t <= b THEN (t - a) * g ELSE X + (t - b) * h
  BY PhaseIs
<1>6. phase_at(t, m) = IF t <= b THEN (t - 0) * g ELSE Y + (t - b) * h
  <2>1. phase_at(t, m) = IF t <= m.boundary THEN (t - m.anchor) * Of1(m.pre)
                         ELSE Crossing(m) + (t - m.boundary) * Of1(m.post)
    <3> HIDE DEF m
    <3>1. QED
      BY <1>3, PhaseIs
  <2>2. QED
    BY <1>3, <2>1
<1>7. time_at(f, c) = IF f <= X THEN a * Grain + f * p ELSE b * Grain + (f - X) * q
  BY TimeIs
<1>8. time_at(f + d, m) = IF f + d <= Y THEN 0 * Grain + (f + d) * p ELSE b * Grain + ((f + d) - Y) * q
  <2> HIDE DEF d
  <2>1. time_at(f + d, m) = IF f + d <= Crossing(m) THEN m.anchor * Grain + (f + d) * m.pre
                            ELSE m.boundary * Grain + ((f + d) - Crossing(m)) * m.post
    <3> HIDE DEF m
    <3>1. QED
      BY <1>3, TimeIs
  <2>2. QED
    BY <1>3, <2>1
<1> HIDE DEF p, q, g, h, b, a, m, X, Y, d
<1>9. X \in Int /\ Y \in Int /\ d \in Int /\ Y = X + d
  BY <1>1, <1>2, <1>4
<1>10. phase_at(t, m) = phase_at(t, c) + d
  <2> DEFINE u == (t - b) * h
  <2>1. (t - 0) * g = (t - a) * g + d /\ (t - a) * g \in Int
    BY <1>1, <1>2, <1>4
  <2>2. u \in Int
    BY <1>1, <1>2
  <2>3. phase_at(t, c) = (IF t <= b THEN (t - a) * g ELSE X + u) /\ phase_at(t, m) = (IF t <= b THEN (t - 0) * g ELSE Y + u)
    BY <1>5, <1>6
  <2> HIDE DEF u
  <2>4. CASE t <= b
    BY <2>1, <2>3, <2>4
  <2>5. CASE ~ t <= b
    BY <1>9, <2>2, <2>3, <2>5
  <2>6. QED
    BY <2>4, <2>5
<1>11. time_at(f + d, m) = time_at(f, c)
  <2>1. (f + d) * p = f * p + a * Grain
    <3>1. d * p = a * Grain
      BY <1>1, <1>2, <1>4
    <3>2. (f + d) * p = f * p + d * p
      BY <1>1, <1>9
    <3>3. QED
      BY <3>1, <3>2
  <2>2. 0 * Grain + (f + d) * p = a * Grain + f * p
    <3>1. f * p \in Int /\ a * Grain \in Int /\ 0 * Grain = 0
      BY <1>1, <1>2
    <3>2. QED
      BY <2>1, <3>1
  <2>3. (f + d <= Y <=> f <= X) /\ (f + d) - Y = f - X
    BY <1>9
  <2>4. CASE f <= X
    BY <1>7, <1>8, <2>2, <2>3, <2>4
  <2>5. CASE ~ f <= X
    BY <1>7, <1>8, <2>3, <2>5
  <2>6. QED
    BY <2>4, <2>5
<1>12. QED
  BY <1>9, <1>10, <1>11 DEF d, m

LEMMA ShapedIsClock ==
    ASSUME NEW c, IsClock(c), NEW shape
    PROVE  /\ IsClock(Shaped(c, shape)) /\ Moved(Shaped(c, shape)) = Shaped(Moved(c), shape)
           /\ Shaped(c, shape).boundary = c.boundary
<1>1. c = [pre |-> c.pre, post |-> c.post, boundary |-> c.boundary, anchor |-> c.anchor]
      /\ c.pre \in 2..4 /\ c.post \in 2..4 /\ c.boundary \in Int /\ c.anchor \in Int
  BY DEF IsClock
<1>2. CASE shape = "constant"
  <2> DEFINE s == [pre |-> c.pre, post |-> c.pre, boundary |-> c.boundary, anchor |-> c.anchor]
  <2>1. Shaped(c, shape) = s /\ Shaped(Moved(c), shape) = Moved(s)
    <3>1. Shaped(c, shape) = s
      BY <1>1, <1>2 DEF Shaped
    <3>2. Moved(c) = [pre |-> c.pre, post |-> c.post, boundary |-> c.boundary, anchor |-> 0]
      BY <1>1 DEF Moved
    <3>3. Shaped(Moved(c), shape) = [pre |-> c.pre, post |-> c.pre, boundary |-> c.boundary, anchor |-> 0]
      <4> DEFINE m == Moved(c)
      <4>1. m.pre = c.pre /\ m = [pre |-> c.pre, post |-> c.post, boundary |-> c.boundary, anchor |-> 0]
        BY <3>2
      <4> HIDE DEF m
      <4>2. Shaped(m, shape) = [pre |-> c.pre, post |-> c.pre, boundary |-> c.boundary, anchor |-> 0]
        BY <1>2, <4>1 DEF Shaped
      <4>3. QED
        BY <4>2 DEF m
    <3>4. Moved(s) = [pre |-> c.pre, post |-> c.pre, boundary |-> c.boundary, anchor |-> 0]
      BY DEF Moved
    <3>5. QED
      BY <3>1, <3>3, <3>4
  <2>2. IsClock(s)
    BY <1>1 DEF IsClock
  <2>3. s.boundary = c.boundary
    OBVIOUS
  <2> HIDE DEF s
  <2>4. QED
    BY <2>1, <2>2, <2>3
<1>3. CASE shape # "constant"
  BY <1>3 DEF Shaped
<1>4. QED
  BY <1>2, <1>3

\* How far back a recurrence is looked for: at least a quarter of a cycle, twice for the whole.
Cycles(name) == (Grain * SCALES[name[2]]) \div 2
LEMMA LagsAreApart ==
    ASSUME NEW name \in NAMES
    PROVE  Cycles(name) \in Int /\ Cycles(name) \div 2 \in Int /\ 0 < Cycles(name) \div 2 /\ Cycles(name) \div 2 < Cycles(name)
<1>1. Grain \in Nat /\ Grain >= 12
  BY GrainIsTwelfths
<1>2. name[2] \in {"native", "half_zero", "half_one", "double"}
  BY DEF NAMES, SCALES
<1>3. SCALES[name[2]] \in {1, 2, 4}
  BY <1>2 DEF SCALES
<1> DEFINE s == SCALES[name[2]]
<1> HIDE DEF s
<1>4. s \in {1, 2, 4}
  BY <1>3 DEF s
<1>5. CASE s = 1
  <2>1. Cycles(name) = Grain \div 2
    BY <1>1, <1>5 DEF Cycles, s
  <2>2. QED
    BY <1>1, <2>1
<1>6. CASE s = 2
  <2>1. Cycles(name) = Grain
    BY <1>1, <1>6 DEF Cycles, s
  <2>2. QED
    BY <1>1, <2>1
<1>7. CASE s = 4
  <2>1. Cycles(name) = 2 * Grain
    BY <1>1, <1>7 DEF Cycles, s
  <2>2. QED
    BY <1>1, <2>1
<1>8. QED
  BY <1>4, <1>5, <1>6, <1>7

\* Where a recurrence is looked for does not depend on the beat the phase is counted from.
LEMMA BackStands ==
    ASSUME NEW c, IsClock(c), NEW name \in NAMES, NEW t \in Int
    PROVE  Back(name, t, Moved(c)) = Back(name, t, c)
<1> DEFINE own == Shaped(c, name[1])
           lag == Cycles(name)
           f == phase_at(t, own)
           d == Shift(own)
<1>1. IsClock(own) /\ Moved(own) = Shaped(Moved(c), name[1])
  BY ShapedIsClock
<1>2. lag \in Int /\ lag \div 2 \in Int
  BY LagsAreApart
<1>3. f \in Int
  <2> HIDE DEF own
  <2>1. QED
    BY <1>1, PhaseIsInt
<1>4. d \in Int /\ phase_at(t, Moved(own)) = f + d
  <2> HIDE DEF own
  <2>1. QED
    BY <1>1, MovedIsShifted
<1>5. ASSUME NEW back \in Int PROVE time_at((f + d) - back, Moved(own)) = time_at(f - back, own)
  <2>1. f - back \in Int
    BY <1>3
  <2>2. time_at((f - back) + d, Moved(own)) = time_at(f - back, own)
    <3> HIDE DEF own, f
    <3>1. QED
      BY <1>1, <2>1, MovedIsShifted
  <2>3. (f - back) + d = (f + d) - back
    BY <1>3, <1>4
  <2>4. QED
    BY <2>2, <2>3
<1>6. Back(name, t, c) = <<time_at(f - lag, own), time_at(f - lag \div 2, own)>>
  BY DEF Back, Cycles
<1>7. Back(name, t, Moved(c)) = <<time_at(phase_at(t, Moved(own)) - lag, Moved(own)),
                                  time_at(phase_at(t, Moved(own)) - lag \div 2, Moved(own))>>
  <2>1. Back(name, t, Moved(c)) = <<time_at(phase_at(t, Shaped(Moved(c), name[1])) - lag, Shaped(Moved(c), name[1])),
                                    time_at(phase_at(t, Shaped(Moved(c), name[1])) - lag \div 2, Shaped(Moved(c), name[1]))>>
    BY DEF Back, Cycles
  <2> HIDE DEF lag, own, f, d
  <2>2. QED
    BY <1>1, <2>1
<1> HIDE DEF own, lag, f, d
<1>8. QED
  BY <1>2, <1>4, <1>5, <1>6, <1>7

LEMMA PlanStands ==
    ASSUME NEW c, IsClock(c)
    PROVE  query_plan(Moved(c)) = query_plan(c)
<1> DEFINE Q(k) == [name \in NAMES |-> [t \in 0..FRAMES - 1 |-> Back(name, t, k)]]
           Inside(x) == 0 <= x /\ x <= (FRAMES - 1) * Grain
           T(q) == {t \in 0..FRAMES - 1 : \A name \in NAMES : Inside(q[name][t][1]) /\ Inside(q[name][t][2])}
<1>1. ASSUME NEW k PROVE query_plan(k) = [queries |-> Q(k), targets |-> T(Q(k))]
  BY DEF query_plan
<1>2. Q(Moved(c)) = Q(c)
  <2>1. ASSUME NEW name \in NAMES, NEW t \in 0..FRAMES - 1 PROVE Back(name, t, Moved(c)) = Back(name, t, c)
    BY FramesAssumption, BackStands
  <2>2. QED
    BY <2>1
<1> HIDE DEF Q, T
<1>3. QED
  BY <1>1, <1>2

\* The window, of its plan and of the place of its change.
Judged(plan, boundary, silent, owner) ==
    LET Wanted(name, t) == {sample(plan.queries[name][t][k]) : k \in 1..2}
        Zero(frames) == frames \subseteq silent
        Crosses(name, t) ==
            \E q \in {plan.queries[name][t][1], plan.queries[name][t][2]} :
                owner[q \div Grain] # owner[t] \/ owner[-((-q) \div Grain)] # owner[t]
    IN  [status |->
           IF plan.targets = {} THEN "no_common_support"
           ELSE IF \E t \in plan.targets : Zero({t}) \/ \E name \in NAMES : \E f \in Wanted(name, t) : Zero(f)
           THEN "zero_norm_support" ELSE "eligible",
         excluded |-> FRAMES - Cardinality(plan.targets),
         before |-> Cardinality({t \in plan.targets : t < boundary}),
         after |-> Cardinality({t \in plan.targets : t >= boundary}),
         crossings |-> [name \in NAMES |-> Cardinality({t \in plan.targets : Crosses(name, t)})]]

LEMMA WindowStands ==
    ASSUME NEW c, IsClock(c), NEW silent, NEW owner
    PROVE  evaluate(silent, owner, Moved(c)) = evaluate(silent, owner, c)
<1>1. ASSUME NEW k PROVE evaluate(silent, owner, k) = Judged(query_plan(k), k.boundary, silent, owner)
  BY Zenon DEF evaluate, Judged
<1>2. query_plan(Moved(c)) = query_plan(c) /\ Moved(c).boundary = c.boundary
  BY PlanStands, MovedIsClock
<1>3. QED
  BY <1>1, <1>2

\* A recurrence is looked for before the frame, and for a whole cycle before half of it.
LEMMA BackIsBefore ==
    ASSUME NEW c, IsClock(c), NEW name \in NAMES, NEW t \in Int
    PROVE  /\ Back(name, t, c)[1] \in Int /\ Back(name, t, c)[2] \in Int
           /\ Back(name, t, c)[1] < Back(name, t, c)[2] /\ Back(name, t, c)[2] < t * Grain
<1> DEFINE own == Shaped(c, name[1])
           lag == Cycles(name)
           f == phase_at(t, own)
<1>1. IsClock(own)
  BY ShapedIsClock
<1>2. lag \in Int /\ lag \div 2 \in Int /\ 0 < lag \div 2 /\ lag \div 2 < lag
  BY LagsAreApart
<1>3. Back(name, t, c) = <<time_at(f - lag, own), time_at(f - lag \div 2, own)>>
  BY DEF Back, Cycles
<1> HIDE DEF own, lag
<1>4. f \in Int /\ time_at(f, own) = t * Grain
  BY <1>1, PhaseIsInt, TimesTurnBack
<1> HIDE DEF f
<1> DEFINE early == f - lag
           late == f - lag \div 2
<1>5. early \in Int /\ late \in Int /\ early < late /\ late < f
  BY <1>2, <1>4
<1>6. Back(name, t, c) = <<time_at(early, own), time_at(late, own)>>
  BY <1>3
<1> HIDE DEF early, late
<1>7. /\ time_at(early, own) \in Int /\ time_at(late, own) \in Int
      /\ time_at(early, own) < time_at(late, own) /\ time_at(late, own) < time_at(f, own)
  BY <1>1, <1>4, <1>5, TimeClimbs
<1>8. Back(name, t, c)[1] = time_at(early, own) /\ Back(name, t, c)[2] = time_at(late, own)
  BY <1>6
<1>9. QED
  BY <1>4, <1>7, <1>8

\* A number below one rounded up is below it, and rounding up leaves less than one to go.
LEMMA RoundsUp ==
    ASSUME NEW n \in Int, NEW d \in Nat \ {0}
    PROVE  /\ -((-n) \div d) \in Int
           /\ n <= -((-n) \div d) * d /\ (-((-n) \div d) - 1) * d < n
<1> DEFINE m == -n
           w == m \div d
<1>1. m \in Int
  OBVIOUS
<1> HIDE DEF m
<1>2. w \in Int /\ w * d <= m /\ m < w * d + d
  BY <1>1, Quotient
<1> HIDE DEF w
<1>3. (-w) * d = -(w * d) /\ (-w - 1) * d = -(w * d) - d /\ w * d \in Int
  BY <1>2
<1>4. n = -m
  BY DEF m
<1> DEFINE e == w * d
<1>5. e \in Int /\ e <= m /\ m < e + d /\ (-w) * d = -e /\ (-w - 1) * d = -e - d
  BY <1>2, <1>3
<1> HIDE DEF e
<1>6. -w \in Int /\ n <= (-w) * d /\ (-w - 1) * d < n
  BY <1>1, <1>2, <1>4, <1>5
<1>7. QED
  BY <1>6 DEF w, m

LEMMA Multiplies ==
    ASSUME NEW a \in Int, NEW b \in Int, NEW d \in Nat \ {0}
    PROVE  /\ a * d \in Int /\ b * d \in Int
           /\ a < b => a * d < b * d
           /\ a * d < b * d => a < b
           /\ a * d <= b * d => a <= b
<1>1. ASSUME NEW x \in Int, NEW y \in Int, x < y PROVE x * d \in Int /\ y * d \in Int /\ x * d < y * d
  <2>1. x + 1 \in Int /\ x + 1 <= y
    BY <1>1
  <2>2. (x + 1) * d <= y * d
    BY <2>1, Grows
  <2>3. (x + 1) * d = x * d + d /\ x * d \in Int /\ y * d \in Int
    BY Successor
  <2>4. QED
    BY <2>2, <2>3
<1>2. a * d \in Int /\ b * d \in Int
  OBVIOUS
<1>3. a < b \/ a = b \/ b < a
  OBVIOUS
<1> DEFINE u == a * d
           v == b * d
<1>4. (a < b => u < v) /\ (b < a => v < u) /\ (a = b => u = v)
  BY <1>1
<1>5. u \in Int /\ v \in Int
  BY <1>2
<1> HIDE DEF u, v
<1>6. (u < v => a < b) /\ (u <= v => a <= b)
  BY <1>3, <1>4, <1>5
<1>7. QED
  BY <1>2, <1>4, <1>6 DEF u, v

\* The ticks of a clock are in what they are asked for.
LEMMA TicksAreInside ==
    ASSUME NEW c, IsClock(c), c.anchor <= c.boundary, NEW scale2 \in {1, 2, 4},
           clock(c, c.anchor, FRAMES, scale2, 0) # TooMany,
           NEW tick \in clock(c, c.anchor, FRAMES, scale2, 0)
    PROVE  tick >= 0 /\ tick < (FRAMES - c.anchor) * Grain
<1> DEFINE a == c.anchor
           P == phase_at(FRAMES, c)
           n == 2 * P
           d == scale2 * Grain
           least == -((-(2 * (phase_at(a, c) - 0 * Grain))) \div d)
           most == -((-(2 * (P - 0 * Grain))) \div d)
<1>1. Grain \in Nat \ {0} /\ d \in Nat \ {0} /\ a \in Int /\ FRAMES \in Int
  BY GrainAssumption, FramesAssumption DEF IsClock
<1>2. P \in Int /\ time_at(P, c) = FRAMES * Grain
  BY <1>1, PhaseIsInt, TimesTurnBack
<1>3. phase_at(a, c) = 0
  <2>1. phase_at(a, c) = (a - a) * Of1(c.pre)
    BY <1>1, PhaseIs
  <2>2. Of1(c.pre) \in Int
    BY GrainOf DEF IsClock
  <2>3. QED
    BY <1>1, <2>1, <2>2
<1>4. time_at(0, c) = a * Grain
  BY <1>1, <1>3, TimesTurnBack
<1>5. PICK k \in least..most - 1 : tick = time_at(0 * Grain + (k * scale2 * Grain) \div 2, c) - a * Grain
  BY DEF clock
<1>6. least = 0
  <2>1. 2 * (phase_at(a, c) - 0 * Grain) = 0
    BY <1>1, <1>3
  <2>2. least = -((-0) \div d)
    BY <2>1
  <2> HIDE DEF d
  <2>3. (-0) \div d = 0
    BY <1>1, QuotientIs
  <2> HIDE DEF least
  <2>4. QED
    BY <2>2, <2>3
<1>7. n \in Int /\ 2 * (P - 0 * Grain) = n
  BY <1>1, <1>2
<1>8. most = -((-n) \div d)
  BY <1>7
<1> HIDE DEF P, n, d, least, most
<1>9. most \in Int /\ (most - 1) * d < n
  BY <1>1, <1>7, <1>8, RoundsUp
<1>10. k \in Int /\ 0 <= k /\ k <= most - 1 /\ most - 1 \in Int
  BY <1>5, <1>6, <1>9
<1>11. k * d <= (most - 1) * d /\ k * d \in Int /\ (most - 1) * d \in Int /\ 0 <= k * d
  <2>1. 0 * d <= k * d
    BY <1>1, <1>10, Grows
  <2>2. QED
    BY <1>1, <1>10, <2>1, Grows
<1> DEFINE kd == k * d
           f == kd \div 2
<1>12. kd \in Int /\ 0 <= kd /\ kd < n
  <2> DEFINE md == (most - 1) * d
  <2>1. kd \in Int /\ 0 <= kd /\ kd <= md /\ md \in Int /\ md < n
    BY <1>9, <1>11
  <2> HIDE DEF kd, md
  <2>2. QED
    BY <1>7, <2>1
<1>13. k * scale2 * Grain = kd
  BY <1>1, <1>10 DEF d
<1> HIDE DEF kd
<1>14. f \in Int /\ 0 <= f /\ f < P
  BY <1>2, <1>7, <1>12 DEF n
<1>15. 0 * Grain + (k * scale2 * Grain) \div 2 = f
  <2>1. (k * scale2 * Grain) \div 2 = f
    BY <1>13
  <2> HIDE DEF f
  <2>2. 0 * Grain = 0
    BY <1>1
  <2>3. QED
    BY <1>14, <2>1, <2>2
<1>16. tick = time_at(f, c) - a * Grain
  BY <1>5, <1>15
<1> HIDE DEF f
<1> DEFINE x == time_at(f, c)
           A == a * Grain
           Z == FRAMES * Grain
<1>17. x \in Int /\ x < Z
  BY <1>2, <1>14, TimeClimbs
<1>18. A <= x
  <2>1. CASE f = 0
    BY <1>4, <1>17, <2>1
  <2>2. CASE 0 < f
    <3>1. time_at(0, c) < x /\ time_at(0, c) \in Int
      BY <1>14, <2>2, TimeClimbs
    <3> HIDE DEF x
    <3>2. QED
      BY <1>4, <1>17, <3>1
  <2>3. QED
    BY <1>14, <2>1, <2>2
<1>19. A \in Int /\ Z \in Int /\ (FRAMES - a) * Grain = Z - A
  BY <1>1
<1>20. tick = x - A
  BY <1>16
<1> HIDE DEF x, A, Z
<1>21. tick >= 0 /\ tick < Z - A
  BY <1>17, <1>18, <1>19, <1>20
<1>22. QED
  BY <1>19, <1>21 DEF a

\* A query of a frame that another chunk computed is of a frame after the seam, and before it.
LEMMA CrossesTheSeam ==
    ASSUME NEW seam \in Int, NEW t \in 0..FRAMES - 1, NEW q \in Int,
           0 <= q, q < t * Grain,
           NEW owner, owner = [u \in 0..FRAMES - 1 |-> IF u < seam THEN 0 ELSE 1],
           owner[q \div Grain] # owner[t] \/ owner[-((-q) \div Grain)] # owner[t]
    PROVE  t >= seam /\ q < seam * Grain
<1> DEFINE lo == q \div Grain
           hi == -((-q) \div Grain)
<1>1. Grain \in Nat \ {0} /\ FRAMES \in Nat /\ t \in Int
  BY GrainAssumption, FramesAssumption
<1>2. lo \in Int /\ lo * Grain <= q /\ q < lo * Grain + Grain
  BY <1>1, Quotient
<1>3. hi \in Int /\ q <= hi * Grain /\ (hi - 1) * Grain < q
  BY <1>1, RoundsUp
<1>4. owner[lo] # owner[t] \/ owner[hi] # owner[t]
  OBVIOUS
<1> HIDE DEF lo, hi
<1>5. t * Grain \in Int /\ lo * Grain \in Int /\ hi * Grain \in Int /\ (hi - 1) * Grain \in Int /\ seam * Grain \in Int
  BY <1>1, <1>2, <1>3
<1>6. 0 <= lo /\ lo < t
  <2>1. lo * Grain < t * Grain
    BY <1>2, <1>5
  <2>2. lo < t
    BY <1>1, <1>2, <2>1, Multiplies
  <2>3. lo + 1 \in Int /\ (lo + 1) * Grain = lo * Grain + Grain
    BY <1>1, <1>2, Successor
  <2>4. 0 * Grain < (lo + 1) * Grain
    BY <1>1, <1>2, <1>5, <2>3
  <2>5. 0 < lo + 1
    BY <1>1, <2>3, <2>4, Multiplies
  <2>6. QED
    BY <1>2, <2>2, <2>5
<1>7. 0 <= hi /\ hi <= t
  <2>1. (hi - 1) * Grain < t * Grain /\ hi - 1 \in Int
    BY <1>3, <1>5
  <2>2. hi - 1 < t
    BY <1>1, <2>1, Multiplies
  <2>3. 0 * Grain <= hi * Grain
    BY <1>1, <1>3, <1>5
  <2>4. 0 <= hi
    BY <1>1, <1>3, <2>3, Multiplies
  <2>5. QED
    BY <1>1, <1>3, <2>2, <2>4
<1>8. ASSUME NEW x \in Int, 0 <= x, x <= t, owner[x] # owner[t] PROVE t >= seam /\ x < seam
  <2>1. x \in 0..FRAMES - 1 /\ t \in 0..FRAMES - 1
    BY <1>1, <1>8
  <2>2. owner[x] = (IF x < seam THEN 0 ELSE 1) /\ owner[t] = (IF t < seam THEN 0 ELSE 1)
    BY <2>1
  <2>3. QED
    BY <1>1, <1>8, <2>2
<1>9. CASE owner[lo] # owner[t]
  <2>1. t >= seam /\ lo < seam
    BY <1>1, <1>2, <1>6, <1>8, <1>9
  <2>2. lo + 1 \in Int /\ (lo + 1) * Grain = lo * Grain + Grain /\ lo + 1 <= seam
    BY <1>1, <1>2, <2>1, Successor
  <2>3. (lo + 1) * Grain <= seam * Grain
    BY <1>1, <2>2, Grows
  <2> DEFINE x == (lo + 1) * Grain
             y == seam * Grain
  <2>4. q < x /\ x <= y /\ x \in Int /\ y \in Int
    BY <1>1, <1>2, <1>5, <2>2, <2>3
  <2> HIDE DEF x, y
  <2>5. q < y
    BY <2>4
  <2>6. QED
    BY <2>1, <2>5 DEF y
<1>10. CASE owner[hi] # owner[t]
  <2>1. t >= seam /\ hi < seam
    BY <1>3, <1>7, <1>8, <1>10
  <2>2. hi * Grain < seam * Grain
    BY <1>1, <1>3, <2>1, Multiplies
  <2>3. QED
    BY <1>3, <1>5, <2>1, <2>2
<1>11. QED
  BY <1>4, <1>9, <1>10

Evaluated(p) == [plan |-> query_plan(p.clock), window |-> evaluate(p.silent, Owner(p), p.clock)]
PairOf(p) == [role \in {"constant", "change"} |-> Window(p, role)]
Exchanged(p) == [constant |-> Window(p, "change"), change |-> Window(p, "constant")]
Decided(p) == [given |-> verdict(PairOf(p)), swapped |-> verdict(Exchanged(p))]

\* What is compared at a frame of the plan is before the frame and in the window.
LEMMA TargetsAreInside ==
    ASSUME NEW c, IsClock(c), NEW t \in query_plan(c).targets, NEW name \in NAMES, NEW k \in 1..2
    PROVE  /\ t \in 0..FRAMES - 1 /\ query_plan(c).queries[name][t] = Back(name, t, c)
           /\ Back(name, t, c)[k] \in Int /\ 0 <= Back(name, t, c)[k]
           /\ Back(name, t, c)[1] < Back(name, t, c)[2] /\ Back(name, t, c)[2] < t * Grain
<1> DEFINE Q == [n \in NAMES |-> [u \in 0..FRAMES - 1 |-> Back(n, u, c)]]
           Inside(x) == 0 <= x /\ x <= (FRAMES - 1) * Grain
           T == {u \in 0..FRAMES - 1 : \A n \in NAMES : Inside(Q[n][u][1]) /\ Inside(Q[n][u][2])}
<1>1. query_plan(c) = [queries |-> Q, targets |-> T]
  BY DEF query_plan
<1>2. query_plan(c).queries = Q /\ query_plan(c).targets = T
  <2> HIDE DEF Q, T
  <2>1. QED
    BY <1>1
<1>3. t \in 0..FRAMES - 1 /\ Inside(Q[name][t][1]) /\ Inside(Q[name][t][2])
  BY <1>2
<1>4. Q[name][t] = Back(name, t, c)
  BY <1>3
<1> HIDE DEF Q
<1>5. t \in Int
  BY <1>3, FramesAssumption
<1>6. /\ Back(name, t, c)[1] \in Int /\ Back(name, t, c)[2] \in Int
      /\ Back(name, t, c)[1] < Back(name, t, c)[2] /\ Back(name, t, c)[2] < t * Grain
  BY <1>5, BackIsBefore
<1>7. 0 <= Back(name, t, c)[1] /\ 0 <= Back(name, t, c)[2]
  BY <1>3, <1>4
<1>8. k = 1 \/ k = 2
  OBVIOUS
<1>9. Back(name, t, c)[k] \in Int /\ 0 <= Back(name, t, c)[k]
  BY <1>6, <1>7, <1>8
<1>10. QED
  BY <1>2, <1>3, <1>4, <1>6, <1>9

\* No more comparisons are counted as crossing the seam than there are frames behind it with
\* a query before it.
LEMMA CrossingsAreFar ==
    ASSUME NEW c, IsClock(c), NEW seam \in Int, NEW silent, NEW owner,
           owner = [u \in 0..FRAMES - 1 |-> IF u < seam THEN 0 ELSE 1], NEW name \in NAMES
    PROVE  evaluate(silent, owner, c).crossings[name]
             <= Cardinality({t \in query_plan(c).targets : t >= seam /\
                               \E n \in NAMES, k \in 1..2 : query_plan(c).queries[n][t][k] < seam * Grain})
<1> DEFINE plan == query_plan(c)
           Crosses(n, t) ==
               \E q \in {plan.queries[n][t][1], plan.queries[n][t][2]} :
                   owner[q \div Grain] # owner[t] \/ owner[-((-q) \div Grain)] # owner[t]
           S == {t \in plan.targets : Crosses(name, t)}
           F == {t \in plan.targets : t >= seam /\ \E n \in NAMES, k \in 1..2 : plan.queries[n][t][k] < seam * Grain}
<1>1. evaluate(silent, owner, c).crossings[name] = Cardinality(S)
  BY DEF evaluate
<1>2. ASSUME NEW t \in plan.targets, Crosses(name, t) PROVE t \in F
  <2>1. PICK k \in 1..2 : \/ owner[plan.queries[name][t][k] \div Grain] # owner[t]
                          \/ owner[-((-plan.queries[name][t][k]) \div Grain)] # owner[t]
    <3> HIDE DEF plan
    <3>1. QED
      BY <1>2
  <2> DEFINE q == plan.queries[name][t][k]
  <2>2. /\ t \in 0..FRAMES - 1 /\ q = Back(name, t, c)[k] /\ q \in Int /\ 0 <= q
        /\ Back(name, t, c)[1] < Back(name, t, c)[2] /\ Back(name, t, c)[2] < t * Grain
        /\ Back(name, t, c)[1] \in Int /\ Back(name, t, c)[2] \in Int
    <3>1. /\ t \in 0..FRAMES - 1 /\ plan.queries[name][t] = Back(name, t, c)
          /\ Back(name, t, c)[k] \in Int /\ 0 <= Back(name, t, c)[k]
          /\ Back(name, t, c)[1] < Back(name, t, c)[2] /\ Back(name, t, c)[2] < t * Grain
      BY TargetsAreInside
    <3>2. Back(name, t, c)[1] \in Int /\ Back(name, t, c)[2] \in Int
      BY TargetsAreInside
    <3>3. QED
      BY <3>1, <3>2
  <2>3. owner[q \div Grain] # owner[t] \/ owner[-((-q) \div Grain)] # owner[t]
    BY <2>1
  <2> HIDE DEF q
  <2>4. t * Grain \in Int
    BY <2>2, FramesAssumption, GrainAssumption
  <2>5. q < t * Grain
    <3>1. CASE k = 1
      BY <2>2, <2>4, <3>1
    <3>2. CASE k = 2
      BY <2>2, <2>4, <3>2
    <3>3. QED
      BY <3>1, <3>2
  <2>6. t >= seam /\ q < seam * Grain
    BY <2>2, <2>3, <2>5, CrossesTheSeam
  <2> HIDE DEF plan
  <2>7. QED
    BY <2>6 DEF q
<1>3. S \subseteq F
  <2> HIDE DEF F, Crosses
  <2>1. QED
    BY <1>2
<1>4. IsFiniteSet(F) /\ F \subseteq 0..FRAMES - 1
  <2>1. plan.targets \subseteq 0..FRAMES - 1
    BY DEF query_plan
  <2>2. 0 \in Int /\ FRAMES - 1 \in Int
    BY FramesAssumption
  <2>3. IsFiniteSet(0..FRAMES - 1)
    BY <2>2, FS_Interval
  <2>4. F \subseteq 0..FRAMES - 1
    BY <2>1
  <2>5. QED
    BY <2>3, <2>4, FS_Subset
<1> HIDE DEF S, F
<1>5. Cardinality(S) <= Cardinality(F)
  BY <1>3, <1>4, FS_Subset
<1>6. QED
  BY <1>1, <1>5 DEF F, plan

\* A window with nothing silent at its frames, where it is said to be eligible.
LEMMA EligibleIsHeard ==
    ASSUME NEW c, NEW silent, NEW owner, evaluate(silent, owner, c).status = "eligible"
    PROVE  query_plan(c).targets \cap silent = {}
<1> DEFINE plan == query_plan(c)
           Zero(frames) == frames \subseteq silent
           Wanted(name, t) == {sample(plan.queries[name][t][k]) : k \in 1..2}
           Bad == \E t \in plan.targets : Zero({t}) \/ \E name \in NAMES : \E f \in Wanted(name, t) : Zero(f)
<1>1. evaluate(silent, owner, c).status =
        IF plan.targets = {} THEN "no_common_support" ELSE IF Bad THEN "zero_norm_support" ELSE "eligible"
  BY DEF evaluate
<1>2. plan.targets = {} \/ ~Bad
  <2> HIDE DEF Bad, plan
  <2>1. QED
    BY <1>1
<1>3. ASSUME NEW t \in plan.targets, t \in silent PROVE FALSE
  <2>1. Zero({t})
    BY <1>3
  <2>2. Bad
    BY <1>3, <2>1
  <2>3. QED
    BY <1>2, <1>3, <2>2
<1> HIDE DEF plan
<1>4. QED
  BY <1>3 DEF plan

\* A verdict supports a shape only of eligible windows that each their own clock wins.
CN == <<"constant", "native">>
SN == <<"step", "native">>
LEMMA ShapeIsWon ==
    ASSUME NEW w, DOMAIN w["constant"] = {1}
    PROVE  /\ verdict(w).density => verdict(w).shape
           /\ verdict(w).shape =>
                /\ w["constant"][1].status = "eligible" /\ w["change"][1].status = "eligible"
                /\ w["constant"][1].scores[CN] - w["constant"][1].scores[SN] > MARGIN
                /\ w["change"][1].scores[SN] - w["change"][1].scores[CN] > MARGIN
<1> DEFINE Correct(role) == <<IF role = "constant" THEN "constant" ELSE "step", "native">>
           Rival(role) == <<IF role = "constant" THEN "step" ELSE "constant", "native">>
           WinsOver(role, i, name) == compare(w[role][i].scores[Correct(role)], w[role][i].scores[name]) = "left"
           Shape(i) == \A role \in {"constant", "change"} : WinsOver(role, i, Rival(role))
           Density(i) == \A role \in {"constant", "change"} : \A name \in NAMES \ {Correct(role)} : WinsOver(role, i, name)
           Refused == \E role \in {"constant", "change"}, i \in {1} : w[role][i].status # "eligible"
<1>1. verdict(w) = IF Refused THEN [status |-> "pair_rejected", shape |-> FALSE, density |-> FALSE]
                   ELSE [status |-> "eligible", shape |-> \A i \in {1} : Shape(i), density |-> \A i \in {1} : Density(i)]
  BY DEF verdict
<1>2. ASSUME Density(1) PROVE Shape(1)
  <2>1. ASSUME NEW role \in {"constant", "change"} PROVE Rival(role) \in NAMES \ {Correct(role)}
    <3>1. role = "constant" \/ role = "change"
      BY <2>1
    <3>2. <<"step", "native">> \in NAMES /\ <<"constant", "native">> \in NAMES
      BY DEF NAMES, SHAPES, SCALES
    <3>3. QED
      BY <3>1, <3>2
  <2> HIDE DEF WinsOver, Rival, Correct
  <2>2. QED
    BY <1>2, <2>1
<1>3. ASSUME NEW x, NEW y PROVE compare(x, y) = "left" => x - y > MARGIN
  BY DEF compare
<1>4. ASSUME Shape(1)
      PROVE  /\ w["constant"][1].scores[CN] - w["constant"][1].scores[SN] > MARGIN
             /\ w["change"][1].scores[SN] - w["change"][1].scores[CN] > MARGIN
  <2>1. /\ compare(w["constant"][1].scores[CN], w["constant"][1].scores[SN]) = "left"
        /\ compare(w["change"][1].scores[SN], w["change"][1].scores[CN]) = "left"
    BY <1>4 DEF CN, SN
  <2>2. QED
    BY <1>3, <2>1
<1> DEFINE d == \A i \in {1} : Density(i)
           s == \A i \in {1} : Shape(i)
<1>5. d => s
  <2> HIDE DEF Density, Shape
  <2>1. QED
    BY <1>2
<1>6. s => Shape(1)
  <2> HIDE DEF Shape
  <2>1. QED
    OBVIOUS
<1>7. ~Refused => w["constant"][1].status = "eligible" /\ w["change"][1].status = "eligible"
  OBVIOUS
<1>8. verdict(w) = IF Refused THEN [status |-> "pair_rejected", shape |-> FALSE, density |-> FALSE]
                   ELSE [status |-> "eligible", shape |-> s, density |-> d]
  BY <1>1
<1> HIDE DEF Refused, s, d, Shape
<1>9. verdict(w).density => ~Refused /\ d
  BY <1>8
<1>10. verdict(w).shape => ~Refused /\ s
  BY <1>8
<1>11. ~Refused /\ s => verdict(w).shape
  BY <1>8
<1>12. QED
  BY <1>4, <1>5, <1>6, <1>7, <1>9, <1>10, <1>11

LEMMA VerdictIsFair ==
    ASSUME NEW p \in Windowed
    PROVE  /\ Decided(p).given.density => Decided(p).given.shape
           /\ ~(Decided(p).given.shape /\ Decided(p).swapped.shape)
           /\ p.status # "eligible" => ~Decided(p).given.shape /\ ~Decided(p).swapped.shape
<1> DEFINE w == PairOf(p)
           x == Exchanged(p)
<1>1. /\ w["constant"] = Window(p, "constant") /\ w["change"] = Window(p, "change")
      /\ x["constant"] = Window(p, "change") /\ x["change"] = Window(p, "constant")
  BY DEF PairOf, Exchanged
<1>2. Decided(p).given = verdict(w) /\ Decided(p).swapped = verdict(x)
  BY DEF Decided
<1> HIDE DEF w, x
<1>3. DOMAIN Window(p, "constant") = {1} /\ DOMAIN Window(p, "change") = {1}
  BY DEF Window
<1>4. /\ CN \in NAMES /\ SN \in NAMES /\ CN \in Native /\ SN \in Native
  BY DEF CN, SN, NAMES, SHAPES, SCALES, Native
<1>5. Window(p, "change")[1].status = p.status
  BY DEF Window
<1>6. /\ Window(p, "change")[1].scores[SN] = p["change"][SN]
      /\ Window(p, "change")[1].scores[CN] = p["change"][CN]
  BY <1>4 DEF Window
<1>7. p["change"][SN] \in Int /\ p["change"][CN] \in Int
  <2>1. p.change \in [Native -> Scored]
    BY DEF Windowed
  <2>2. QED
    BY <1>4, <2>1, ScoresAssumption
<1>8. /\ verdict(w).density => verdict(w).shape
      /\ verdict(w).shape =>
           w["change"][1].status = "eligible" /\ w["change"][1].scores[SN] - w["change"][1].scores[CN] > MARGIN
  BY <1>1, <1>3, ShapeIsWon
<1>9. verdict(x).shape =>
        x["constant"][1].status = "eligible" /\ x["constant"][1].scores[CN] - x["constant"][1].scores[SN] > MARGIN
  BY <1>1, <1>3, ShapeIsWon
<1>10. verdict(w).shape => p.status = "eligible" /\ p["change"][SN] - p["change"][CN] > MARGIN
  BY <1>1, <1>5, <1>6, <1>8
<1>11. verdict(x).shape => p.status = "eligible" /\ p["change"][CN] - p["change"][SN] > MARGIN
  BY <1>1, <1>5, <1>6, <1>9
<1>12. ~(p["change"][CN] - p["change"][SN] > MARGIN /\ p["change"][SN] - p["change"][CN] > MARGIN)
  BY <1>7, MarginAssumption
<1>13. QED
  BY <1>2, <1>8, <1>10, <1>11, <1>12

-----------------------------------------------------------------------------
\* Measurements, and the gates over them.

\* The running count of what is missing.
Grown(v, p) == Append(v, v[Len(v)] + (IF p THEN 0 ELSE 1))
CountsTo(v, n, present) ==
    /\ v \in Seq(Int) /\ Len(v) = n + 1
    /\ \A i \in 1..n : v[i + 1] = v[i] + (IF present[i] THEN 0 ELSE 1)

LEMMA GrownCounts ==
    ASSUME NEW n \in Nat, NEW v, NEW present, CountsTo(v, n, present)
    PROVE  CountsTo(Grown(v, present[n + 1]), n + 1, present)
<1> DEFINE e == v[Len(v)] + (IF present[n + 1] THEN 0 ELSE 1)
           w == Append(v, e)
<1>1. v \in Seq(Int) /\ Len(v) = n + 1 /\ \A i \in 1..n : v[i + 1] = v[i] + (IF present[i] THEN 0 ELSE 1)
  BY DEF CountsTo
<1>2. Len(v) \in 1..Len(v) /\ n + 1 \in Nat
  BY <1>1
<1>3. v[Len(v)] \in Int
  BY <1>1, <1>2, ElementOfSeq
<1>4. e \in Int /\ e = v[n + 1] + (IF present[n + 1] THEN 0 ELSE 1)
  BY <1>1, <1>3
<1> HIDE DEF e
<1>5. /\ w \in Seq(Int) /\ Len(w) = n + 2 /\ w[n + 2] = e
      /\ \A i \in 1..n + 1 : w[i] = v[i]
  <2>1. w \in Seq(Int) /\ Len(w) = Len(v) + 1 /\ (\A i \in 1..Len(v) : w[i] = v[i]) /\ w[Len(v) + 1] = e
    BY <1>1, <1>4, AppendProperties
  <2> HIDE DEF w
  <2>2. QED
    BY <1>1, <2>1
<1> HIDE DEF w
<1>6. ASSUME NEW i \in 1..n + 1 PROVE w[i + 1] = w[i] + (IF present[i] THEN 0 ELSE 1)
  <2>1. CASE i = n + 1
    <3>1. i + 1 = n + 2
      BY <2>1
    <3>2. w[i + 1] = e /\ w[i] = v[n + 1]
      BY <1>5, <2>1, <3>1
    <3>3. QED
      BY <1>4, <2>1, <3>2
  <2>2. CASE i # n + 1
    <3>1. i \in 1..n /\ i + 1 \in 1..n + 1 /\ i \in 1..n + 1
      BY <2>2
    <3>2. w[i + 1] = v[i + 1] /\ w[i] = v[i]
      BY <1>5, <3>1
    <3>3. QED
      BY <1>1, <3>1, <3>2
  <2>3. QED
    BY <2>1, <2>2
<1>7. CountsTo(w, n + 1, present)
  <2>1. n + 2 = (n + 1) + 1
    OBVIOUS
  <2>2. QED
    BY <1>5, <1>6, <2>1 DEF CountsTo
<1>8. QED
  BY <1>7 DEF w, e, Grown

LEMMA MissingCounts ==
    ASSUME NEW n \in Nat, NEW present \in [1..n -> BOOLEAN]
    PROVE  CountsTo(Missing(present), n, present)
<1> DEFINE N == n
           V == {v \in Seq(Int) : v # <<>>}
           step == [x \in (1..N) \X V |-> Grown(x[2], present[x[1]])]
           Go(v, k) == Grown(v, present[k])
           base == <<0>>
           One(g) == g = [s \in SUBSET (1..N) |-> IF s = {} THEN base ELSE Go(g[s \ {Max(s)}], Max(s))]
           chosen == CHOOSE g : One(g)
<1>1. N \in Nat /\ DOMAIN present = 1..N
  OBVIOUS
<1>2. Missing(present) = chosen[1..N]
  BY <1>1 DEF Missing, FoldLeft, MapThenFoldSet, Grown
<1>3. \A k \in 1..N, v \in V : step[<<k, v>>] = Go(v, k)
  <2>1. ASSUME NEW k \in 1..N, NEW v \in V PROVE step[<<k, v>>] = Go(v, k)
    <3>1. <<k, v>> \in (1..N) \X V
      OBVIOUS
    <3> HIDE DEF V
    <3>2. QED
      BY <3>1
  <2>2. QED
    BY <2>1
<1>4. \A k \in 1..N, v \in V : Go(v, k) \in V
  <2>1. ASSUME NEW k \in 1..N, NEW v \in V PROVE Go(v, k) \in V
    <3>1. v \in Seq(Int) /\ v # <<>>
      OBVIOUS
    <3>2. Len(v) \in 1..Len(v)
      BY <3>1, EmptySeq, LenProperties
    <3>3. v[Len(v)] \in Int
      BY <3>1, <3>2, ElementOfSeq
    <3> DEFINE e == v[Len(v)] + (IF present[k] THEN 0 ELSE 1)
    <3>4. e \in Int
      BY <3>3
    <3> HIDE DEF e
    <3>5. Append(v, e) \in Seq(Int) /\ Append(v, e) # <<>>
      BY <3>1, <3>4, AppendProperties
    <3>6. Go(v, k) = Append(v, e)
      BY DEF e, Grown
    <3>7. QED
      BY <3>5, <3>6
  <2>2. QED
    BY <2>1
<1>5. base \in V
  OBVIOUS
<1> HIDE DEF V, step, Go, base
<1>6. Closed(N, V, step)
  BY <1>3, <1>4 DEF Closed
<1>7. PICK g \in [SUBSET (1..N) -> V] : FoldsUp(g, N, base, step)
  <2> HIDE DEF N
  <2>1. QED
    BY <1>1, <1>5, <1>6, SomethingUnfolds
<1>8. One(g)
  <2>1. ASSUME NEW s \in SUBSET (1..N), s # {}
        PROVE  step[<<Max(s), g[s \ {Max(s)}]>>] = Go(g[s \ {Max(s)}], Max(s))
    <3>1. Max(s) \in 1..N
      BY <1>1, <2>1, GreatestOf
    <3>2. QED
      BY <1>3, <3>1
  <2>2. \A s \in SUBSET (1..N) : g[s] = IF s = {} THEN base ELSE Go(g[s \ {Max(s)}], Max(s))
    BY <1>7, <2>1 DEF FoldsUp
  <2>3. QED
    BY <2>2
<1>9. One(chosen)
  <2> HIDE DEF One
  <2>1. QED
    BY <1>8
<1>10. Unfolds(chosen, N, V, base, step)
  <2>1. ASSUME NEW s \in SUBSET (1..N), s # {}, chosen[s \ {Max(s)}] \in V
        PROVE  chosen[s] = step[<<Max(s), chosen[s \ {Max(s)}]>>]
    <3>1. Max(s) \in 1..N
      BY <1>1, <2>1, GreatestOf
    <3> HIDE DEF chosen
    <3>2. chosen[s] = Go(chosen[s \ {Max(s)}], Max(s))
      BY <1>9, <2>1
    <3>3. QED
      BY <1>3, <2>1, <3>1, <3>2
  <2>2. ASSUME NEW s \in SUBSET (1..N), s = {} PROVE chosen[s] = base
    <3> HIDE DEF chosen
    <3>1. QED
      BY <1>9, <2>2
  <2> HIDE DEF chosen
  <2>3. QED
    BY <2>1, <2>2 DEF Unfolds
<1>11. PICK at : Runs(at, N, V, base, step) /\ at[N] = chosen[1..N]
  <2> HIDE DEF chosen, N
  <2>1. QED
    BY <1>1, <1>5, <1>6, <1>10, UnfoldingRuns
<1>12. at[0] = base /\ \A k \in 1..N : at[k] = Grown(at[k - 1], present[k])
  <2>1. at \in [0..N -> V] /\ at[0] = base
    BY <1>11 DEF Runs
  <2>2. ASSUME NEW k \in 1..N PROVE at[k] = Grown(at[k - 1], present[k])
    <3>1. k - 1 \in 0..N
      BY <1>1
    <3>2. at[k - 1] \in V
      BY <2>1, <3>1
    <3>3. at[k] = step[<<k, at[k - 1]>>]
      BY <1>11 DEF Runs
    <3>4. QED
      BY <1>3, <3>2, <3>3 DEF Go
  <2>3. QED
    BY <2>1, <2>2
<1> HIDE DEF chosen
<1> DEFINE Bad == {k \in 0..N : ~ CountsTo(at[k], k, present)}
<1>13. ASSUME Bad # {} PROVE FALSE
  <2>1. Bad \subseteq Nat
    OBVIOUS
  <2>2. PICK k \in Bad : \A m \in Bad : k <= m
    <3> HIDE DEF Bad
    <3>1. QED
      BY <1>13, <2>1, LeastOf
  <2>3. CountsTo(at[0], 0, present)
    BY <1>12 DEF CountsTo, base
  <2>4. k \in 1..N /\ k - 1 \in 0..N /\ k - 1 \in Nat /\ k - 1 < k
    BY <2>2, <2>3
  <2>5. CountsTo(at[k - 1], k - 1, present)
    <3>1. k - 1 \notin Bad
      <4> HIDE DEF Bad
      <4>1. QED
        BY <2>1, <2>2, <2>4
    <3>2. QED
      BY <2>4, <3>1
  <2>6. (k - 1) + 1 = k
    BY <2>4
  <2>7. CountsTo(at[k], k, present)
    <3> DEFINE j == k - 1
               v == at[j]
    <3>1. j \in Nat /\ j + 1 = k /\ CountsTo(v, j, present)
      BY <2>4, <2>5, <2>6
    <3>2. at[k] = Grown(v, present[k])
      BY <1>12, <2>4
    <3> HIDE DEF j, v, Bad
    <3>3. CountsTo(Grown(v, present[j + 1]), j + 1, present)
      BY <3>1, GrownCounts
    <3>4. QED
      BY <3>1, <3>2, <3>3
  <2>8. QED
    BY <2>2, <2>7
<1>14. CountsTo(at[N], N, present)
  BY <1>1, <1>13
<1>15. QED
  BY <1>2, <1>11, <1>14

\* Nothing is missing between two places exactly when everything there is present.
LEMMA NothingMissing ==
    ASSUME NEW n \in Nat, NEW present \in [1..n -> BOOLEAN], NEW v, CountsTo(v, n, present),
           NEW a \in 1..n + 1, NEW b \in 1..n + 1, a <= b
    PROVE  v[b] - v[a] = 0 <=> \A k \in a..b - 1 : present[k]
<1>1. /\ \A i \in 1..n + 1 : v[i] \in Int
      /\ \A i \in 1..n : v[i + 1] = v[i] + (IF present[i] THEN 0 ELSE 1)
  BY ElementOfSeq DEF CountsTo
<1> DEFINE Right(c) == v[c] - v[a] >= 0 /\ (v[c] - v[a] = 0 <=> \A k \in a..c - 1 : present[k])
           Bad == {c \in a..n + 1 : ~ Right(c)}
<1>2. ASSUME Bad # {} PROVE FALSE
  <2>1. Bad \subseteq Nat
    OBVIOUS
  <2>2. PICK c \in Bad : \A m \in Bad : c <= m
    <3> HIDE DEF Bad
    <3>1. QED
      BY <1>2, <2>1, LeastOf
  <2>3. Right(a)
    BY <1>1
  <2>4. c \in a..n + 1 /\ c # a
    BY <2>2, <2>3
  <2> DEFINE d == c - 1
  <2>5. d \in a..n + 1 /\ d < c /\ c = d + 1 /\ d \in 1..n
    BY <2>4
  <2> HIDE DEF d
  <2>6. Right(d)
    <3>1. d \notin Bad
      <4> HIDE DEF Bad
      <4>1. QED
        BY <2>1, <2>2, <2>5
    <3>2. QED
      BY <2>5, <3>1
  <2>7. v[c] = v[d] + (IF present[d] THEN 0 ELSE 1) /\ v[d] \in Int /\ v[a] \in Int
    BY <1>1, <2>5
  <2>8. a..c - 1 = (a..d - 1) \cup {d}
    BY <2>5
  <2>9. (\A k \in a..c - 1 : present[k]) <=> (\A k \in a..d - 1 : present[k]) /\ present[d]
    BY <2>8
  <2>10. Right(c)
    <3>1. CASE present[d]
      BY <2>6, <2>7, <2>9, <3>1
    <3>2. CASE ~present[d]
      BY <2>6, <2>7, <2>9, <3>2
    <3>3. QED
      BY <3>1, <3>2
  <2>11. QED
    BY <2>2, <2>10
<1>3. b \in a..n + 1
  OBVIOUS
<1>4. Right(b)
  BY <1>2, <1>3
<1>5. QED
  BY <1>4

\* An interval of a recording is there when all of its points are.
LEMMA IntervalsAreWhole ==
    ASSUME NEW n \in Nat, NEW valid \in [1..n -> BOOLEAN], NEW lag \in Nat
    PROVE  /\ DOMAIN intervals(valid, lag) = 1..n - lag
           /\ \A i \in 1..n - lag : intervals(valid, lag)[i] <=> \A k \in i..i + lag : valid[k]
<1> DEFINE m == Missing(valid)
<1>1. CountsTo(m, n, valid)
  BY MissingCounts
<1>2. Len(valid) = n
  OBVIOUS
<1>3. intervals(valid, lag) = [i \in 1..n - lag |-> m[i + lag + 1] - m[i] = 0]
  BY <1>2 DEF intervals
<1> HIDE DEF m
<1>4. ASSUME NEW i \in 1..n - lag PROVE m[i + lag + 1] - m[i] = 0 <=> \A k \in i..i + lag : valid[k]
  <2> DEFINE b == i + lag + 1
  <2>1. i \in 1..n + 1 /\ b \in 1..n + 1 /\ i <= b /\ b - 1 = i + lag
    OBVIOUS
  <2> HIDE DEF b
  <2>2. m[b] - m[i] = 0 <=> \A k \in i..b - 1 : valid[k]
    BY <1>1, <2>1, NothingMissing
  <2>3. QED
    BY <2>1, <2>2 DEF b
<1>5. QED
  BY <1>3, <1>4

\* Sums of what is there are numbers, so none of them is taken for a missing one.
SizesOver(a, S) == Total(LAMBDA i : Size(a[i]), S)
LEMMA SizesAreNumbers ==
    ASSUME NEW S, IsFiniteSet(S), NEW a, \A i \in S : a[i] \in Int
    PROVE  SizesOver(a, S) \in Int
<1> DEFINE f == [i \in S |-> Size(a[i])]
           One(g) == g = [s \in SUBSET S |-> IF s = {} THEN 0 ELSE Size(a[Taken(s)]) + g[s \ {Taken(s)}]]
           sum == CHOOSE g : One(g)
<1>1. SizesOver(a, S) = sum[S]
  BY DEF SizesOver, Total, MapThenSumSet, MapThenFoldSet, Taken
<1>2. Numbers(f, S) /\ \A i \in S : f[i] = Size(a[i])
  BY DEF Numbers, Size
<1>3. PICK e \in [SUBSET S -> Int] : Adds(f, S, e)
  BY <1>2, SumsAdd
<1>4. \A s \in SUBSET S : s # {} => Taken(s) \in S
  BY DEF Taken
<1>5. ASSUME NEW g PROVE One(g) <=> Adds(f, S, g)
  <2>1. \A s \in SUBSET S : s # {} => Size(a[Taken(s)]) = f[Taken(s)]
    BY <1>2, <1>4
  <2> HIDE DEF f
  <2>2. [s \in SUBSET S |-> IF s = {} THEN 0 ELSE Size(a[Taken(s)]) + g[s \ {Taken(s)}]]
        = [s \in SUBSET S |-> IF s = {} THEN 0 ELSE f[Taken(s)] + g[s \ {Taken(s)}]]
    BY <2>1
  <2>3. QED
    BY <2>2 DEF Adds
<1> HIDE DEF One, f
<1>6. Adds(f, S, sum)
  BY <1>3, <1>5
<1> HIDE DEF sum
<1>7. sum[S] = e[S]
  BY <1>3, <1>6, SumsAreOne
<1>8. QED
  BY <1>1, <1>7

Filled(rate, there, j) == IF there[j] THEN rate[j] ELSE 0
FilledOver(rate, there, S) == Total(LAMBDA j : Filled(rate, there, j), S)
LEMMA FilledIsNumber ==
    ASSUME NEW S, IsFiniteSet(S), NEW rate, NEW there, \A j \in S : Filled(rate, there, j) \in Int
    PROVE  FilledOver(rate, there, S) \in Int
<1> DEFINE f == [j \in S |-> Filled(rate, there, j)]
           One(g) == g = [s \in SUBSET S |-> IF s = {} THEN 0 ELSE Filled(rate, there, Taken(s)) + g[s \ {Taken(s)}]]
           sum == CHOOSE g : One(g)
<1>1. FilledOver(rate, there, S) = sum[S]
  BY DEF FilledOver, Total, MapThenSumSet, MapThenFoldSet, Taken
<1>2. Numbers(f, S) /\ \A j \in S : f[j] = Filled(rate, there, j)
  BY DEF Numbers
<1>3. PICK e \in [SUBSET S -> Int] : Adds(f, S, e)
  BY <1>2, SumsAdd
<1>4. \A s \in SUBSET S : s # {} => Taken(s) \in S
  BY DEF Taken
<1>5. ASSUME NEW g PROVE One(g) <=> Adds(f, S, g)
  <2>1. \A s \in SUBSET S : s # {} => Filled(rate, there, Taken(s)) = f[Taken(s)]
    BY <1>2, <1>4
  <2> HIDE DEF f
  <2>2. [s \in SUBSET S |-> IF s = {} THEN 0 ELSE Filled(rate, there, Taken(s)) + g[s \ {Taken(s)}]]
        = [s \in SUBSET S |-> IF s = {} THEN 0 ELSE f[Taken(s)] + g[s \ {Taken(s)}]]
    BY <2>1
  <2>3. QED
    BY <2>2 DEF Adds
<1> HIDE DEF One, f
<1>6. Adds(f, S, sum)
  BY <1>3, <1>5
<1> HIDE DEF sum
<1>7. sum[S] = e[S]
  BY <1>3, <1>6, SumsAreOne
<1>8. QED
  BY <1>1, <1>7

Drifted(rate, there, lag, i) == Size(FilledOver(rate, there, i..i + lag - 1))
DriftsOver(rate, there, lag, S) == Total(LAMBDA i : Drifted(rate, there, lag, i), S)
LEMMA DriftsAreNumbers ==
    ASSUME NEW S, IsFiniteSet(S), NEW rate, NEW there, NEW lag, \A i \in S : Drifted(rate, there, lag, i) \in Int
    PROVE  DriftsOver(rate, there, lag, S) \in Int
<1> DEFINE f == [i \in S |-> Drifted(rate, there, lag, i)]
           One(g) == g = [s \in SUBSET S |-> IF s = {} THEN 0 ELSE Drifted(rate, there, lag, Taken(s)) + g[s \ {Taken(s)}]]
           sum == CHOOSE g : One(g)
<1>1. DriftsOver(rate, there, lag, S) = sum[S]
  BY DEF DriftsOver, Total, MapThenSumSet, MapThenFoldSet, Taken
<1>2. Numbers(f, S) /\ \A i \in S : f[i] = Drifted(rate, there, lag, i)
  BY DEF Numbers
<1>3. PICK e \in [SUBSET S -> Int] : Adds(f, S, e)
  BY <1>2, SumsAdd
<1>4. \A s \in SUBSET S : s # {} => Taken(s) \in S
  BY DEF Taken
<1>5. ASSUME NEW g PROVE One(g) <=> Adds(f, S, g)
  <2>1. \A s \in SUBSET S : s # {} => Drifted(rate, there, lag, Taken(s)) = f[Taken(s)]
    BY <1>2, <1>4
  <2> HIDE DEF f
  <2>2. [s \in SUBSET S |-> IF s = {} THEN 0 ELSE Drifted(rate, there, lag, Taken(s)) + g[s \ {Taken(s)}]]
        = [s \in SUBSET S |-> IF s = {} THEN 0 ELSE f[Taken(s)] + g[s \ {Taken(s)}]]
    BY <2>1
  <2>3. QED
    BY <2>2 DEF Adds
<1> HIDE DEF One, f
<1>6. Adds(f, S, sum)
  BY <1>3, <1>5
<1> HIDE DEF sum
<1>7. sum[S] = e[S]
  BY <1>3, <1>6, SumsAreOne
<1>8. QED
  BY <1>1, <1>7

\* What a measurement of a recording of n points has, and when.
MeasuredWell(out, rate, phases, valid, n) ==
    LET Throughout(i, j) == \A k \in i..j : valid[k]
        cells == {i \in 1..n - 1 : Throughout(i, i + 1)}
        points == {i \in 1..n : valid[i]}
        spans == {i \in 1..n - Lag : Throughout(i, i + Lag)}
        Known(S) == \A i \in S : rate[i] # Absent
    IN  /\ out.reference_intervals = Cardinality(spans)
        /\ out.tempo # Absent <=> cells # {} /\ Known(cells)
        /\ out.phase # Absent <=> points # {} /\ \A i \in points : phases[i] # Absent
        /\ out.count # Absent <=> spans # {} /\ Known(UNION {i..i + Lag - 1 : i \in spans})

Errors == Int \cup {Absent}
LEMMA MeasureIsComplete ==
    ASSUME NEW n \in Nat \ {0}, NEW fields, fields.rate \in [1..n - 1 -> Errors],
           fields.phase \in [1..n -> Errors], NEW valid \in [1..n -> BOOLEAN]
    PROVE  MeasuredWell(measure(fields, valid), fields.rate, fields.phase, valid, n)
<1> DEFINE rate == fields.rate
           phases == fields.phase
           there == [i \in 1..n - 1 |-> rate[i] # Absent]
           m == Missing(there)
           available == [i \in 1..n - Lag |-> m[i + Lag] - m[i] = 0]
           cells == {i \in DOMAIN intervals(valid, 1) : intervals(valid, 1)[i]}
           spans == {i \in DOMAIN intervals(valid, Lag) : intervals(valid, Lag)[i]}
           points == {i \in 1..n : valid[i]}
           Tempos == SizesOver(rate, cells)
           Phase == SizesOver(phases, points)
           Count == DriftsOver(rate, there, Lag, spans)
           out == measure(fields, valid)
<1>1. Lag \in Nat \ {0} /\ Absent \notin Int
  BY LagAssumption, AbsentAssumption
<1>2. /\ out.reference_intervals = Cardinality(spans)
      /\ out.tempo = IF cells # {} /\ \A i \in cells : there[i] THEN Tempos ELSE Absent
      /\ out.phase = IF points # {} /\ \A i \in points : phases[i] # Absent THEN Phase ELSE Absent
      /\ out.count = IF spans # {} /\ \A i \in spans : available[i] THEN Count ELSE Absent
  <2>1. DOMAIN rate = 1..n - 1 /\ DOMAIN valid = 1..n /\ Len(valid) = n
    OBVIOUS
  <2>2. out = [reference_points |-> Cardinality(points), reference_cells |-> Cardinality(cells),
               reference_intervals |-> Cardinality(spans),
               tempo |-> IF cells # {} /\ \A i \in cells : there[i] THEN Tempos ELSE Absent,
               phase |-> IF points # {} /\ \A i \in points : phases[i] # Absent THEN Phase ELSE Absent,
               count |-> IF spans # {} /\ \A i \in spans : available[i] THEN Count ELSE Absent]
    BY <2>1 DEF measure, Drifted, Filled, FilledOver, SizesOver, DriftsOver, Total, MapThenSumSet, MapThenFoldSet
  <2> HIDE DEF out, cells, spans, points, Tempos, Phase, Count, there, available
  <2>3. QED
    BY <2>2
<1>3. /\ cells = {i \in 1..n - 1 : \A k \in i..i + 1 : valid[k]}
      /\ spans = {i \in 1..n - Lag : \A k \in i..i + Lag : valid[k]}
  <2>1. 1 \in Nat /\ n \in Nat /\ Lag \in Nat
    BY <1>1
  <2>2. /\ DOMAIN intervals(valid, 1) = 1..n - 1
        /\ \A i \in 1..n - 1 : intervals(valid, 1)[i] <=> \A k \in i..i + 1 : valid[k]
    BY <2>1, IntervalsAreWhole
  <2>3. /\ DOMAIN intervals(valid, Lag) = 1..n - Lag
        /\ \A i \in 1..n - Lag : intervals(valid, Lag)[i] <=> \A k \in i..i + Lag : valid[k]
    BY <2>1, IntervalsAreWhole
  <2>4. cells = {i \in 1..n - 1 : \A k \in i..i + 1 : valid[k]}
    BY <2>2
  <2>5. spans = {i \in 1..n - Lag : \A k \in i..i + Lag : valid[k]}
    BY <2>3
  <2>6. QED
    BY <2>4, <2>5
<1>4. there \in [1..n - 1 -> BOOLEAN] /\ n - 1 \in Nat
  OBVIOUS
<1>5. CountsTo(m, n - 1, there)
  <2> HIDE DEF there
  <2>1. QED
    BY <1>4, MissingCounts
<1>6. ASSUME NEW i \in spans
      PROVE  i \in 1..n - Lag /\ (available[i] <=> \A k \in i..i + Lag - 1 : rate[k] # Absent)
  <2>1. i \in 1..n - Lag
    BY <1>3
  <2> DEFINE b == i + Lag
             p == n - 1
  <2>2. i \in 1..p + 1 /\ b \in 1..p + 1 /\ i <= b /\ b - 1 = i + Lag - 1 /\ p \in Nat
    BY <1>1, <2>1
  <2> HIDE DEF b
  <2>3. m[b] - m[i] = 0 <=> \A k \in i..b - 1 : there[k]
    <3> HIDE DEF m, there, p
    <3>1. QED
      BY <1>4, <1>5, <2>2, NothingMissing DEF p
  <2>4. \A k \in i..b - 1 : k \in 1..n - 1
    BY <1>1, <2>1, <2>2
  <2>5. (\A k \in i..b - 1 : there[k]) <=> (\A k \in i..i + Lag - 1 : rate[k] # Absent)
    BY <2>2, <2>4
  <2>6. available[i] <=> m[b] - m[i] = 0
    BY <2>1 DEF b
  <2>7. QED
    BY <2>1, <2>3, <2>5, <2>6
<1>7. IsFiniteSet(cells) /\ IsFiniteSet(spans) /\ IsFiniteSet(points)
  <2>1. cells \subseteq 1..n /\ spans \subseteq 1..n /\ points \subseteq 1..n
    BY <1>1, <1>3
  <2>2. 1 \in Int /\ n \in Int
    OBVIOUS
  <2>3. IsFiniteSet(1..n)
    BY <2>2, FS_Interval
  <2> HIDE DEF cells, spans, points
  <2>4. QED
    BY <2>1, <2>3, FS_Subset
<1>8. (\A i \in cells : there[i]) <=> (\A i \in cells : rate[i] # Absent)
  BY <1>3
<1>9. ASSUME \A i \in cells : there[i] PROVE Tempos # Absent
  <2>1. \A i \in cells : rate[i] \in Int
    <3>1. \A i \in cells : i \in 1..n - 1
      BY <1>3
    <3>2. \A i \in 1..n - 1 : rate[i] \in Int \cup {Absent}
      BY DEF Errors
    <3> HIDE DEF cells, rate
    <3>3. QED
      BY <1>9, <3>1, <3>2
  <2> HIDE DEF cells, rate
  <2>2. Tempos \in Int
    BY <1>7, <2>1, SizesAreNumbers
  <2>3. QED
    BY <1>1, <2>2
<1>10. ASSUME \A i \in points : phases[i] # Absent PROVE Phase # Absent
  <2>1. \A i \in points : phases[i] \in Int
    <3>1. \A i \in points : i \in 1..n
      OBVIOUS
    <3>2. \A i \in 1..n : phases[i] \in Int \cup {Absent}
      BY DEF Errors
    <3> HIDE DEF points, phases
    <3>3. QED
      BY <1>10, <3>1, <3>2
  <2> HIDE DEF points, phases
  <2>2. Phase \in Int
    BY <1>7, <2>1, SizesAreNumbers
  <2>3. QED
    BY <1>1, <2>2
<1>11. ASSUME \A i \in spans : available[i] PROVE Count # Absent
  <2>1. ASSUME NEW i \in spans PROVE Drifted(rate, there, Lag, i) \in Int
    <3>1. i \in 1..n - Lag /\ \A k \in i..i + Lag - 1 : rate[k] # Absent
      BY <1>6, <1>11
    <3> DEFINE J == i..i + Lag - 1
    <3>2. \A j \in J : Filled(rate, there, j) \in Int
      <4>1. \A j \in J : j \in 1..n - 1 /\ rate[j] # Absent
        BY <1>1, <3>1
      <4>2. \A j \in 1..n - 1 : rate[j] \in Int \cup {Absent}
        BY DEF Errors
      <4> HIDE DEF J, there, rate
      <4>3. QED
        BY <4>1, <4>2 DEF Filled
    <3>3. i \in Int /\ i + Lag - 1 \in Int
      BY <1>1, <3>1
    <3>4. IsFiniteSet(J)
      BY <3>3, FS_Interval
    <3> HIDE DEF J, there, rate
    <3>5. FilledOver(rate, there, J) \in Int
      BY <3>2, <3>4, FilledIsNumber
    <3>6. QED
      BY <3>5 DEF Drifted, Size, J
  <2> HIDE DEF spans, there, rate
  <2>2. Count \in Int
    BY <1>7, <2>1, DriftsAreNumbers
  <2>3. QED
    BY <1>1, <2>2
<1>12. (\A i \in spans : available[i]) <=> (\A k \in UNION {i..i + Lag - 1 : i \in spans} : rate[k] # Absent)
  <2> HIDE DEF spans, available
  <2>1. QED
    BY <1>6
<1> HIDE DEF out, cells, spans, points, Tempos, Phase, Count, there, available
<1>13. /\ out.reference_intervals = Cardinality(spans)
       /\ out.tempo # Absent <=> cells # {} /\ \A i \in cells : rate[i] # Absent
       /\ out.phase # Absent <=> points # {} /\ \A i \in points : phases[i] # Absent
       /\ out.count # Absent <=> spans # {} /\ \A k \in UNION {i..i + Lag - 1 : i \in spans} : rate[k] # Absent
  BY <1>2, <1>8, <1>9, <1>10, <1>11, <1>12
<1>14. points = {i \in 1..n : valid[i]}
  BY DEF points
<1>15. MeasuredWell(out, rate, phases, valid, n)
  BY <1>3, <1>13, <1>14 DEF MeasuredWell
<1>16. QED
  BY <1>15 DEF out

\* A mean says that all of it is there, and then it is their sum.
CellsOver(rows, own, kind, key) == Total(LAMBDA i : rows[i][kind][key], own)
Column(rows, own, kind, key) == [i \in own |-> rows[i][kind][key]]
LEMMA CellsAreSummed ==
    ASSUME NEW rows, NEW own, IsFiniteSet(own), NEW kind, NEW key, \A i \in own : rows[i][kind][key] \in Int
    PROVE  /\ CellsOver(rows, own, kind, key) = SumOver(Column(rows, own, kind, key), own)
           /\ Numbers(Column(rows, own, kind, key), own)
<1> DEFINE f == Column(rows, own, kind, key)
           One(g) == g = [s \in SUBSET own |-> IF s = {} THEN 0 ELSE rows[Taken(s)][kind][key] + g[s \ {Taken(s)}]]
<1>1. CellsOver(rows, own, kind, key) = (CHOOSE g : One(g))[own]
  BY DEF CellsOver, Total, MapThenSumSet, MapThenFoldSet, Taken
<1>2. Numbers(f, own) /\ \A i \in own : f[i] = rows[i][kind][key]
  BY DEF Numbers, Column
<1>3. \A s \in SUBSET own : s # {} => Taken(s) \in own
  BY DEF Taken
<1>4. ASSUME NEW g PROVE One(g) <=> Adds(f, own, g)
  <2>1. \A s \in SUBSET own : s # {} => rows[Taken(s)][kind][key] = f[Taken(s)]
    BY <1>2, <1>3
  <2> HIDE DEF f
  <2>2. [s \in SUBSET own |-> IF s = {} THEN 0 ELSE rows[Taken(s)][kind][key] + g[s \ {Taken(s)}]]
        = [s \in SUBSET own |-> IF s = {} THEN 0 ELSE f[Taken(s)] + g[s \ {Taken(s)}]]
    BY <2>1
  <2>3. QED
    BY <2>2 DEF Adds
<1> HIDE DEF One, f
<1>5. (CHOOSE g : One(g)) = (CHOOSE g : Adds(f, own, g))
  BY <1>4
<1>6. QED
  BY <1>1, <1>2, <1>5 DEF SumOver, f

LEMMA MacroHears ==
    ASSUME NEW rows, NEW own, NEW kind, NEW key, macro(rows, own, kind, key) # Absent
    PROVE  \A i \in own : rows[i][kind][key] # Absent
BY DEF macro

\* One row, column or the whole of two tables, of which the one is nowhere above the other.
Below(lows, rows, own, kind, key) ==
    \A i \in own : /\ rows[i][kind][key] \in Int /\ lows[i][kind][key] \in Int
                   /\ lows[i][kind][key] <= rows[i][kind][key]
Alike(lows, rows, own, kind, key) == \A i \in own : lows[i][kind][key] = rows[i][kind][key]
IsBelow(a, b) == a \in Int /\ b \in Int /\ a <= b

LEMMA MacroIsSum ==
    ASSUME NEW rows, NEW own, IsFiniteSet(own), own # {}, NEW kind, NEW key,
           \A i \in own : rows[i][kind][key] \in Int
    PROVE  macro(rows, own, kind, key) = SumOver(Column(rows, own, kind, key), own)
<1>1. \A i \in own : rows[i][kind][key] # Absent
  BY AbsentAssumption
<1>2. macro(rows, own, kind, key) = IF own # {} /\ \A i \in own : rows[i][kind][key] # Absent
                                    THEN CellsOver(rows, own, kind, key) ELSE Absent
  BY DEF macro, CellsOver, Total, MapThenSumSet, MapThenFoldSet
<1>3. CellsOver(rows, own, kind, key) = SumOver(Column(rows, own, kind, key), own)
  BY CellsAreSummed
<1>4. QED
  BY <1>1, <1>2, <1>3

LEMMA MeansEase ==
    ASSUME NEW rows, NEW lows, NEW own, IsFiniteSet(own), own # {}, NEW kind, NEW key,
           Below(lows, rows, own, kind, key)
    PROVE  /\ IsBelow(macro(lows, own, kind, key), macro(rows, own, kind, key))
           /\ Alike(lows, rows, own, kind, key) => macro(lows, own, kind, key) = macro(rows, own, kind, key)
<1> DEFINE f == Column(rows, own, kind, key)
           g == Column(lows, own, kind, key)
           h == [i \in own |-> f[i] - g[i]]
<1>1. \A i \in own : /\ f[i] = rows[i][kind][key] /\ g[i] = lows[i][kind][key]
                     /\ f[i] \in Int /\ g[i] \in Int /\ g[i] <= f[i]
  BY DEF Below, Column
<1>2. /\ macro(rows, own, kind, key) = SumOver(f, own)
      /\ macro(lows, own, kind, key) = SumOver(g, own)
  <2>1. (\A i \in own : rows[i][kind][key] \in Int) /\ (\A i \in own : lows[i][kind][key] \in Int)
    BY DEF Below
  <2>2. macro(rows, own, kind, key) = SumOver(f, own)
    BY <2>1, MacroIsSum
  <2>3. macro(lows, own, kind, key) = SumOver(g, own)
    BY <2>1, MacroIsSum
  <2>4. QED
    BY <2>2, <2>3
<1>3. Alike(lows, rows, own, kind, key) => f = g
  BY DEF Alike, Column
<1> HIDE DEF f, g
<1>4. Numbers(f, own) /\ Numbers(g, own)
  BY <1>1 DEF Numbers
<1>5. /\ \A i \in own : h[i] = 1 * f[i] + (-1) * g[i]
      /\ \A i \in own : h[i] \in Int /\ h[i] >= 0
  BY <1>1
<1> HIDE DEF h
<1>6. Multiples(h, f, g, 1, -1, own)
  BY <1>5 DEF Multiples
<1>7. SumOver(h, own) = 1 * SumOver(f, own) + (-1) * SumOver(g, own)
  BY <1>4, <1>6, SumOfMultiples
<1>8. Numbers(h, own)
  BY <1>4, <1>5 DEF Numbers
<1>9. SumOver(h, own) >= 0
  BY <1>5, <1>8, SumIsPositive
<1>10. SumOver(f, own) \in Int /\ SumOver(g, own) \in Int
  BY <1>4, SumUnfolds
<1>11. SumOver(g, own) <= SumOver(f, own)
  BY <1>7, <1>9, <1>10
<1>12. QED
  BY <1>2, <1>3, <1>10, <1>11 DEF IsBelow

\* Tables of which all rows count.
Tabled(rows) == DOMAIN rows = 1..4 /\ \A i \in 1..4 : rows[i].role \in Roles
Hears(rows) == \A i \in 1..4, kind \in Kinds, key \in Keys : rows[i][kind][key] # Absent
Passes(rows) == comparison_gate(rows, {"parent"}, {"reversed"})
Meant(rows, role, kind, key) == macro(rows, Of(rows, role), kind, key)

\* The clauses of the gates, one by one.
Complete(rows) ==
    \A i \in 1..4, kind \in {"audio", "zero", "audio_common", "zero_common"} \cup Baselines, key \in Keys :
        rows[i][kind][key] # Absent
BeatsSilence(rows) ==
    \A key \in {"tempo", "phase"} :
        finite_comparison(Meant(rows, "development", "audio", key), Meant(rows, "development", "zero", key), 9)
BeatsBaselines(rows) ==
    \A role \in Roles, baseline \in Baselines, key \in Keys :
        finite_comparison(Meant(rows, role, "audio_common", key), Meant(rows, role, baseline, key), 10)
Regress(rows, role, key) == {i \in Of(rows, role) : rows[i].audio_common[key] > rows[i].raw_common[key]}
Broadly(rows) ==
    \A role \in Roles :
        /\ Of(rows, role) # {}
        /\ \A key \in {"tempo", "phase"} :
              /\ \A i \in Of(rows, role) : rows[i].audio_common[key] # Absent /\ rows[i].raw_common[key] # Absent
              /\ 2 * Cardinality(Regress(rows, role, key)) <= Cardinality(Of(rows, role))
BeatsParents(rows) ==
    \A role \in Roles, key \in Keys :
        finite_comparison(Meant(rows, role, "audio_common", key), Meant(rows, role, "parent", key), 10)
NeedsOrder(rows) ==
    /\ \A i \in 1..4, key \in Keys : rows[i]["reversed"][key] # Absent
    /\ \A role \in Roles :
          /\ Meant(rows, role, "audio_common", "phase") # Absent
          /\ Meant(rows, role, "reversed", "phase") # Absent
          /\ Meant(rows, role, "audio_common", "phase") < Meant(rows, role, "reversed", "phase")

LEMMA GateIsClauses ==
    ASSUME NEW rows, Tabled(rows)
    PROVE  Passes(rows) <=> /\ Complete(rows) /\ BeatsSilence(rows) /\ BeatsBaselines(rows) /\ Broadly(rows)
                            /\ BeatsParents(rows) /\ NeedsOrder(rows)
<1>1. {i \in DOMAIN rows : rows[i].role \in Roles} = 1..4 /\ 1..4 # {}
  BY DEF Tabled
<1>2. gates(rows) <=> Complete(rows) /\ BeatsSilence(rows) /\ BeatsBaselines(rows) /\ Broadly(rows)
  BY <1>1 DEF gates, Complete, BeatsSilence, BeatsBaselines, Broadly, Meant, Regress
<1>3. Passes(rows) <=> gates(rows) /\ BeatsParents(rows) /\ NeedsOrder(rows)
  BY <1>1 DEF Passes, comparison_gate, BeatsParents, NeedsOrder, Meant
<1>4. QED
  BY <1>2, <1>3

LEMMA GateHears ==
    ASSUME NEW rows, Tabled(rows), Passes(rows)
    PROVE  Hears(rows)
<1>1. Complete(rows) /\ BeatsParents(rows) /\ NeedsOrder(rows)
  BY GateIsClauses
<1>2. ASSUME NEW i \in 1..4, NEW key \in Keys PROVE rows[i]["parent"][key] # Absent
  <2> DEFINE role == rows[i].role
             own == Of(rows, role)
  <2>1. role \in Roles /\ i \in own
    BY DEF Tabled, Of
  <2>2. macro(rows, own, "parent", key) # Absent
    BY <1>1, <2>1 DEF BeatsParents, finite_comparison, Meant
  <2> HIDE DEF own
  <2>3. QED
    BY <2>1, <2>2, MacroHears
<1>3. QED
  BY <1>1, <1>2 DEF Hears, Complete, NeedsOrder, Kinds

\* A table of numbers, lower than another one where the fit itself is measured.
Eased(lows, rows) ==
    /\ Tabled(rows) /\ Tabled(lows) /\ \A i \in 1..4 : lows[i].role = rows[i].role
    /\ \A kind \in Kinds, key \in Keys : Below(lows, rows, 1..4, kind, key)
    /\ \A kind \in Kinds \ {"audio", "audio_common"}, key \in Keys : Alike(lows, rows, 1..4, kind, key)

LEMMA EasedMeans ==
    ASSUME NEW rows, NEW lows, Eased(lows, rows), NEW role, Of(rows, role) # {}, NEW kind \in Kinds, NEW key \in Keys
    PROVE  /\ IsBelow(Meant(lows, role, kind, key), Meant(rows, role, kind, key))
           /\ kind \notin {"audio", "audio_common"} => Meant(lows, role, kind, key) = Meant(rows, role, kind, key)
<1> DEFINE own == Of(rows, role)
<1>1. own \subseteq 1..4 /\ Of(lows, role) = own
  BY DEF Eased, Tabled, Of
<1>2. IsFiniteSet(own)
  <2>1. 1 \in Int /\ 4 \in Int
    OBVIOUS
  <2>2. IsFiniteSet(1..4)
    BY <2>1, FS_Interval
  <2> HIDE DEF own
  <2>3. QED
    BY <1>1, <2>2, FS_Subset
<1>3. Below(lows, rows, own, kind, key)
  BY <1>1 DEF Eased, Below
<1>4. kind \notin {"audio", "audio_common"} => Alike(lows, rows, own, kind, key)
  BY <1>1 DEF Eased, Alike
<1>5. own # {}
  OBVIOUS
<1>6. Meant(rows, role, kind, key) = macro(rows, own, kind, key)
  BY DEF Meant
<1>7. Meant(lows, role, kind, key) = macro(lows, own, kind, key)
  BY <1>1 DEF Meant
<1> HIDE DEF own
<1>8. QED
  BY <1>2, <1>3, <1>4, <1>5, <1>6, <1>7, MeansEase

\* A fit that passes goes on passing when its own errors are less.
LEMMA GateEases ==
    ASSUME NEW rows, NEW lows, Eased(lows, rows), Passes(rows)
    PROVE  Passes(lows)
<1>1. Tabled(rows) /\ Tabled(lows)
  BY DEF Eased
<1>2. /\ Complete(rows) /\ BeatsSilence(rows) /\ BeatsBaselines(rows) /\ Broadly(rows)
      /\ BeatsParents(rows) /\ NeedsOrder(rows)
  BY <1>1, GateIsClauses
<1>3. ASSUME NEW role \in Roles PROVE Of(rows, role) # {} /\ Of(lows, role) = Of(rows, role)
  BY <1>1, <1>2 DEF Broadly, Eased, Tabled, Of
<1>4. ASSUME NEW role \in Roles, NEW kind \in Kinds, NEW key \in Keys
      PROVE  /\ IsBelow(Meant(lows, role, kind, key), Meant(rows, role, kind, key))
             /\ kind \notin {"audio", "audio_common"} => Meant(lows, role, kind, key) = Meant(rows, role, kind, key)
  BY <1>3, EasedMeans
<1>5. \A i \in 1..4, kind \in Kinds, key \in Keys :
         /\ rows[i][kind][key] \in Int /\ lows[i][kind][key] \in Int /\ lows[i][kind][key] # Absent
         /\ lows[i][kind][key] <= rows[i][kind][key]
         /\ kind \notin {"audio", "audio_common"} => lows[i][kind][key] = rows[i][kind][key]
  BY AbsentAssumption DEF Eased, Below, Alike
<1>6. ASSUME NEW a, NEW b, NEW c, NEW tenths \in {9, 10}, IsBelow(c, a), b \in Int, finite_comparison(a, b, tenths)
      PROVE  finite_comparison(c, b, tenths)
  BY <1>6, AbsentAssumption DEF finite_comparison, IsBelow
<1>7. Complete(lows)
  BY <1>5 DEF Complete, Kinds
<1>8. /\ "audio" \in Kinds /\ "zero" \in Kinds /\ "audio_common" \in Kinds /\ "parent" \in Kinds /\ "reversed" \in Kinds
      /\ "raw_common" \in Kinds /\ Baselines \subseteq Kinds /\ "zero" \notin {"audio", "audio_common"}
      /\ "parent" \notin {"audio", "audio_common"} /\ "reversed" \notin {"audio", "audio_common"}
      /\ \A baseline \in Baselines : baseline \notin {"audio", "audio_common"}
      /\ "development" \in Roles /\ {"tempo", "phase"} \subseteq Keys
  BY DEF Kinds, Baselines, Roles, Keys
<1>9. BeatsSilence(lows)
  BY <1>2, <1>4, <1>6, <1>8 DEF BeatsSilence, IsBelow
<1>10. ASSUME NEW role \in Roles, NEW kind \in Kinds \ {"audio", "audio_common"}, NEW key \in Keys,
              finite_comparison(Meant(rows, role, "audio_common", key), Meant(rows, role, kind, key), 10)
       PROVE  finite_comparison(Meant(lows, role, "audio_common", key), Meant(lows, role, kind, key), 10)
  <2> DEFINE a == Meant(rows, role, "audio_common", key)
             b == Meant(rows, role, kind, key)
             c == Meant(lows, role, "audio_common", key)
  <2>1. IsBelow(c, a) /\ b \in Int /\ Meant(lows, role, kind, key) = b
    BY <1>4, <1>8 DEF IsBelow
  <2>2. finite_comparison(a, b, 10)
    BY <1>10
  <2> HIDE DEF a, b, c
  <2>3. finite_comparison(c, b, 10)
    BY <1>6, <2>1, <2>2
  <2>4. QED
    BY <2>1, <2>3 DEF c
<1>11. BeatsBaselines(lows) /\ BeatsParents(lows)
  BY <1>2, <1>8, <1>10 DEF BeatsBaselines, BeatsParents
<1>12. NeedsOrder(lows)
  <2>1. \A i \in 1..4, key \in Keys : lows[i]["reversed"][key] # Absent
    BY <1>5, <1>8
  <2>2. ASSUME NEW role \in Roles
        PROVE  /\ IsBelow(Meant(lows, role, "audio_common", "phase"), Meant(rows, role, "audio_common", "phase"))
               /\ IsBelow(Meant(lows, role, "reversed", "phase"), Meant(rows, role, "reversed", "phase"))
               /\ Meant(lows, role, "reversed", "phase") = Meant(rows, role, "reversed", "phase")
               /\ Meant(rows, role, "audio_common", "phase") < Meant(rows, role, "reversed", "phase")
    BY <1>2, <1>4, <1>8 DEF NeedsOrder
  <2>3. QED
    BY <2>1, <2>2, AbsentAssumption DEF NeedsOrder, IsBelow
<1>13. Broadly(lows)
  <2>1. ASSUME NEW role \in Roles, NEW key \in {"tempo", "phase"}
        PROVE  /\ \A i \in Of(lows, role) : lows[i].audio_common[key] # Absent /\ lows[i].raw_common[key] # Absent
               /\ 2 * Cardinality(Regress(lows, role, key)) <= Cardinality(Of(lows, role))
    <3> DEFINE own == Of(rows, role)
               R == Regress(rows, role, key)
               L == Regress(lows, role, key)
    <3>1. own \subseteq 1..4 /\ Of(lows, role) = own
      BY <1>1, <1>3 DEF Tabled, Of
    <3>2. \A i \in own : /\ lows[i].audio_common[key] # Absent /\ lows[i].raw_common[key] # Absent
                         /\ lows[i].audio_common[key] \in Int /\ rows[i].audio_common[key] \in Int
                         /\ lows[i].audio_common[key] <= rows[i].audio_common[key]
                         /\ lows[i].raw_common[key] = rows[i].raw_common[key] /\ rows[i].raw_common[key] \in Int
      BY <1>5, <1>8, <3>1
    <3>3. L \subseteq R /\ R \subseteq 1..4
      <4>1. R = {i \in own : rows[i].audio_common[key] > rows[i].raw_common[key]}
        BY DEF Regress
      <4>2. L = {i \in own : lows[i].audio_common[key] > lows[i].raw_common[key]}
        BY <3>1 DEF Regress
      <4> HIDE DEF own, R, L
      <4>3. QED
        BY <3>1, <3>2, <4>1, <4>2
    <3>4. Cardinality(L) \in Int /\ Cardinality(R) \in Int /\ Cardinality(L) <= Cardinality(R) /\ Cardinality(own) \in Int
      <4>1. 1 \in Int /\ 4 \in Int
        OBVIOUS
      <4>2. IsFiniteSet(1..4)
        BY <4>1, FS_Interval
      <4> HIDE DEF own, R, L
      <4>3. IsFiniteSet(own) /\ IsFiniteSet(R) /\ IsFiniteSet(L)
        BY <3>1, <3>3, <4>2, FS_Subset
      <4>4. Cardinality(L) <= Cardinality(R)
        BY <3>3, <4>3, FS_Subset
      <4>5. QED
        BY <4>3, <4>4, FS_CardinalityType
    <3>5. 2 * Cardinality(R) <= Cardinality(own)
      BY <1>2 DEF Broadly
    <3> HIDE DEF own, R
    <3>6. 2 * Cardinality(L) <= Cardinality(own)
      <4> HIDE DEF L
      <4>1. QED
        BY <3>4, <3>5
    <3>7. QED
      BY <3>1, <3>2, <3>6
  <2>2. QED
    BY <1>3, <2>1 DEF Broadly
<1>14. QED
  BY <1>1, <1>7, <1>9, <1>11, <1>12, <1>13, GateIsClauses

MeasuredOf(p) == measure([rate |-> p.rate, phase |-> p.phase], p.valid)
AskedTwice(p) == [passed |-> Passes(Table(p)), again |-> Passes(Changed(Table(p), p.other, p.lower))]

\* What a table and its change hold.
LEMMA TableHolds ==
    ASSUME NEW p \in Compared
    PROVE  /\ Tabled(Table(p))
           /\ \A i \in 1..4, kind \in Kinds, key \in Keys :
                 Table(p)[i][kind][key] = IF p.cell = <<i, kind, key>> THEN p.value ELSE Good(kind)
<1>1. "role" \notin Kinds
  BY DEF Kinds, Baselines
<1>2. \A i \in 1..4, kind \in Kinds, key \in Keys :
         Table(p)[i][kind][key] = IF p.cell = <<i, kind, key>> THEN p.value ELSE Good(kind)
  BY <1>1 DEF Table
<1>3. DOMAIN Table(p) = 1..4 /\ \A i \in 1..4 : Table(p)[i].role \in Roles
  BY DEF Table, Roles
<1>4. QED
  BY <1>2, <1>3 DEF Tabled

LEMMA ChangeHolds ==
    ASSUME NEW p \in Compared, NEW cell \in Cells, NEW value
    PROVE  /\ Tabled(Changed(Table(p), cell, value))
           /\ \A i \in 1..4 : Changed(Table(p), cell, value)[i].role = Table(p)[i].role
           /\ \A i \in 1..4, kind \in Kinds, key \in Keys :
                 Changed(Table(p), cell, value)[i][kind][key]
                 = IF cell = <<i, kind, key>> THEN value ELSE Table(p)[i][kind][key]
<1> DEFINE rows == Table(p)
           after == Changed(rows, cell, value)
<1>1. PICK j \in 1..4, kind0 \in Kinds, key0 \in Keys : cell = <<j, kind0, key0>>
  BY DEF Cells
<1>2. cell[1] = j /\ cell[2] = kind0 /\ cell[3] = key0 /\ "role" \notin Kinds
  BY <1>1 DEF Kinds, Baselines
<1>3. DOMAIN rows = 1..4 /\ \A i \in 1..4 : rows[i].role \in Roles
  BY TableHolds DEF Tabled
<1>4. \A i \in 1..4 : /\ rows[i] = [f \in Kinds \cup {"role"} |-> rows[i][f]]
                      /\ \A kind \in Kinds : rows[i][kind] = [key \in Keys |-> rows[i][kind][key]]
  BY <1>2 DEF Table
<1>5. rows = [i \in 1..4 |-> rows[i]]
  BY DEF Table
<1> DEFINE row == [rows[j] EXCEPT ![kind0] = [rows[j][kind0] EXCEPT ![key0] = value]]
<1>6. after = [rows EXCEPT ![j] = row]
  BY <1>2 DEF Changed
<1> HIDE DEF rows, after
<1>7. after[j] = row /\ DOMAIN after = 1..4
  <2> HIDE DEF row
  <2>1. QED
    BY <1>3, <1>5, <1>6
<1>8. \A i \in 1..4 \ {j} : after[i] = rows[i]
  BY <1>3, <1>5, <1>6
<1>9. /\ DOMAIN rows[j] = Kinds \cup {"role"} /\ \A kind \in Kinds : DOMAIN rows[j][kind] = Keys
      /\ \A f \in Kinds \cup {"role"} : rows[j][f] = rows[j][f]
  BY <1>4
<1>10. /\ after[j][kind0] = [rows[j][kind0] EXCEPT ![key0] = value]
       /\ \A f \in (Kinds \cup {"role"}) \ {kind0} : after[j][f] = rows[j][f]
  BY <1>4, <1>7, <1>9
<1>11. \A key \in Keys : after[j][kind0][key] = IF key = key0 THEN value ELSE rows[j][kind0][key]
  BY <1>4, <1>9, <1>10
<1>12. \A i \in 1..4 : after[i].role = rows[i].role
  BY <1>2, <1>8, <1>10
<1>13. ASSUME NEW i \in 1..4, NEW kind \in Kinds, NEW key \in Keys
       PROVE  after[i][kind][key] = IF cell = <<i, kind, key>> THEN value ELSE rows[i][kind][key]
  <2>1. cell = <<i, kind, key>> <=> i = j /\ kind = kind0 /\ key = key0
    BY <1>1
  <2>2. QED
    BY <1>8, <1>10, <1>11, <2>1
<1>14. Tabled(after)
  BY <1>3, <1>7, <1>12 DEF Tabled
<1>15. QED
  BY <1>12, <1>13, <1>14 DEF after, rows

LEMMA LoweredIsEased ==
    ASSUME NEW p \in Compared, Hears(Table(p)), p.other[2] \in {"audio", "audio_common"}, p.lower = 8
    PROVE  Eased(Changed(Table(p), p.other, p.lower), Table(p))
<1> DEFINE rows == Table(p)
           lows == Changed(rows, p.other, p.lower)
<1>1. p.other \in Cells /\ p.value \in {Absent, 8, 10, 11}
  BY DEF Compared
<1>2. Tabled(rows) /\ \A i \in 1..4, kind \in Kinds, key \in Keys :
         rows[i][kind][key] = IF p.cell = <<i, kind, key>> THEN p.value ELSE Good(kind)
  BY TableHolds
<1>3. /\ Tabled(lows)
      /\ \A i \in 1..4 : lows[i].role = rows[i].role
      /\ \A i \in 1..4, kind \in Kinds, key \in Keys :
            lows[i][kind][key] = IF p.other = <<i, kind, key>> THEN p.lower ELSE rows[i][kind][key]
  <2> DEFINE cell == p.other
             value == p.lower
  <2>1. cell \in Cells
    BY <1>1
  <2> HIDE DEF cell, value
  <2>2. /\ Tabled(Changed(Table(p), cell, value))
        /\ \A i \in 1..4 : Changed(Table(p), cell, value)[i].role = Table(p)[i].role
        /\ \A i \in 1..4, kind \in Kinds, key \in Keys :
              Changed(Table(p), cell, value)[i][kind][key]
              = IF cell = <<i, kind, key>> THEN value ELSE Table(p)[i][kind][key]
    BY <2>1, ChangeHolds
  <2>3. QED
    BY <2>2 DEF cell, value
<1>4. \A i \in 1..4, kind \in Kinds, key \in Keys : rows[i][kind][key] # Absent
  BY DEF Hears
<1> HIDE DEF rows, lows
<1>5. ASSUME NEW i \in 1..4, NEW kind \in Kinds, NEW key \in Keys
      PROVE  /\ rows[i][kind][key] \in Int /\ rows[i][kind][key] >= 8
             /\ lows[i][kind][key] \in Int /\ lows[i][kind][key] <= rows[i][kind][key]
             /\ kind \notin {"audio", "audio_common"} => lows[i][kind][key] = rows[i][kind][key]
  <2>1. rows[i][kind][key] \in {8, 9, 10, 11}
    BY <1>1, <1>2, <1>4 DEF Good
  <2>2. p.other = <<i, kind, key>> => p.other[2] = kind
    OBVIOUS
  <2>3. QED
    BY <1>3, <2>1, <2>2
<1>6. /\ \A kind \in Kinds, key \in Keys : Below(lows, rows, 1..4, kind, key)
      /\ \A kind \in Kinds \ {"audio", "audio_common"}, key \in Keys : Alike(lows, rows, 1..4, kind, key)
  BY <1>5 DEF Below, Alike
<1>7. Eased(lows, rows)
  BY <1>2, <1>3, <1>6 DEF Eased
<1>8. QED
  BY <1>7 DEF lows, rows

LEMMA GatesAreSound ==
    ASSUME NEW p \in Compared
    PROVE  LET passed == Passes(Table(p))
               again == Passes(Changed(Table(p), p.other, p.lower))
           IN  /\ p.value = Absent => ~passed
               /\ p.lower = Absent => ~again
               /\ p.other[2] \in {"audio", "audio_common"} /\ p.lower = 8 => (passed => again)
<1> DEFINE rows == Table(p)
           lows == Changed(rows, p.other, p.lower)
<1>1. p.cell \in Cells /\ p.other \in Cells
  BY DEF Compared
<1>2. Tabled(rows) /\ Tabled(lows)
  BY <1>1, TableHolds, ChangeHolds
<1>3. ASSUME p.value = Absent, Passes(rows) PROVE FALSE
  <2>1. PICK i \in 1..4, kind \in Kinds, key \in Keys : p.cell = <<i, kind, key>>
    BY <1>1 DEF Cells
  <2>2. rows[i][kind][key] = Absent
    BY <1>3, <2>1, TableHolds
  <2>3. Hears(rows)
    BY <1>2, <1>3, GateHears
  <2> HIDE DEF rows
  <2>4. QED
    BY <2>2, <2>3 DEF Hears
<1>4. ASSUME p.lower = Absent, Passes(lows) PROVE FALSE
  <2>1. PICK i \in 1..4, kind \in Kinds, key \in Keys : p.other = <<i, kind, key>>
    BY <1>1 DEF Cells
  <2>2. lows[i][kind][key] = Absent
    BY <1>1, <1>4, <2>1, ChangeHolds
  <2>3. Hears(lows)
    BY <1>2, <1>4, GateHears
  <2> HIDE DEF lows
  <2>4. QED
    BY <2>2, <2>3 DEF Hears
<1>5. ASSUME p.other[2] \in {"audio", "audio_common"}, p.lower = 8, Passes(rows) PROVE Passes(lows)
  <2>1. Hears(rows)
    BY <1>2, <1>5, GateHears
  <2>2. Eased(lows, rows)
    BY <1>5, <2>1, LoweredIsEased
  <2>3. QED
    BY <1>5, <2>2, GateEases
<1>6. QED
  BY <1>3, <1>4, <1>5

-----------------------------------------------------------------------------
\* Each kind of problem has answers of one kind: the problem stays as it was set, and what
\* is answered is what the computation for it gives.
PiecesInv ==
    problem.of = "pieces" =>
        problem.length \in Nat /\ (answer = None \/ answer = Rebuilt(problem.length))
Proposal == [n \in Places |-> problem.before[n] + problem.step[n]]
ProtectionInv ==
    problem.of = "protection" =>
        /\ problem.count \in Vector /\ problem.before \in Vector /\ Proposal \in Vector
        /\ answer = None \/ answer = protect(problem.count, problem.before, Proposal)
RoutingInv ==
    problem.of = "routing" =>
        /\ accumulate(problem.phases, problem.weights) \in Vector
        /\ accumulate(problem.counts, problem.weights) \in Vector
        /\ answer = None \/ answer = route_batch(problem.phases, problem.counts, problem.weights)

Matching(A, B, tol) ==
    [pairs |-> matches(Sorted(A), Sorted(B), tol), cases |-> label_case(Sorted(A), Sorted(B), tol)]
MatchingInv ==
    problem.of = "matching" =>
        /\ problem.predicted \in SUBSET Int /\ IsFiniteSet(problem.predicted)
        /\ problem.reference \in SUBSET Int /\ IsFiniteSet(problem.reference)
        /\ problem.tolerance \in Nat
        /\ answer = None \/ answer = Matching(problem.predicted, problem.reference, problem.tolerance)
DownbeatsInv ==
    problem.of = "downbeats" =>
        /\ Fresh(problem.labels, LabelledBeats)
        /\ answer = None \/ answer = select_bar_level_downbeats(problem.labels)
MapsInv ==
    problem.of = "maps" =>
        /\ IsClock(problem.clock) /\ problem.clock.anchor <= problem.clock.boundary
        /\ problem.seam \in Int
        /\ answer = None \/ answer = Evaluated(problem)
VerdictInv ==
    problem.of = "verdict" =>
        /\ problem \in Windowed
        /\ answer = None \/ answer = Decided(problem)
MeasureInv ==
    problem.of = "measure" =>
        /\ problem \in Measured
        /\ answer = None \/ answer = MeasuredOf(problem)
GatesInv ==
    problem.of = "gates" =>
        /\ problem \in Compared
        /\ answer = None \/ answer = AskedTwice(problem)

LEMMA ProblemIsOfItsKind ==
    ASSUME Init
    PROVE  /\ problem.of = "pieces" => problem \in Pieced
           /\ problem.of = "matching" => problem \in Matched
           /\ problem.of = "protection" => problem \in Protected
           /\ problem.of = "routing" => problem \in Routed
           /\ problem.of = "downbeats" => problem \in Labelling
           /\ problem.of = "maps" => problem \in Clocked
           /\ problem.of = "verdict" => problem \in Windowed
           /\ problem.of = "measure" => problem \in Measured
           /\ problem.of = "gates" => problem \in Compared
<1>1. /\ problem \in Pieced => problem.of = "pieces"
      /\ problem \in Inferred => problem.of = "inference"
      /\ problem \in Labelling => problem.of = "downbeats"
  BY DEF Pieced, Inferred, Labelling
<1>2. /\ problem \in Tracked => problem.of = "proposals"
      /\ problem \in Supplied => problem.of = "clock"
      /\ problem \in Interpreted => problem.of = "hypotheses"
  BY DEF Tracked, Supplied, Interpreted
<1>3. /\ problem \in Matched => problem.of = "matching"
      /\ problem \in Protected => problem.of = "protection"
      /\ problem \in Routed => problem.of = "routing"
      /\ problem \in Measured => problem.of = "measure"
      /\ problem \in Compared => problem.of = "gates"
  BY DEF Matched, Protected, Routed, Measured, Compared
<1>4. /\ problem \in Clocked => problem.of = "maps"
      /\ problem \in Windowed => problem.of = "verdict"
      /\ problem \in Ledgers => problem.of = "ledger"
      /\ problem \in Decoded => problem.of = "decoder"
      /\ problem \in Captures => problem.of = "windows"
      /\ problem \in Outlined => problem.of = "outline"
  BY DEF Clocked, Windowed, Ledgers, Decoded, Captures, Outlined
<1>5. QED
  BY <1>1, <1>2, <1>3, <1>4 DEF Init

LEMMA AnswerIsOfItsKind ==
    ASSUME [Next]_vars
    PROVE  /\ problem' = problem
           /\ \/ answer' = answer
              \/ /\ problem.of = "pieces" => answer' = Rebuilt(problem.length)
                 /\ problem.of = "matching" =>
                      answer' = Matching(problem.predicted, problem.reference, problem.tolerance)
                 /\ problem.of = "protection" =>
                      answer' = protect(problem.count, problem.before, Proposal)
                 /\ problem.of = "routing" =>
                      answer' = route_batch(problem.phases, problem.counts, problem.weights)
                 /\ problem.of = "downbeats" => answer' = select_bar_level_downbeats(problem.labels)
                 /\ problem.of = "maps" => answer' = Evaluated(problem)
                 /\ problem.of = "verdict" => answer' = Decided(problem)
                 /\ problem.of = "measure" => answer' = MeasuredOf(problem)
                 /\ problem.of = "gates" => answer' = AskedTwice(problem)
<1> DEFINE Modelled == {"pieces", "matching", "protection", "routing", "downbeats", "maps", "verdict",
                        "measure", "gates"}
           Other == problem' = problem /\ problem.of \notin Modelled
<1>1. CASE CutAndJoin
  BY <1>1 DEF CutAndJoin, Answer, Asked
<1>2. CASE Match
  BY <1>2 DEF Match, Answer, Asked, Matching
<1>3. CASE Protect
  BY <1>3 DEF Protect, Answer, Asked, Proposal
<1>4. CASE Route
  BY <1>4 DEF Route, Answer, Asked
<1>5. CASE Relabel
  BY <1>5 DEF Relabel, Answer, Asked
<1>6. CASE Evaluate
  BY <1>6 DEF Evaluate, Answer, Asked, Evaluated
<1>7. CASE Decide
  BY <1>7 DEF Decide, Answer, Asked, Decided, PairOf, Exchanged
<1>8. CASE Measure
  BY <1>8 DEF Measure, Answer, Asked, MeasuredOf
<1>9. CASE Gate
  BY <1>9 DEF Gate, Answer, Asked, AskedTwice, Passes
<1>10. CASE \/ Infer \/ Propose \/ Account \/ Supply \/ Decode \/ Residuals \/ Interpret \/ Outline
  <2>1. /\ Infer => Other
        /\ Propose => Other
    BY DEF Infer, Propose, Answer, Asked
  <2>2. /\ Account => Other
        /\ Supply => Other
        /\ Decode => Other
        /\ Residuals => Other
        /\ Interpret => Other
        /\ Outline => Other
    BY DEF Account, Supply, Decode, Residuals, Interpret, Outline, Answer, Asked
  <2>3. Other
    <3> HIDE DEF Other
    <3>1. QED
      BY <1>10, <2>1, <2>2
  <2>4. QED
    BY <2>3
<1>11. CASE UNCHANGED vars
  BY <1>11 DEF vars
<1>12. QED
  BY <1>1, <1>2, <1>3, <1>4, <1>5, <1>6, <1>7, <1>8, <1>9, <1>10, <1>11 DEF Next

LEMMA InitPieces == Init => PiecesInv
<1> SUFFICES ASSUME Init, problem.of = "pieces" PROVE problem.length \in Nat /\ answer = None
  BY DEF PiecesInv
<1>1. problem \in Pieced
  BY ProblemIsOfItsKind
<1>2. problem.length \in Nat
  BY <1>1, LengthsAssumption DEF Pieced
<1>3. answer = None
  BY Zenon DEF Init
<1>4. QED
  BY <1>2, <1>3

LEMMA NextPieces == PiecesInv /\ [Next]_vars => PiecesInv'
<1> SUFFICES ASSUME PiecesInv, [Next]_vars, problem'.of = "pieces"
             PROVE  problem'.length \in Nat /\ (answer' = None \/ answer' = Rebuilt(problem'.length))
  BY DEF PiecesInv, Rebuilt
<1>1. QED
  BY AnswerIsOfItsKind DEF PiecesInv

LEMMA InitProtection == Init => ProtectionInv
<1> SUFFICES ASSUME Init, problem.of = "protection"
             PROVE  /\ problem.count \in Vector /\ problem.before \in Vector /\ Proposal \in Vector
                    /\ answer = None
  BY DEF ProtectionInv
<1>1. problem \in Protected /\ answer = None
  BY ProblemIsOfItsKind DEF Init
<1>2. /\ problem.count \in [Places -> Counts3] /\ problem.step \in [Places -> Steps3]
      /\ problem.before = [n \in Places |-> n]
  BY <1>1 DEF Protected, Vectors
<1>3. problem.count \in Vector /\ problem.step \in Vector /\ problem.before \in Vector
  BY <1>2, VectorAssumption DEF Vector
<1>4. Proposal \in Vector
  BY <1>3 DEF Proposal, Vector
<1>5. QED
  BY <1>1, <1>3, <1>4

LEMMA NextProtection == ProtectionInv /\ [Next]_vars => ProtectionInv'
<1> SUFFICES ASSUME ProtectionInv, [Next]_vars, problem'.of = "protection"
             PROVE  /\ problem'.count \in Vector /\ problem'.before \in Vector /\ Proposal' \in Vector
                    /\ answer' = None \/ answer' = protect(problem'.count, problem'.before, Proposal')
  BY DEF ProtectionInv, Proposal
<1>1. problem' = problem /\ Proposal' = Proposal
  BY AnswerIsOfItsKind DEF Proposal
<1>2. QED
  BY <1>1, AnswerIsOfItsKind DEF ProtectionInv

LEMMA InitRouting == Init => RoutingInv
<1> SUFFICES ASSUME Init, problem.of = "routing"
             PROVE  /\ accumulate(problem.phases, problem.weights) \in Vector
                    /\ accumulate(problem.counts, problem.weights) \in Vector
                    /\ answer = None
  BY DEF RoutingInv
<1>1. problem \in Routed /\ answer = None
  BY ProblemIsOfItsKind DEF Init
<1>2. /\ problem.phases \in [1..2 -> [Places -> {-1, 2}]]
      /\ problem.counts \in [1..2 -> [Places -> {0, 1}]]
      /\ problem.weights \in {<<1, 1>>, <<1, 2>>}
  BY <1>1 DEF Routed, Vectors
<1>3. [Places -> {-1, 2}] \subseteq Vector /\ [Places -> {0, 1}] \subseteq Vector
  BY DEF Vector
<1>4. /\ problem.phases \in [1..2 -> Vector] /\ problem.counts \in [1..2 -> Vector]
      /\ \A i \in 1..2 : problem.weights[i] \in Int
  BY <1>2, <1>3
<1>5. IsFiniteSet(1..2)
  <2>1. 1 \in Int /\ 2 \in Int
    OBVIOUS
  <2>2. QED
    BY <2>1, FS_Interval
<1>6. QED
  BY <1>1, <1>4, <1>5, AccumulatedIsVector

LEMMA NextRouting == RoutingInv /\ [Next]_vars => RoutingInv'
<1> SUFFICES ASSUME RoutingInv, [Next]_vars, problem'.of = "routing"
             PROVE  /\ accumulate(problem'.phases, problem'.weights) \in Vector
                    /\ accumulate(problem'.counts, problem'.weights) \in Vector
                    /\ answer' = None \/ answer' = route_batch(problem'.phases, problem'.counts, problem'.weights)
  BY DEF RoutingInv
<1>1. QED
  BY AnswerIsOfItsKind DEF RoutingInv

\* Cutting a recording into pieces, encoding those and joining what they give is
\* encoding the recording, for every length of it and every size of the pieces.
THEOREM PiecesMakeTheWhole == Spec => []WholeFromPieces
<1>1. PiecesInv => WholeFromPieces
  <2> SUFFICES ASSUME PiecesInv, Answered("pieces"), NEW n, n = problem.length
               PROVE  /\ answer.captured = Whole(n, Border)
                      /\ n > Stride => \A i \in DOMAIN answer.sizes : answer.sizes[i] = Chunk
                      /\ answer.contextual = Whole(tokens(TokenSamples + n), HalfTokens)
                      /\ answer.predicted = Whole(n, Halo)
    BY DEF WholeFromPieces
  <2>1. n \in Nat /\ answer = Rebuilt(n)
    BY DEF PiecesInv, Answered
  <2>2. /\ answer.captured = Captured(n) /\ answer.contextual = Contextual(TokenSamples + n)
        /\ answer.predicted = predict(n) /\ answer.sizes = [i \in DOMAIN layout(n) |-> layout(n)[i].size]
    BY <2>1 DEF Rebuilt
  <2>3. TokenSamples + n \in Nat /\ TokenSamples <= TokenSamples + n
    BY <2>1, TokenFacts
  <2>4. DOMAIN layout(n) = 1..Pieces(n)
    BY DEF layout
  <2>5. n > Stride => \A i \in DOMAIN answer.sizes : answer.sizes[i] = Chunk
    BY <2>1, <2>2, <2>4, FullChunks
  <2>6. QED
    BY <2>1, <2>2, <2>3, <2>5, CapturedIsWhole, PredictedIsWhole, ContextualIsWhole
<1>2. QED
  BY <1>1, InitPieces, NextPieces, PTL DEF Spec

\* However storing rounds, no group of a protected update works against the count, nor does
\* the whole, and a routed batch keeps the count of every group: for every finite set of
\* parameters, every division of it into groups and every integer gradient the run may ask.
THEOREM CountIsProtected == Spec => []CountNeverIncreases
<1>1. ProtectionInv /\ RoutingInv => CountNeverIncreases
  <2> SUFFICES ASSUME ProtectionInv, RoutingInv PROVE CountNeverIncreases
    OBVIOUS
  <2>1. ASSUME Answered("protection")
        PROVE  IsProtected(problem.count, problem.before, Proposal, answer)
    <3> DEFINE c == problem.count
               a == problem.before
    <3>1. c \in Vector /\ a \in Vector /\ Proposal \in Vector /\ answer = protect(c, a, Proposal)
      BY <2>1 DEF Answered, ProtectionInv
    <3> HIDE DEF c, a
    <3>2. IsProtected(c, a, Proposal, answer)
      BY <3>1, UpdateIsProtected
    <3>3. QED
      BY <3>2 DEF c, a
  <2>2. ASSUME Answered("routing")
        PROVE  /\ answer # Underflow
               /\ LET along == accumulate(problem.phases, problem.weights)
                      kept == accumulate(problem.counts, problem.weights)
                      Square(i) == dot(kept, kept, GROUPS[i])
                  IN  \A i \in DOMAIN GROUPS :
                        /\ dot(answer[i], kept, GROUPS[i]) >= Square(i) * Square(i)
                        /\ dot(along, kept, GROUPS[i]) >= 0 /\ Square(i) # 0 =>
                             \A n \in GROUPS[i] : answer[i][n] = (kept[n] + along[n]) * Square(i)
    <3>1. /\ accumulate(problem.phases, problem.weights) \in Vector
          /\ accumulate(problem.counts, problem.weights) \in Vector
          /\ answer = route_batch(problem.phases, problem.counts, problem.weights)
      BY <2>2 DEF Answered, RoutingInv
    <3>2. QED
      BY <3>1, RoutingHolds
  <2>3. QED
    BY <2>1, <2>2 DEF CountNeverIncreases, IsProtected, Proposal
<1>2. QED
  BY <1>1, InitProtection, NextProtection, InitRouting, NextRouting, PTL DEF Spec

LEMMA InitMatching == Init => MatchingInv
<1> SUFFICES ASSUME Init, problem.of = "matching"
             PROVE  /\ problem.predicted \in SUBSET Int /\ IsFiniteSet(problem.predicted)
                    /\ problem.reference \in SUBSET Int /\ IsFiniteSet(problem.reference)
                    /\ problem.tolerance \in Nat
                    /\ answer = None
  BY DEF MatchingInv
<1>1. problem \in Matched /\ answer = None
  BY ProblemIsOfItsKind DEF Init
<1>2. /\ problem.predicted \in SUBSET (0..4) /\ problem.reference \in SUBSET (0..4)
      /\ problem.tolerance \in 0..2
  BY <1>1 DEF Matched
<1>3. 0 \in Int /\ 4 \in Int
  OBVIOUS
<1>4. IsFiniteSet(problem.predicted) /\ IsFiniteSet(problem.reference)
  BY <1>2, <1>3, FS_Interval, FS_Subset
<1>5. QED
  BY <1>1, <1>2, <1>4

LEMMA NextMatching == MatchingInv /\ [Next]_vars => MatchingInv'
<1> SUFFICES ASSUME MatchingInv, [Next]_vars, problem'.of = "matching"
             PROVE  /\ problem'.predicted \in SUBSET Int /\ IsFiniteSet(problem'.predicted)
                    /\ problem'.reference \in SUBSET Int /\ IsFiniteSet(problem'.reference)
                    /\ problem'.tolerance \in Nat
                    /\ \/ answer' = None
                       \/ answer' = Matching(problem'.predicted, problem'.reference, problem'.tolerance)
  BY DEF MatchingInv, Matching
<1>1. QED
  BY AnswerIsOfItsKind DEF MatchingInv

\* No pair is given away by matching the earliest first: the greedy matching of clock events
\* is one to one, in order and as large as any, and its labels count what lies between.
THEOREM GreedyLosesNothing == Spec => []GreedyIsLargest
<1>1. MatchingInv => GreedyIsLargest
  <2> SUFFICES ASSUME MatchingInv, Answered("matching") PROVE GreedyIsLargest
    BY DEF GreedyIsLargest
  <2> DEFINE A == problem.predicted
             B == problem.reference
             tol == problem.tolerance
  <2>1. /\ A \in SUBSET Int /\ IsFiniteSet(A) /\ B \in SUBSET Int /\ IsFiniteSet(B) /\ tol \in Nat
        /\ answer = Matching(A, B, tol)
    BY DEF MatchingInv, Answered
  <2>2. /\ answer.pairs = matches(Sorted(A), Sorted(B), tol)
        /\ answer.cases = label_case(Sorted(A), Sorted(B), tol)
    BY <2>1 DEF Matching
  <2> HIDE DEF A, B, tol
  <2>3. MatchedWell(A, B, tol, answer.pairs, answer.cases)
    BY <2>1, <2>2, GreedyMatchingIsLargest
  <2>4. QED
    BY <2>3 DEF MatchedWell, GreedyIsLargest, A, B, tol
<1>2. QED
  BY <1>1, InitMatching, NextMatching, PTL DEF Spec

LEMMA InitDownbeats == Init => DownbeatsInv
<1> SUFFICES ASSUME Init, problem.of = "downbeats" PROVE Fresh(problem.labels, LabelledBeats) /\ answer = None
  BY DEF DownbeatsInv
<1>1. problem \in Labelling /\ answer = None
  BY ProblemIsOfItsKind DEF Init
<1> DEFINE Carried(S) == [b \in 0..LabelledBeats - 1 |-> IF b \in S THEN b ELSE Unlabelled]
<1>2. PICK S \in CandidateSets : problem.labels = Carried(S)
  <2> HIDE DEF Carried
  <2>1. Labelling = {[of |-> "downbeats", labels |-> Carried(S)] : S \in CandidateSets}
    BY DEF Labelling, Carried
  <2>2. PICK S \in CandidateSets : problem = [of |-> "downbeats", labels |-> Carried(S)]
    BY <1>1, <2>1
  <2>3. QED
    BY <2>2
<1>3. Fresh(problem.labels, LabelledBeats)
  BY <1>2, LabellingAssumption DEF Fresh
<1>4. QED
  BY <1>1, <1>3

LEMMA NextDownbeats == DownbeatsInv /\ [Next]_vars => DownbeatsInv'
<1> SUFFICES ASSUME DownbeatsInv, [Next]_vars, problem'.of = "downbeats"
             PROVE  /\ Fresh(problem'.labels, LabelledBeats)
                    /\ answer' = None \/ answer' = select_bar_level_downbeats(problem'.labels)
  BY DEF DownbeatsInv, Fresh
<1>1. QED
  BY AnswerIsOfItsKind DEF DownbeatsInv

\* Whatever phases are selected and whichever beats are the louder: no label that was kept is
\* lost, doubled or overtaken, what is kept of a selected run is a bar apart, and a label moves
\* by one beat only, to a bar from the run it stands beside; for every number of beats, every
\* set of labelled ones and every length a run must have.
THEOREM NoLabelIsLost == Spec => []DownbeatsSurvive
<1>1. DownbeatsInv => DownbeatsSurvive
  <2> SUFFICES ASSUME DownbeatsInv, Answered("downbeats") PROVE DownbeatsSurvive
    BY DEF DownbeatsSurvive
  <2>1. Fresh(problem.labels, LabelledBeats) /\ answer = select_bar_level_downbeats(problem.labels)
    BY DEF DownbeatsInv, Answered
  <2>2. ASSUME NEW o \in answer PROVE Survives(problem.labels, o)
    <3> DEFINE labels == problem.labels
    <3>1. Fresh(labels, LabelledBeats) /\ o \in select_bar_level_downbeats(labels)
      BY <2>1
    <3> HIDE DEF labels
    <3>2. PICK phases \in Selections(half_bar_runs(candidates_of(labels))) :
             \E louder : o = Outcome(labels, phases, louder)
      BY <3>1, SelectionHasOutcomes
    <3>3. PICK louder : o = Outcome(labels, phases, louder)
      BY <3>2
    <3>4. Survives(labels, o)
      BY <3>1, <3>3, OutcomeSurvives
    <3>5. QED
      BY <3>4 DEF labels
  <2>3. QED
    BY <2>2 DEF DownbeatsSurvive, Survives, InPlaces, BarApart, MovedToBar, PlaceOf, BeatsOfRun, BesideRun
<1>2. QED
  BY <1>1, InitDownbeats, NextDownbeats, PTL DEF Spec

LEMMA InitMaps == Init => MapsInv
<1> SUFFICES ASSUME Init, problem.of = "maps"
             PROVE  /\ IsClock(problem.clock) /\ problem.clock.anchor <= problem.clock.boundary
                    /\ problem.seam \in Int /\ answer = None
  BY DEF MapsInv
<1>1. problem \in Clocked /\ answer = None
  BY ProblemIsOfItsKind DEF Init
<1>2. problem.clock \in [pre : 2..4, post : 2..4, boundary : 4..8, anchor : 0..2] /\ problem.seam \in {0, 6}
  BY <1>1 DEF Clocked
<1> DEFINE c == problem.clock
<1> HIDE DEF c
<1>3. c \in [pre : 2..4, post : 2..4, boundary : 4..8, anchor : 0..2]
  BY <1>2 DEF c
<1>4. /\ c = [pre |-> c.pre, post |-> c.post, boundary |-> c.boundary, anchor |-> c.anchor]
      /\ c.pre \in 2..4 /\ c.post \in 2..4 /\ c.boundary \in 4..8 /\ c.anchor \in 0..2
  BY <1>3
<1>5. IsClock(c) /\ c.anchor <= c.boundary
  BY <1>4 DEF IsClock
<1>6. QED
  BY <1>1, <1>2, <1>5 DEF c

LEMMA NextMaps == MapsInv /\ [Next]_vars => MapsInv'
<1> SUFFICES ASSUME MapsInv, [Next]_vars, problem'.of = "maps"
             PROVE  /\ IsClock(problem'.clock) /\ problem'.clock.anchor <= problem'.clock.boundary
                    /\ problem'.seam \in Int
                    /\ answer' = None \/ answer' = Evaluated(problem')
  BY DEF MapsInv, IsClock, Evaluated, Owner
<1>1. QED
  BY AnswerIsOfItsKind DEF MapsInv

LEMMA InitVerdict == Init => VerdictInv
<1> SUFFICES ASSUME Init, problem.of = "verdict" PROVE problem \in Windowed /\ answer = None
  BY DEF VerdictInv
<1>1. QED
  BY ProblemIsOfItsKind DEF Init

LEMMA NextVerdict == VerdictInv /\ [Next]_vars => VerdictInv'
<1> SUFFICES ASSUME VerdictInv, [Next]_vars, problem'.of = "verdict"
             PROVE  problem' \in Windowed /\ (answer' = None \/ answer' = Decided(problem'))
  BY DEF VerdictInv, Decided, PairOf, Exchanged, Window, Windowed
<1>1. QED
  BY AnswerIsOfItsKind DEF VerdictInv

\* The places a recurrence is looked for are those of the clock and of no beat of it: times
\* and phases turn back, what is compared is before its frame and heard, and no verdict holds
\* of a pair of windows and of the pair exchanged; for every number of frames, every grain the
\* periods divide and every margin.
THEOREM MapsTurnBack == Spec => []ClockMapsAgree
<1>1. MapsInv /\ VerdictInv => ClockMapsAgree
  <2> SUFFICES ASSUME MapsInv, VerdictInv PROVE ClockMapsAgree
    OBVIOUS
  <2>1. ASSUME Answered("maps")
        PROVE  LET c == problem.clock
                   plan == answer.plan
                   moved == [c EXCEPT !.anchor = 0]
                   Far(t) == \E name \in NAMES, k \in 1..2 : plan.queries[name][t][k] < problem.seam * Grain
               IN  /\ \A t \in 0..FRAMES : time_at(phase_at(t, c), c) = t * Grain
                   /\ plan = query_plan(moved)
                   /\ answer.window = evaluate(problem.silent, Owner(problem), moved)
                   /\ \A scale2 \in {1, 2, 4} :
                         LET supplied == clock(c, c.anchor, FRAMES, scale2, 0)
                         IN  supplied # TooMany =>
                               \A tick \in supplied : tick >= 0 /\ tick < (FRAMES - c.anchor) * Grain
                   /\ answer.window.status = "eligible" =>
                         /\ plan.targets \cap problem.silent = {}
                         /\ \A t \in plan.targets, name \in NAMES :
                               plan.queries[name][t][1] < plan.queries[name][t][2] /\ plan.queries[name][t][2] < t * Grain
                   /\ \A name \in NAMES :
                         answer.window.crossings[name]
                           <= Cardinality({t \in plan.targets : t >= problem.seam /\ Far(t)})
    <3> DEFINE c == problem.clock
               plan == answer.plan
               seam == problem.seam
               silent == problem.silent
               owner == Owner(problem)
    <3>1. IsClock(c) /\ c.anchor <= c.boundary /\ seam \in Int /\ answer = Evaluated(problem)
      BY <2>1 DEF MapsInv, Answered
    <3>2. plan = query_plan(c) /\ answer.window = evaluate(silent, owner, c)
      BY <3>1 DEF Evaluated
    <3>3. owner = [u \in 0..FRAMES - 1 |-> IF u < seam THEN 0 ELSE 1]
      BY DEF Owner
    <3> HIDE DEF c, plan, seam, silent, owner
    <3>4. \A t \in 0..FRAMES : time_at(phase_at(t, c), c) = t * Grain
      BY <3>1, FramesAssumption, TimesTurnBack
    <3>5. plan = query_plan([c EXCEPT !.anchor = 0]) /\ answer.window = evaluate(silent, owner, [c EXCEPT !.anchor = 0])
      <4>1. plan = query_plan(Moved(c)) /\ answer.window = evaluate(silent, owner, Moved(c))
        BY <3>1, <3>2, PlanStands, WindowStands
      <4>2. QED
        BY <4>1 DEF Moved
    <3>6. \A scale2 \in {1, 2, 4} :
            clock(c, c.anchor, FRAMES, scale2, 0) # TooMany =>
              \A tick \in clock(c, c.anchor, FRAMES, scale2, 0) : tick >= 0 /\ tick < (FRAMES - c.anchor) * Grain
      BY <3>1, TicksAreInside
    <3>7. answer.window.status = "eligible" => plan.targets \cap silent = {}
      BY <3>2, EligibleIsHeard
    <3>8. ASSUME NEW t \in plan.targets, NEW name \in NAMES
          PROVE  plan.queries[name][t][1] < plan.queries[name][t][2] /\ plan.queries[name][t][2] < t * Grain
      <4>1. 1 \in 1..2
        OBVIOUS
      <4>2. /\ query_plan(c).queries[name][t] = Back(name, t, c)
            /\ Back(name, t, c)[1] < Back(name, t, c)[2] /\ Back(name, t, c)[2] < t * Grain
        BY <3>1, <3>2, <3>8, <4>1, TargetsAreInside
      <4>3. QED
        BY <3>2, <4>2
    <3>9. ASSUME NEW name \in NAMES
          PROVE  answer.window.crossings[name]
                   <= Cardinality({t \in plan.targets : t >= seam /\
                                     \E n \in NAMES, k \in 1..2 : plan.queries[n][t][k] < seam * Grain})
      BY <3>1, <3>2, <3>3, CrossingsAreFar
    <3>10. QED
      BY <3>4, <3>5, <3>6, <3>7, <3>8, <3>9 DEF c, plan, seam, silent, owner
  <2>2. ASSUME Answered("verdict")
        PROVE  /\ answer.given.density => answer.given.shape
               /\ ~(answer.given.shape /\ answer.swapped.shape)
               /\ problem.status # "eligible" => ~answer.given.shape /\ ~answer.swapped.shape
    <3>1. problem \in Windowed /\ answer = Decided(problem)
      BY <2>2 DEF VerdictInv, Answered
    <3>2. QED
      BY <3>1, VerdictIsFair
  <2>3. QED
    BY <2>1, <2>2 DEF ClockMapsAgree
<1>2. QED
  BY <1>1, InitMaps, NextMaps, InitVerdict, NextVerdict, PTL DEF Spec

LEMMA InitMeasure == Init => MeasureInv
<1> SUFFICES ASSUME Init, problem.of = "measure" PROVE problem \in Measured /\ answer = None
  BY DEF MeasureInv
<1>1. QED
  BY ProblemIsOfItsKind DEF Init

LEMMA NextMeasure == MeasureInv /\ [Next]_vars => MeasureInv'
<1> SUFFICES ASSUME MeasureInv, [Next]_vars, problem'.of = "measure"
             PROVE  problem' \in Measured /\ (answer' = None \/ answer' = MeasuredOf(problem'))
  BY DEF MeasureInv, MeasuredOf, Measured
<1>1. QED
  BY AnswerIsOfItsKind DEF MeasureInv

LEMMA InitGates == Init => GatesInv
<1> SUFFICES ASSUME Init, problem.of = "gates" PROVE problem \in Compared /\ answer = None
  BY DEF GatesInv
<1>1. QED
  BY ProblemIsOfItsKind DEF Init

LEMMA NextGates == GatesInv /\ [Next]_vars => GatesInv'
<1> SUFFICES ASSUME GatesInv, [Next]_vars, problem'.of = "gates"
             PROVE  problem' \in Compared /\ (answer' = None \/ answer' = AskedTwice(problem'))
  BY DEF GatesInv, AskedTwice, Passes, Table, Changed, Compared
<1>1. QED
  BY AnswerIsOfItsKind, SMTT(40) DEF GatesInv

\* A metric is there exactly when all that its reference requires is, no comparison passes
\* that lacks a value, and a fit that errs less passes where it passed; for every length of a
\* counting interval, every value of the errors and every four recordings of the two roles.
THEOREM GatesHold == Spec => []GatesAreFair
<1>1. MeasureInv /\ GatesInv => GatesAreFair
  <2> SUFFICES ASSUME MeasureInv, GatesInv PROVE GatesAreFair
    OBVIOUS
  <2>1. ASSUME Answered("measure")
        PROVE  MeasuredWell(answer, problem.rate, problem.phase, problem.valid, 4)
    <3> DEFINE fields == [rate |-> problem.rate, phase |-> problem.phase]
    <3>1. /\ problem \in Measured /\ answer = measure(fields, problem.valid)
      BY <2>1 DEF MeasureInv, Answered, MeasuredOf
    <3>2. /\ problem.rate \in [1..3 -> Rates] /\ problem.phase \in [1..4 -> {1, Absent}]
          /\ problem.valid \in [1..4 -> BOOLEAN]
      BY <3>1 DEF Measured
    <3>3. fields.rate = problem.rate /\ fields.phase = problem.phase
      OBVIOUS
    <3> HIDE DEF fields
    <3>4. fields.rate \in [1..4 - 1 -> Errors] /\ fields.phase \in [1..4 -> Errors] /\ 4 \in Nat \ {0}
      <4>1. Rates \subseteq Errors /\ {1, Absent} \subseteq Errors /\ 4 - 1 = 3
        BY ScoresAssumption DEF Errors
      <4>2. QED
        BY <3>2, <3>3, <4>1
    <3>5. MeasuredWell(measure(fields, problem.valid), fields.rate, fields.phase, problem.valid, 4)
      BY <3>2, <3>4, MeasureIsComplete
    <3>6. QED
      BY <3>1, <3>3, <3>5
  <2>2. ASSUME Answered("gates")
        PROVE  /\ problem.value = Absent => ~answer.passed
               /\ problem.lower = Absent => ~answer.again
               /\ problem.other[2] \in {"audio", "audio_common"} /\ problem.lower = 8 =>
                     (answer.passed => answer.again)
    <3> DEFINE passed == Passes(Table(problem))
               again == Passes(Changed(Table(problem), problem.other, problem.lower))
    <3>1. problem \in Compared /\ answer = [passed |-> passed, again |-> again]
      BY <2>2 DEF GatesInv, Answered, AskedTwice
    <3>2. /\ problem.value = Absent => ~passed
          /\ problem.lower = Absent => ~again
          /\ problem.other[2] \in {"audio", "audio_common"} /\ problem.lower = 8 => (passed => again)
      BY <3>1, GatesAreSound
    <3> HIDE DEF passed, again
    <3>3. answer.passed = passed /\ answer.again = again
      BY <3>1
    <3>4. QED
      BY <3>2, <3>3
  <2>3. Answered("measure") =>
            LET cells == {i \in 1..3 : Support(i, i + 1)}
                points == {i \in 1..4 : problem.valid[i]}
                spans == {i \in 1..4 - Lag : Support(i, i + Lag)}
                Known(S) == \A i \in S : problem.rate[i] # Absent
            IN  /\ answer.reference_intervals = Cardinality(spans)
                /\ answer.tempo # Absent <=> cells # {} /\ Known(cells)
                /\ answer.phase # Absent <=> points # {} /\ \A i \in points : problem.phase[i] # Absent
                /\ answer.count # Absent <=> spans # {} /\ Known(UNION {i..i + Lag - 1 : i \in spans})
    <3>1. 4 - 1 = 3
      OBVIOUS
    <3>2. QED
      BY <2>1, <3>1 DEF MeasuredWell, Support
  <2>4. QED
    BY <2>2, <2>3 DEF GatesAreFair
<1>2. QED
  BY <1>1, InitMeasure, NextMeasure, InitGates, NextGates, PTL DEF Spec

\* Comparisons are sound: the metrics, the gates, the clocks and the verdicts together.
THEOREM ComparisonsHold == Spec => []ComparisonsAreSound
<1>1. GatesAreFair /\ ClockMapsAgree => ComparisonsAreSound
  BY DEF ComparisonsAreSound
<1>2. QED
  BY <1>1, GatesHold, MapsTurnBack, PTL

================================================================================
