------------------------- MODULE MCExperimentAlgorithms -------------------------
(***************************************************************************)
(* Bounded problems for TLC. Two periods that follow each other with       *)
(* probabilities 2/3 and 1/3, windows of up to five frames, recordings of  *)
(* up to six chunks, three parameters in two groups.                       *)
(***************************************************************************)
EXTENDS ExperimentAlgorithms

MCTempo == 2 :> (2 :> 2 @@ 3 :> 1) @@ 3 :> (2 :> 1 @@ 3 :> 2)
MCLaw == 2 :> 1 @@ 3 :> 1
MCLengths == 1..52
Plain == <<1, 2, 3>>
Strong == <<2, 2, 4>>
MCEvidences ==
    [1..4 -> {Unavailable, Plain, Strong}]
    \cup {[i \in 1..5 |-> IF i \in S THEN Strong ELSE Unavailable] : S \in {{}, {1}, {3}, {2, 4}, {1, 3, 5}}}
MCGROUPS == <<{1, 2}, {3}>>
MCSteps == -2..2
MCCounts == {-1, 0, 2}
MCRates == {Absent, -1, 2}
MCScored == {0, 2, 3}
MCTickSites == {0, 3, 4, 8, 11}
MCHeardSites == {18, 36, 66, 84, 120}
MCLogits == [0..6 -> 0..2]
MCDowns == {[i \in 0..6 |-> IF i = 3 THEN 2 ELSE 0], [i \in 0..6 |-> IF i = 2 THEN 1 ELSE IF i = 5 THEN 2 ELSE 0]}
MCMotifs == [1..3 -> {0, 2}] \cup {<<0, 1, 2>>, <<2, 0, 0, 1>>, <<2, 2, 0, 0, 0>>, <<2, 0, 1, 0, 0, 0, 1>>, <<0, 0, 0, 0, 2, 2, 0, 0, 0, 0, 0>>}

\* Any candidates among ten beats, and three runs of candidates two beats apart with 1, 3, 4
\* or 5 beats from one to the next.
MCChain(lengths, gaps) ==
    LET steps == FlattenSeq([i \in 1..3 |-> [k \in 1..lengths[i] - 1 |-> 2] \o (IF i < 3 THEN <<gaps[i]>> ELSE <<>>)])
    IN  {1 + FoldFunctionOnSet(+, 0, steps, 1..k) : k \in 0..Len(steps)}
MCCandidateSets ==
    SUBSET (0..9) \cup {MCChain(lengths, gaps) : lengths \in [1..3 -> {1, 3, 4}],
                                             gaps \in [1..2 -> {1, 3, 4, 5}]}

\* What an interval after another costs: the same tempo, a level change, or a drift.
MCCost(a, b) ==
    CASE a = b -> <<0, 29>>
      [] {a, b} = {2, 3} -> <<7, 13>> [] {a, b} = {2, 4} -> <<19, 10>> [] {a, b} = {2, 5} -> <<34, 12>>
      [] {a, b} = {3, 4} -> <<3, 17>> [] {a, b} = {3, 5} -> <<10, 11>> [] {a, b} = {4, 5} -> <<2, 19>>
MCMotion == [a \in 2..5 |-> [b \in 2..5 |-> MCCost(a, b)[1]]]
MCSwitch == [a \in 2..5 |-> [b \in 2..5 |-> MCCost(a, b)[2]]]
MCSites == {0, 2, 3, 4, 6, 8, 9, 10, 12}
MCHeard == [at : {MCSites}, weight : {0}] \cup [at : {MCSites, {0, 3, 6, 9, 12}, {2, 4, 9, 10}}, weight : {20}]
MCSourceBeats == {{0, 2, 4, 6, 8, 10, 12}, {0, 4, 8, 12}, {2, 4, 8}}
MCOctaves == 60 :> 5907 @@ 120 :> 6907 @@ 125 :> 6966 @@ 150 :> 7229
MCTempi == UNION {[1..n -> {60, 120, 125, 150}] : n \in 1..6} \cup [1..7 -> {60, 120, 125}]
=================================================================================
