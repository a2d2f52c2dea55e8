-------------------------------- MODULE Downbeats --------------------------------
(***************************************************************************)
(* Bar-level downbeats. Downbeat candidates exactly two beats apart form a *)
(* run; a long run may keep one of its two alternating phases only; then a *)
(* label next to a selected run may move by a beat, to where four-beat     *)
(* bars put it. Beats are indices, and labels[b] is the candidate whose    *)
(* confidence beat b carries. Which phase and which of two beats is the    *)
(* louder is left open.                                                    *)
(***************************************************************************)
EXTENDS Integers, Sequences, FiniteSets, SequencesExt, Functions

CONSTANTS FewestInRun,   \* MINIMUM_CANDIDATES_PER_RUN
          Unlabelled     \* a downbeat confidence below 1/2
ASSUME RunAssumption == FewestInRun \in Nat \ {0, 1}
ASSUME UnlabelledAssumption == Unlabelled \notin Int

HALF_BAR == 2
BAR == 4
Labelled(labels) == {b \in DOMAIN labels : labels[b] # Unlabelled}
Ordered(S, At(_)) == [i \in 1..Cardinality(S) |-> CHOOSE x \in S : Cardinality({y \in S : At(y) < At(x)}) = i - 1]
candidates_of(labels) == Ordered(Labelled(labels), LAMBDA b : b)

\* Runs are pairs of positions in the sequence of candidates, first and last.
half_bar_runs(candidates) ==
    LET Continues(i) == candidates[i + 1] - candidates[i] = HALF_BAR
    IN  {r \in (DOMAIN candidates) \X (DOMAIN candidates) :
            /\ r[2] - r[1] + 1 >= FewestInRun
            /\ \A i \in r[1]..r[2] - 1 : Continues(i)
            /\ r[1] > 1 => ~Continues(r[1] - 1)
            /\ r[2] < Len(candidates) => ~Continues(r[2])}

\* Some of the runs each select a phase, 0 or 1.
Selections(runs) == UNION {[R -> {0, 1}] : R \in SUBSET runs}
Ofphase(r, phase) == {i \in r[1]..r[2] : (i - r[1]) % 2 = phase}
Rejected(candidates, phases) ==
    {candidates[i] : i \in UNION {Ofphase(r, 1 - phases[r]) : r \in DOMAIN phases}}

\* The beats where the bars of a selected run put the downbeats before and after it, each
\* with the candidate that may stand there instead.
before_run(candidates, r, phase) ==
    LET first == candidates[r[1] + phase]
    IN  IF first >= BAR /\ r[1] > 1 THEN <<[expected |-> first - BAR, displaced |-> candidates[r[1] - 1]]>> ELSE <<>>
after_run(beats, candidates, r, phase) ==
    LET last == candidates[CHOOSE i \in Ofphase(r, phase) : \A k \in Ofphase(r, phase) : k <= i]
    IN  IF r[2] < Len(candidates) /\ last + BAR \in beats
        THEN <<[expected |-> last + BAR, displaced |-> candidates[r[2] + 1]]>> ELSE <<>>
boundaries(beats, candidates, phases) ==
    LET inOrder == Ordered(DOMAIN phases, LAMBDA r : r[1])
        Sides(r) == before_run(candidates, r, phases[r]) \o after_run(beats, candidates, r, phases[r])
    IN  FlattenSeq([i \in DOMAIN inOrder |-> Sides(inOrder[i])])

\* Mutant: the label already there is overwritten.
realign_over_label(labels, pair, louder) ==
    IF /\ pair.expected - pair.displaced \in -1..1 \ {0} /\ labels[pair.displaced] # Unlabelled /\ pair \in louder
    THEN [labels EXCEPT ![pair.expected] = labels[pair.displaced], ![pair.displaced] = Unlabelled]
    ELSE labels
realign_boundary_downbeat(labels, pair, louder) ==
    IF /\ pair.expected - pair.displaced \in -1..1
       /\ labels[pair.expected] = Unlabelled /\ labels[pair.displaced] # Unlabelled
       /\ pair \in louder
    THEN [labels EXCEPT ![pair.expected] = labels[pair.displaced], ![pair.displaced] = Unlabelled]
    ELSE labels

\* Of two beats at most one is louder than the other by the ratio.
Loudnesses(pairs) ==
    {S \in SUBSET pairs : \A p \in S : [expected |-> p.displaced, displaced |-> p.expected] \notin S}

\* Everything the selection can make of the labels.
select_bar_level_downbeats(labels) ==
    LET candidates == candidates_of(labels)
        Result(phases, louder) ==
            LET kept == [b \in DOMAIN labels |-> IF b \in Rejected(candidates, phases) THEN Unlabelled ELSE labels[b]]
                pairs == boundaries(DOMAIN labels, candidates, phases)
            IN  [phases |-> phases, kept |-> kept,
                 after |-> FoldLeft(LAMBDA at, pair : realign_boundary_downbeat(at, pair, louder), kept, pairs)]
        Asked(phases) == Range(boundaries(DOMAIN labels, candidates, phases))
    IN  UNION {{Result(phases, louder) : louder \in Loudnesses(Asked(phases))} :
                phases \in Selections(half_bar_runs(candidates))}
==================================================================================
