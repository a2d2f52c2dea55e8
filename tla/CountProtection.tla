---------------------------- MODULE CountProtection ----------------------------
(***************************************************************************)
(* Keeping an update from working against the count: the projection of the *)
(* phase gradient (gradient_routing.route) and of the displacement an      *)
(* optimizer proposes (protected_update.boundary), group by group.         *)
(* Parameters are a few numbered coordinates with integer values; the      *)
(* projection is exact, and storing it rounds every value either way.      *)
(***************************************************************************)
EXTENDS Integers, FiniteSets, FiniteSetsExt, Sequences, SequencesExt

CONSTANTS Places,   \* the parameters
          GROUPS,   \* their groups, in order: sets of parameters
          Underflow \* a projection that lost the direction it was to protect
ASSUME GroupAssumption ==
    /\ UNION {GROUPS[i] : i \in DOMAIN GROUPS} = Places
    /\ IsFiniteSet(Places) /\ GROUPS \in Seq(SUBSET Places)
    /\ \A i, j \in DOMAIN GROUPS : i # j => GROUPS[i] \cap GROUPS[j] = {}
ASSUME UnderflowAssumption ==
    Underflow \notin [DOMAIN GROUPS -> UNION {[GROUPS[i] -> Int] : i \in DOMAIN GROUPS}]

dot(a, b, group) == MapThenSumSet(LAMBDA n : a[n] * b[n], group)
Sign(x) == IF x > 0 THEN 1 ELSE IF x < 0 THEN -1 ELSE 0
exact_sign(count, before, after, group) ==
    Sign(MapThenSumSet(LAMBDA n : count[n] * (after[n] - before[n]), group))

\* The stored values next to a fraction: itself when it is whole, else both neighbours.
Stored(a, b) == {a \div b, -((-a) \div b)}

\* One group: an adverse displacement is projected, stored, looked at again, and given up
\* when storing has made it adverse again.
\* Mutant: what was stored is not looked at again.
protectWithoutVeto(count, before, candidate, group) ==
    LET d == [n \in group |-> candidate[n] - before[n]]
        square == dot(count, count, group)
        along == dot(d, count, group)
        Values(n) == {before[n] + s : s \in Stored(d[n] * square - along * count[n], square)}
        projected == {[n \in Places |-> IF n \in group THEN v[n] ELSE candidate[n]] :
                        v \in {f \in [group -> UNION {Values(n) : n \in group}] :
                                 \A n \in group : f[n] \in Values(n)}}
    IN  IF exact_sign(count, before, candidate, group) <= 0 THEN {candidate} ELSE projected
protectGroup(count, before, candidate, group) ==
    LET d == [n \in group |-> candidate[n] - before[n]]
        square == dot(count, count, group)
        along == dot(d, count, group)
        Values(n) == {before[n] + s : s \in Stored(d[n] * square - along * count[n], square)}
        projected == {[n \in Places |-> IF n \in group THEN v[n] ELSE candidate[n]] :
                        v \in {f \in [group -> UNION {Values(n) : n \in group}] :
                                 \A n \in group : f[n] \in Values(n)}}
        Vetoed(p) == [n \in Places |-> IF n \in group THEN before[n] ELSE p[n]]
    IN  IF exact_sign(count, before, candidate, group) <= 0 THEN {candidate}
        ELSE {IF exact_sign(count, before, p, group) > 0 THEN Vetoed(p) ELSE p : p \in projected}
\* Every stored result the proposal may end as.
protect(count, before, proposal) ==
    FoldLeft(LAMBDA results, group : UNION {protectGroup(count, before, c, group) : c \in results},
             {proposal}, GROUPS)

\* The routed direction, times the square of the count in the group.
project(phase, count, group) ==
    LET along == dot(phase, count, group)
        square == dot(count, count, group)
    IN  [n \in group |-> IF square # 0 /\ along < 0
                         THEN count[n] * square + phase[n] * square - along * count[n]
                         ELSE (count[n] + phase[n]) * (IF square = 0 THEN 1 ELSE square)]
accumulate(gradients, weights) ==
    [n \in Places |-> MapThenSumSet(LAMBDA i : weights[i] * gradients[i][n], DOMAIN gradients)]
\* A batch is accumulated first and projected once: Underflow if a group has lost its count.
route_batch(phases, counts, weights) ==
    LET phase == accumulate(phases, weights)
        count == accumulate(counts, weights)
        routed == [i \in DOMAIN GROUPS |-> project(phase, count, GROUPS[i])]
        Kept(i) == LET square == dot(count, count, GROUPS[i])
                   IN  square = 0 \/ dot(routed[i], count, GROUPS[i]) >= square * square
    IN  IF \A i \in DOMAIN GROUPS : Kept(i) THEN routed ELSE Underflow

\* What a step that was taken did to the count; without a count it is not known.
displacement_check(count, before, after) ==
    LET defined == dot(count, count, Places) # 0
        moved == \E n \in Places : before[n] # after[n]
        d == [n \in Places |-> after[n] - before[n]]
    IN  [defined |-> defined, moved |-> moved,
         nonincrease |-> IF ~defined THEN "undefined"
                         ELSE IF ~moved \/ dot(d, count, Places) <= 0 THEN "yes" ELSE "no"]

=============================================================================
