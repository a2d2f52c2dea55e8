----------------------------- MODULE ResponseLedger -----------------------------
(***************************************************************************)
(* The accounting of the responses of a span by the ticks of a supplied    *)
(* clock (rational_response_ledger, clock_response_ledger_audit): the most *)
(* pairs, then the least total offset, every optimal assignment counted    *)
(* once by a table over ticks and first free responses.  Coordinates are   *)
(* in Fine parts of a frame.                                               *)
(***************************************************************************)
EXTENDS Integers, Sequences, FiniteSets, FiniteSetsExt, SequencesExt

CONSTANTS Fine, RADIUS, EventLimit
ASSUME LedgerAssumption == {Fine, RADIUS, EventLimit} \subseteq Nat \ {0}

Offset(t, r) == IF t < r THEN r - t ELSE t - r
FrameBelow(x) == x \div Fine
FrameAbove(x) == -((-x) \div Fine)

\* Events are few, in order and inside; a response stands on two observed frames.
coordinates(values, size) ==
    /\ Len(values) <= EventLimit
    /\ \A i \in DOMAIN values : 0 <= values[i] /\ values[i] < size * Fine
    /\ \A i \in 2..Len(values) : values[i - 1] < values[i]
Accountable(size, observed, ticked, heard) ==
    /\ coordinates(ticked, size) /\ coordinates(heard, size)
    /\ \A j \in DOMAIN heard : {FrameBelow(heard[j]), FrameAbove(heard[j])} \subseteq observed \cap 0..size - 1

\* From tick i, with responses from first on still free: skip the tick, or pair it.
\* Mutant: a response may be skipped on its own as well.
PairingsTwice(i, first, ticked, heard, below) ==
    {[with |-> 0, to |-> k, matched |-> below[k].matched, distance |-> below[k].distance,
      ways |-> below[k].ways] : k \in {first, first + 1} \cap DOMAIN below}
    \cup {[with |-> j, to |-> j + 1, matched |-> below[j + 1].matched + 1,
           distance |-> below[j + 1].distance + Offset(ticked[i], heard[j]), ways |-> below[j + 1].ways] :
          j \in {k \in first..Len(heard) : Offset(ticked[i], heard[k]) <= RADIUS * Fine}}
Pairings(i, first, ticked, heard, below) ==
    {[with |-> 0, to |-> first, matched |-> below[first].matched, distance |-> below[first].distance,
      ways |-> below[first].ways]}
    \cup {[with |-> j, to |-> j + 1, matched |-> below[j + 1].matched + 1,
           distance |-> below[j + 1].distance + Offset(ticked[i], heard[j]), ways |-> below[j + 1].ways] :
          j \in {k \in first..Len(heard) : Offset(ticked[i], heard[k]) <= RADIUS * Fine}}
Surpasses(a, b) == a.matched > b.matched \/ (a.matched = b.matched /\ a.distance < b.distance)
Tabulated(n, Cell(_)) == FoldLeft(LAMBDA row, k : Append(row, Cell(k)), <<>>, [k \in 1..n |-> k])
TableRow(i, ticked, heard, below) ==
    LET Cell(first) ==
        LET options == Pairings(i, first, ticked, heard, below)
            optimal == {o \in options : ~\E p \in options : Surpasses(p, o)}
            one == CHOOSE o \in optimal : TRUE
        IN  [matched |-> one.matched, distance |-> one.distance,
             ways |-> MapThenSumSet(LAMBDA o : o.ways, optimal), edges |-> {<<o.with, o.to>> : o \in optimal}]
    IN  Tabulated(Len(below), Cell)
LedgerTable(ticked, heard) ==
    LET last == Tabulated(Len(heard) + 1, LAMBDA k : [matched |-> 0, distance |-> 0, ways |-> 1, edges |-> {}])
    IN  FoldRight(LAMBDA i, rows : <<TableRow(i, ticked, heard, Head(rows))>> \o rows,
                  [i \in DOMAIN ticked |-> i], <<last>>)

\* How many optimal beginnings reach each cell of the table.
Beginnings(table) ==
    LET Reach(row, before) ==
            Tabulated(Len(before),
                      LAMBDA to : MapThenSumSet(LAMBDA first : before[first],
                                                {f \in DOMAIN before : \E e \in row[f].edges : e[2] = to}))
        start == Tabulated(Len(table[1]), LAMBDA first : IF first = 1 THEN 1 ELSE 0)
    IN  FoldLeft(LAMBDA rows, row : Append(rows, Reach(row, rows[Len(rows)])), <<start>>,
                 SubSeq(table, 1, Len(table) - 1))

\* One witness: pair before skipping, then the nearest response, then the earlier.
Witness(table, ticked, heard) ==
    LET Prefer(i, a, b) ==
            \/ b[1] = 0
            \/ a[1] # 0 /\ LET x == Offset(ticked[i], heard[a[1]])
                               y == Offset(ticked[i], heard[b[1]])
                           IN  x < y \/ (x = y /\ a[1] <= b[1])
        Follow(at, i) ==
            LET edges == table[i][at.first].edges
                edge == CHOOSE a \in edges : \A b \in edges : Prefer(i, a, b)
            IN  [first |-> edge[2], pairs |-> at.pairs \cup (IF edge[1] = 0 THEN {} ELSE {<<i, edge[1]>>})]
    IN  FoldLeft(Follow, [first |-> 1, pairs |-> {}], [i \in DOMAIN ticked |-> i]).pairs

\* A tick's query is whole when every frame within the radius was observed.
full_query(t, size, observed) ==
    FrameAbove(t - RADIUS * Fine)..FrameBelow(t + RADIUS * Fine) \subseteq observed \cap 0..size - 1

\* How many optimal assignments pair a tick with a response.
PairCounts(table, reached, ticked, heard) ==
    [p \in (DOMAIN ticked) \X (DOMAIN heard) |->
        MapThenSumSet(LAMBDA first : reached[p[1]][first] * table[p[1] + 1][p[2] + 1].ways,
                      {f \in DOMAIN table[p[1]] : <<p[2], p[2] + 1>> \in table[p[1]][f].edges})]
Accounts(table, pair, size, observed, ticked, heard) ==
    LET all == table[1][1]
    IN  [matched |-> all.matched, unmatched_ticks |-> Len(ticked) - all.matched,
         unmatched_responses |-> Len(heard) - all.matched, distance |-> all.distance, ways |-> all.ways,
         pair |-> pair,
         tick |-> [i \in DOMAIN ticked |-> MapThenSumSet(LAMBDA j : pair[<<i, j>>], DOMAIN heard)],
         response |-> [j \in DOMAIN heard |-> MapThenSumSet(LAMBDA i : pair[<<i, j>>], DOMAIN ticked)],
         witness |-> Witness(table, ticked, heard),
         full |-> [i \in DOMAIN ticked |-> full_query(ticked[i], size, observed)]]
ledger(size, observed, ticked, heard) ==
    LET table == LedgerTable(ticked, heard)
    IN  Accounts(table, PairCounts(table, Beginnings(table), ticked, heard), size, observed, ticked, heard)

\* Every tick of a supplied clock; a change sets the next interval, and must be on a tick.
clock_ticks(frame_count, period, first, changes) ==
    LET Tick(at, n) ==
            IF at.time >= frame_count THEN at
            ELSE LET p == IF at.time \in DOMAIN changes THEN changes[at.time] ELSE at.period
                 IN  [time |-> at.time + p, period |-> p, found |-> Append(at.found, at.time)]
        all == FoldLeft(Tick, [time |-> first, period |-> period, found |-> <<>>],
                        [n \in 1..frame_count |-> n]).found
    IN  IF \A t \in DOMAIN changes : \E i \in DOMAIN all : all[i] = t THEN all ELSE <<>>

\* The inventory of integer responses: what every optimum, some or none pairs.
status(count, ways) ==
    IF count = ways THEN "matched_in_all_optima"
    ELSE IF count > 0 THEN "matched_in_some_optima" ELSE "unmatched_in_all_optima"
Statuses(result, heard) ==
    [result |-> result,
     tick_status |-> [i \in DOMAIN result.tick |-> status(result.tick[i], result.ways)],
     response_status |-> [j \in DOMAIN heard |-> status(result.response[j], result.ways)],
     cover |-> Len(heard) > 0 /\ result.matched = Len(heard)]
integer_ledger(size, observed, ticked, heard) ==
    Statuses(ledger(size, observed, [i \in DOMAIN ticked |-> ticked[i] * Fine],
                    [j \in DOMAIN heard |-> heard[j] * Fine]), heard)
=============================================================================
