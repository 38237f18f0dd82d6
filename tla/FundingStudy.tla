---------------------------- MODULE FundingStudy -----------------------------
(***************************************************************************)
(* The funding studies on venue history that grows day by day: which       *)
(* instruments are in the daily universe (universe.py over acquire.py),    *)
(* the panels and the cross-section of each day (dispersion.py), and the   *)
(* stretches of negative funding of one instrument (funding.py).  Prices   *)
(* and rates are kept only as far as these tell them apart.                *)
(***************************************************************************)
EXTENDS Integers, FiniteSetsExt, SequencesExt

CONSTANTS
    Coins, Rates,
    DayTicks,        \* ticks of a day
    MinSpan,         \* MIN_FUNDING_DAYS, in ticks
    MaxInterval,     \* MAX_CREDITED_INTERVAL_MS, in ticks
    FirstInterval,   \* FUNDING_INTERVAL_MS, in ticks
    MinCross,        \* MIN_CROSS_SECTION
    LastTick, MaxRecords  \* bounds: the clock, and rows and closes together

FundingAssumption ==
    /\ IsFiniteSet(Coins) /\ Rates \subseteq Int
    /\ {DayTicks, MinCross} \subseteq Nat \ {0} /\ {MaxInterval, FirstInterval, LastTick} \subseteq Nat

VARIABLES
    now,
    funding,   \* coin -> rows [time, rate], oldest first
    candles,   \* coin -> days with a close
    error      \* coins whose fetch failed

vars == <<now, funding, candles, error>>

DayOf(t) == t \div DayTicks
AllDays == 0..DayOf(LastTick)
SumSeq(s) == FoldSeq(+, 0, s)

(* CoinHistory: a coin counts with a funding history of some length.       *)
Usable(c) ==
    /\ c \notin error /\ funding[c] # <<>> /\ candles[c] # {}
    /\ Last(funding[c]).time - funding[c][1].time >= MinSpan

FundedDays(c) == {DayOf(funding[c][i].time) : i \in DOMAIN funding[c]}
FundingOn(c, d) ==
    SumSeq([i \in DOMAIN funding[c] |->
        IF DayOf(funding[c][i].time) = d THEN funding[c][i].rate ELSE 0])

(* Build: a usable coin is a member on the days both funded and priced.    *)
Live(c) == IF Usable(c) THEN FundedDays(c) \cap candles[c] ELSE {}
Listed == {c \in Coins : Live(c) # {}}
Members(d) == {c \in Listed : d \in Live(c)}

(* Panels: the days of a listing, first to last, that are funded and       *)
(* priced.                                                                 *)
PanelDays(c) ==
    {d \in FundedDays(c) : d \in candles[c] /\ Min(Live(c)) <= d /\ d <= Max(Live(c))}
Cohort(day) == {c \in Listed : Min(Live(c)) <= day}

(* One day's cross-section, or none when it is too thin; a cohort may fix  *)
(* its composition.  The spread is that of the sums over the two tails.    *)
Tail10(n) == IF n \div 10 > 1 THEN n \div 10 ELSE 1
Lowest(k, coins, d) ==
    CHOOSE low \in SUBSET coins : Cardinality(low) = k
        /\ \A c \in low, other \in coins \ low : FundingOn(c, d) <= FundingOn(other, d)
Highest(k, coins, d) ==
    CHOOSE high \in SUBSET coins : Cardinality(high) = k
        /\ \A c \in high, other \in coins \ high : FundingOn(other, d) <= FundingOn(c, d)
Earned(coins, d) == FoldFunction(+, 0, [c \in coins |-> FundingOn(c, d)])
Measure(d, among) ==
    LET coins == Members(d) \cap among
        n == Cardinality(coins)
        tail == Tail10(n)
    IN  [n |-> n, tail |-> tail,
         spread |-> Earned(Highest(tail, coins, d), d) - Earned(Lowest(tail, coins, d), d)]
Thick(d, among) == Cardinality(Members(d) \cap among) >= MinCross
Days == {d \in AllDays : Members(d) # {}}
Series(among) == [d \in {e \in Days : Thick(e, among)} |-> Measure(d, among)]
SkippedDays(among) == Cardinality({d \in Days : ~Thick(d, among)})

(* How long each row was in force: until the next, at most the credited    *)
(* maximum; the last as long as the one before it.                         *)
Intervals(rows) ==
    LET gap(i) == Min({rows[i + 1].time - rows[i].time, MaxInterval})
    IN  IF Len(rows) = 1 THEN <<FirstInterval>>
        ELSE [i \in DOMAIN rows |-> gap(Min({i, Len(rows) - 1}))]
Gaps(rows) == {i \in 1..(Len(rows) - 1) : rows[i + 1].time - rows[i].time > MaxInterval}

(* Unbroken stretches of negative rows: a run starts at a negative row and *)
(* is closed by the first that is not, or by the end of the series.        *)
(* A slip: the run that is still open at the end is not reported.          *)
Run(rows, from, to, endsAt) ==
    LET spans == Intervals(rows) IN
    [start |-> rows[from].time, end |-> endsAt,
     hours |-> SumSeq(SubSeq(spans, from, to)),
     cost |-> SumSeq([i \in 1..(to - from + 1) |-> rows[from + i - 1].rate])]
ScanRow(rows, acc, row) ==
    LET i == acc.i + 1 IN
    IF row.rate < 0 THEN [acc EXCEPT !.i = i, !.from = IF @ = 0 THEN i ELSE @]
    ELSE IF acc.from # 0
    THEN [i |-> i, from |-> 0, runs |-> Append(acc.runs, Run(rows, acc.from, i - 1, row.time))]
    ELSE [acc EXCEPT !.i = i]
Scan(rows) ==
    FoldLeft(LAMBDA acc, row : ScanRow(rows, acc, row), [i |-> 0, from |-> 0, runs |-> <<>>], rows)
NegativeRunsClosed(rows) == Scan(rows).runs
NegativeRuns(rows) ==
    LET acc == Scan(rows) IN
    IF acc.from = 0 THEN acc.runs
    ELSE Append(acc.runs, Run(rows, acc.from, Len(rows), Last(rows).time))

(* negative_funding_risk: the run that cost the most, and the longest.     *)
WorstCost(runs) == Min({runs[i].cost : i \in DOMAIN runs})
LongestHours(runs) == Max({runs[i].hours : i \in DOMAIN runs})

(* Characterise: the time funding was paid, out of the time covered.       *)
NegativeTime(rows) ==
    SumSeq([i \in DOMAIN rows |-> IF rows[i].rate < 0 THEN Intervals(rows)[i] ELSE 0])
Elapsed(rows) == SumSeq(Intervals(rows))
-----------------------------------------------------------------------------
Init ==
    /\ now = 0 /\ error = {}
    /\ funding = [c \in Coins |-> <<>>] /\ candles = [c \in Coins |-> {}]

Tick == now < LastTick /\ now' = now + 1 /\ UNCHANGED <<funding, candles, error>>

Records == FoldSet(LAMBDA c, n : n + Len(funding[c]) + Cardinality(candles[c]), 0, Coins)

Publish(c, rate) ==
    /\ Records < MaxRecords
    /\ \A i \in DOMAIN funding[c] : funding[c][i].time < now
    /\ funding' = [funding EXCEPT ![c] = Append(@, [time |-> now, rate |-> rate])]
    /\ UNCHANGED <<now, candles, error>>

Trade(c) ==
    /\ DayOf(now) \notin candles[c] /\ Records < MaxRecords
    /\ candles' = [candles EXCEPT ![c] = @ \cup {DayOf(now)}]
    /\ UNCHANGED <<now, funding, error>>

(* The download of a coin fails.                                           *)
FailFetch(c) ==
    /\ c \notin error /\ error' = error \cup {c}
    /\ UNCHANGED <<now, funding, candles>>

Next ==
    \/ Tick
    \/ \E c \in Coins : Trade(c) \/ FailFetch(c) \/ \E rate \in Rates : Publish(c, rate)

Spec == Init /\ [][Next]_vars
-----------------------------------------------------------------------------
(* Whatever holes the history has, the reported runs of negative funding   *)
(* carry all of the negative time and all of the negative funding, are     *)
(* apart from each other, and last no longer than the time they span with  *)
(* no hole in it credited in full (funding.py).  Nobody held through       *)
(* consecutive negative rows that cost more, or were credited with more    *)
(* hours, than the worst and the longest episode reported (risk.py).       *)
RunsCarryTheNegatives ==
    \A c \in Coins : funding[c] # <<>> =>
        LET rows == funding[c]
            runs == NegativeRuns(rows)
            paid == [i \in DOMAIN rows |-> IF rows[i].rate < 0 THEN rows[i].rate ELSE 0]
        IN  /\ SumSeq([i \in DOMAIN runs |-> runs[i].hours]) = NegativeTime(rows)
            /\ SumSeq([i \in DOMAIN runs |-> runs[i].cost]) = SumSeq(paid)
            /\ NegativeTime(rows) <= Elapsed(rows)
            /\ \A i \in 1..(Len(runs) - 1) : \E j \in DOMAIN rows :
                   runs[i].end <= rows[j].time /\ rows[j].time < runs[i + 1].start /\ rows[j].rate >= 0
            /\ \A i, j \in DOMAIN rows :
                 (i <= j /\ \A k \in i..j : rows[k].rate < 0) =>
                   /\ Run(rows, i, j, now).cost >= WorstCost(runs)
                   /\ Run(rows, i, j, now).hours <= LongestHours(runs)
            /\ Gaps(rows) = {} => \A i \in 1..(Len(runs) - 1) : runs[i].hours = runs[i].end - runs[i].start

(* The panels hold a value exactly on the days of membership, so that no   *)
(* rate is read on a day without a price (universe.py), and every day of   *)
(* the universe is measured or counted as too thin, the full universe and  *)
(* any fixed cohort alike (dispersion.py).                                 *)
PanelsMatchMembership ==
    /\ \A c \in Listed : PanelDays(c) = {d \in AllDays : c \in Members(d)}
    /\ \A among \in {Listed} \cup {Cohort(d) : d \in AllDays} :
           /\ Cardinality(DOMAIN Series(among)) + SkippedDays(among) = Cardinality(Days)
           /\ \A d \in DOMAIN Series(among) :
                  Series(among)[d].n >= MinCross /\ Series(among)[d].spread >= 0

(* "Membership is per day: the venue published a funding rate AND a daily  *)
(* close for the instrument on that day.  No rule consults the end of the  *)
(* sample" (universe.py:133-135): history that arrives later does not      *)
(* change who was a member on a past day.                                  *)
MembershipIsPerDay ==
    [][error = {} /\ error' = {} => \A d \in 0..(DayOf(now) - 1) : Members(d)' = Members(d)]_vars
=============================================================================
