---------------------------- MODULE QuoteCensus -----------------------------
(***************************************************************************)
(* The accumulators that the spread studies feed with one coin's records:  *)
(* the census of C.9 (census.py: time-weighted spread and adverse          *)
(* selection, day after day), the registered census (registered.py: one    *)
(* row per print and horizon, inside the scored window only) and the pass  *)
(* of D.1c (d1c.py: spread in ticks, net capture with a tail of quotes     *)
(* behind the window, and hourly funding on the position).  Moves are in   *)
(* price units; their scaling to basis points is left out.                 *)
(*                                                                         *)
(* What the registered census then concludes (Assemble, a specification of *)
(* its own): every instrument held against the bars fixed in advance, the  *)
(* multiplicity correction over those with enough prints, a category each, *)
(* and one action for all.  A row set is kept as what the bars read of it: *)
(* whether the print floor is met at every horizon, and at each the        *)
(* statistics of the net and whether its mean is positive in both halves   *)
(* of the window.  Percentages are integers.                               *)
(***************************************************************************)
EXTENDS Integers, FiniteSetsExt, SequencesExt

CONSTANTS
    Quotes,        \* pairs <<bid, ask>>
    Horizons,      \* HORIZONS_MS, D1C_HORIZONS_MS
    End, Resolution,     \* SCORED_END_NS, RESOLUTION_TAIL_NS; the window starts at 0
    Day, Hour,     \* lengths in ticks
    Archive,       \* the hours the fundingHistory archive covers
    Rates,         \* rates an activeAssetCtx message may carry
    MaxRecords,    \* bound: records of the coin
    Symbols,       \* the instruments of the verdict
    Stats,         \* records [lower, p, net]: the bound of the net's confidence
                   \* interval, the one-sided p value and the mean; lower > 0 <=> p < 5
    Q,             \* BH_Q, in percent
    None

CensusAssumption ==
    /\ Horizons \subseteq Nat \ {0}
    /\ {End, Resolution, MaxRecords} \subseteq Nat /\ {Day, Hour} \subseteq Nat \ {0}
StatsAssumption == \A s \in Stats : (s.lower > 0 <=> s.p < 5) /\ (s.lower > 0 => s.net > 0)

VARIABLES
    c9,         \* InstrumentCensus: panel, spread meter, receive time of the last record
    census,     \* RegisteredInstrument: a panel
    net,        \* HorizonNet: a panel
    ticks,      \* SpreadTicks: a meter
    funding,    \* _FundingState with next_boundary_ns, and the charges made
    sim,        \* InventorySim: made, quoting, position
    closed,     \* D1CRun.close() was called
    log,        \* history: the records so far
    now,        \* when the registered census is run
    rows,       \* symbol -> what the replay left in its RegisteredInstrument
    outcome     \* None, or [categories, survivors, action]

vars == <<c9, census, net, ticks, funding, sim, closed, log>>
verdict == <<now, rows, outcome>>

Sides == {-1, 1}
Mid(q) == q[1] + q[2]               \* twice the mid
Spread(q) == q[2] - q[1]
Priced(q) == q[1] > 0 /\ q[2] > 0
InWindow(ts) == ts < End

(* A panel arms every print at every horizon and resolves it later.        *)
NewPanel == [mid |-> None, spread |-> None,
             queue |-> [h \in Horizons |-> <<>>], out |-> [h \in Horizons |-> <<>>]]

(* A deadline strictly before a quote resolves against the previous mid,   *)
(* one at its instant against its own.  A slip: always against its own.    *)
Outcome(a, exit) == [ts |-> a.ts, spread |-> a.spread, move |-> a.sign * (exit - a.mid)]
OutcomesLate(due, ts, previous, mid) == [i \in DOMAIN due |-> Outcome(due[i], mid)]
Outcomes(due, ts, previous, mid) ==
    [i \in DOMAIN due |-> Outcome(due[i], IF due[i].deadline < ts THEN previous ELSE mid)]

OnQuote(p, ts, q) ==
    LET Due(h) == SelectSeq(p.queue[h], LAMBDA a : a.deadline <= ts)
    IN  IF ~Priced(q) THEN p ELSE
        [mid    |-> Mid(q),
         spread |-> IF Spread(q) > 0 THEN Spread(q) ELSE None,
         queue  |-> [h \in Horizons |-> SelectSeq(p.queue[h], LAMBDA a : a.deadline > ts)],
         out    |-> [h \in Horizons |-> p.out[h] \o Outcomes(Due(h), ts, p.mid, Mid(q))]]

Arm(p, ts, sign) ==
    [p EXCEPT !.queue = [h \in Horizons |-> Append(@[h],
        [deadline |-> ts + h, ts |-> ts, sign |-> sign, mid |-> p.mid, spread |-> p.spread])]]

(* AdverseSelection wants a mid; the two others a positive spread as well. *)
OnMidPrint(p, ts, sign) == IF p.mid = None THEN p ELSE Arm(p, ts, sign)
OnPrint(p, ts, sign) == IF p.spread = None THEN p ELSE Arm(p, ts, sign)

(* A meter credits the spread that stood until now with the elapsed time;  *)
(* a crossed or locked quote stands, and is credited nowhere.              *)
NewMeter == [since |-> 0, held |-> None, time |-> [s \in {Spread(q) : q \in Quotes} |-> 0]]
Credit(m, ts) ==
    IF m.held = None THEN m ELSE [m EXCEPT !.time[m.held] = @ + (ts - m.since)]
Observe(m, ts, q) ==
    IF ~Priced(q) THEN m
    ELSE [Credit(m, ts) EXCEPT !.since = ts,
                               !.held = IF Spread(q) > 0 THEN Spread(q) ELSE None]
CloseMeter(m, ts) == [Credit(m, ts) EXCEPT !.held = None]

(* run_census closes its meter at the last record of every day.            *)
NextDay(ts) ==
    IF ts \div Day > c9.last \div Day
    THEN [c9 EXCEPT !.meter = CloseMeter(@, c9.last), !.last = ts]
    ELSE [c9 EXCEPT !.last = ts]

(* Before a record is looked at, the boundaries it passed are charged: the *)
(* archive's rate for the hour, or the last one heard; the last mark, or   *)
(* the last mid of the window.  Without either the hour is skipped.        *)
RateOf(f, b) == IF b \in Archive THEN "archive" ELSE f.rate
Chargeable(f, b) == RateOf(f, b) # None /\ f.mark # None
Boundaries(f, upTo) ==
    SelectSeq([i \in 1..(End \div Hour) |-> i * Hour], LAMBDA b : f.next <= b /\ b <= upTo)
ChargeUpTo(upTo) ==
    LET due == SelectSeq(Boundaries(funding, upTo), LAMBDA b : Chargeable(funding, b))
    IN  [funding EXCEPT
            !.next = IF Boundaries(funding, upTo) = <<>> THEN @ ELSE Last(Boundaries(funding, upTo)) + Hour,
            !.charges = IF ~sim.made THEN @ ELSE @ \o
                [i \in DOMAIN due |-> [at |-> due[i], rate |-> RateOf(funding, due[i]),
                                       mark |-> funding.mark, position |-> sim.position]]]
-----------------------------------------------------------------------------
Init ==
    /\ c9 = [panel |-> NewPanel, meter |-> NewMeter, last |-> 0]
    /\ census = NewPanel /\ net = NewPanel /\ ticks = NewMeter
    /\ funding = [next |-> Hour, rate |-> None, mark |-> None, ctx |-> FALSE, charges |-> <<>>]
    /\ sim = [made |-> FALSE, quoting |-> FALSE, position |-> 0]
    /\ closed = FALSE /\ log = <<>>

(* Records arrive one at a time, a tick or two apart, up to the tail's end.*)
Receive(ts, kind, what) ==
    /\ ~closed /\ Len(log) < MaxRecords
    /\ ts < End + Resolution /\ \A i \in DOMAIN log : log[i].ts < ts
    /\ log' = Append(log, [ts |-> ts, kind |-> kind, what |-> what])
    /\ UNCHANGED closed

(* A bbo message with both sides.  HorizonNet hears it in the tail too.    *)
Bbo(ts, q) ==
    /\ Receive(ts, "quote", q)
    /\ LET c == NextDay(ts) IN
       c9' = [c EXCEPT !.panel = OnQuote(@, ts, q), !.meter = Observe(@, ts, q)]
    /\ net' = OnQuote(net, ts, q)
    /\ census' = IF InWindow(ts) THEN OnQuote(census, ts, q) ELSE census
    /\ ticks' = IF InWindow(ts) THEN Observe(ticks, ts, q) ELSE ticks
    /\ LET f == ChargeUpTo(ts) IN
       funding' = IF InWindow(ts) /\ Priced(q) /\ ~f.ctx THEN [f EXCEPT !.mark = Mid(q)] ELSE f
    /\ sim' = IF InWindow(ts) /\ Priced(q)
              THEN [sim EXCEPT !.made = TRUE, !.quoting = @ \/ Spread(q) > 0] ELSE sim

(* A print: inside the window it is armed, and fills the simulated quote.  *)
Trade(ts, sign) ==
    /\ Receive(ts, "print", sign)
    /\ LET c == NextDay(ts) IN c9' = [c EXCEPT !.panel = OnMidPrint(@, ts, sign)]
    /\ net' = IF InWindow(ts) THEN OnPrint(net, ts, sign) ELSE net
    /\ census' = IF InWindow(ts) THEN OnPrint(census, ts, sign) ELSE census
    /\ funding' = ChargeUpTo(ts)
    /\ sim' = IF InWindow(ts) /\ sim.quoting THEN [sim EXCEPT !.position = @ - sign] ELSE sim
    /\ UNCHANGED ticks

(* An activeAssetCtx message: funding rate and mark.                       *)
AssetCtx(ts, rate) ==
    /\ Receive(ts, "ctx", rate)
    /\ c9' = NextDay(ts)
    /\ LET f == ChargeUpTo(ts) IN
       funding' = IF InWindow(ts)
                  THEN [f EXCEPT !.rate = rate, !.mark = rate, !.ctx = TRUE] ELSE f
    /\ UNCHANGED <<census, net, ticks, sim>>

(* One side empty, an unknown channel, or undecodable: only time passes.   *)
OtherRecord(ts) ==
    /\ Receive(ts, "other", None)
    /\ c9' = NextDay(ts)
    /\ funding' = ChargeUpTo(ts)
    /\ UNCHANGED <<census, net, ticks, sim>>

Close ==
    /\ ~closed /\ closed' = TRUE
    /\ funding' = ChargeUpTo(End)
    /\ ticks' = CloseMeter(ticks, End)
    /\ UNCHANGED <<c9, census, net, sim, log>>

Next ==
    \/ \E ts \in 0..(End + Resolution) :
        \/ \E q \in Quotes : Bbo(ts, q)
        \/ \E sign \in Sides : Trade(ts, sign)
        \/ \E rate \in Rates : AssetCtx(ts, rate)
        \/ OtherRecord(ts)
    \/ Close

Spec == Init /\ [][Next]_vars
-----------------------------------------------------------------------------
(* The reference reads the whole log.  Quote i stands at time t for an     *)
(* accumulator that hears the quotes before a limit.                       *)
IsQuote(i, limit) == log[i].kind = "quote" /\ Priced(log[i].what) /\ log[i].ts < limit
QuotesUpTo(t, limit) == {i \in DOMAIN log : IsQuote(i, limit) /\ log[i].ts <= t}
Standing(t, limit) == IF QuotesUpTo(t, limit) = {} THEN <<0, 0>>
                      ELSE log[CHOOSE i \in QuotesUpTo(t, limit) : \A j \in QuotesUpTo(t, limit) : j <= i].what

(* A print's outcome at horizon h is known once a quote at or past its     *)
(* deadline was heard, and reads the last mid at or before the deadline.   *)
ShouldBe(h, prints, limit, locked) ==
    LET entry(i) == Standing(log[i].ts, limit)
        spread(i) == IF Spread(entry(i)) > 0 THEN Spread(entry(i)) ELSE None
        counted == SelectSeq([i \in DOMAIN log |-> i], LAMBDA i :
                       /\ log[i].kind = "print" /\ log[i].ts < prints
                       /\ Priced(entry(i)) /\ (locked \/ Spread(entry(i)) > 0)
                       /\ \E j \in DOMAIN log : IsQuote(j, limit) /\ log[j].ts >= log[i].ts + h)
    IN  [n \in DOMAIN counted |->
            LET i == counted[n] IN
            [ts |-> log[i].ts, spread |-> spread(i),
             move |-> log[i].what * (Mid(Standing(log[i].ts + h, limit)) - Mid(entry(i)))]]

(* Every accumulator scores every print of its population once, in order,  *)
(* against the last mid at or before the deadline and never a later one;   *)
(* and the rows of the registered census are the first of D.1c's, which    *)
(* "re-scores the same fills" (adverse.py, registered.py, horizons.py).    *)
OutcomesReadTheDeadline ==
    \A h \in Horizons :
        /\ c9.panel.out[h] = ShouldBe(h, End + Resolution, End + Resolution, TRUE)
        /\ census.out[h] = ShouldBe(h, End, End, FALSE)
        /\ net.out[h] = ShouldBe(h, End, End + Resolution, FALSE)
        /\ IsPrefix(census.out[h], net.out[h])

(* The ticks during which a positive spread s stood, between two limits.   *)
Stood(s, from, to, limit) ==
    {t \in from..(to - 1) : s > 0 /\ Spread(Standing(t, limit)) = s
                             /\ \E i \in QuotesUpTo(t, limit) : log[i].ts >= from}
LastOfDay(d) == CHOOSE n \in 0..c9.last : n \div Day = d /\ (n = d * Day \/ \E i \in DOMAIN log : log[i].ts = n)
                     /\ \A i \in DOMAIN log : log[i].ts \div Day = d => log[i].ts <= n
TimeOf(m, s, to) == CloseMeter(m, to).time[s]

(* Closed now, each spread is credited with exactly the time it stood: in  *)
(* D.1c's ticks up to the window's end, in the C.9 census within each day  *)
(* up to its last record, and crossed time nowhere (spread.py, tick.py).   *)
SpreadTimeExact ==
    \A s \in DOMAIN ticks.time :
        /\ closed => ticks.time[s] = Cardinality(Stood(s, 0, End, End))
        /\ TimeOf(c9.meter, s, c9.last) = Cardinality(UNION {
                Stood(s, d * Day, LastOfDay(d), End + Resolution) : d \in 0..(c9.last \div Day)})

(* Every hour of the window that records have passed is charged once, in   *)
(* order, with what was known strictly before it: archive rate or last     *)
(* rate, last mark, and the position of the prints before it.              *)
Known(kind, b) == {i \in DOMAIN log : log[i].kind = kind /\ log[i].ts < b /\ InWindow(log[i].ts)}
Newest(S) == log[CHOOSE i \in S : \A j \in S : j <= i].what
ChargeAt(b) ==
    [at |-> b,
     rate |-> IF b \in Archive THEN "archive" ELSE Newest(Known("ctx", b)),
     mark |-> IF Known("ctx", b) # {} THEN Newest(Known("ctx", b)) ELSE Mid(Standing(b - 1, End)),
     position |-> -FoldSet(LAMBDA i, sum : sum + log[i].what, 0,
                     {i \in Known("print", b) : \E j \in QuotesUpTo(log[i].ts, End) : Spread(log[j].what) > 0})]
FundingOnTheHour ==
    LET upTo == IF closed \/ log = <<>> THEN IF closed THEN End ELSE 0 ELSE Last(log).ts
        due == SelectSeq([i \in 1..(End \div Hour) |-> i * Hour], LAMBDA b :
                  /\ b <= upTo /\ QuotesUpTo(b - 1, End) # {}
                  /\ b \in Archive \/ Known("ctx", b) # {})
    IN  funding.charges = [n \in DOMAIN due |-> ChargeAt(due[n])]
-----------------------------------------------------------------------------
RowSets == [floor : BOOLEAN, stats : [Horizons -> Stats],
            halves : [Horizons -> BOOLEAN], capacity : BOOLEAN]

(* The other bars are asked at the worst horizon, the first with the       *)
(* lowest confidence bound.                                                *)
FloorMet(s) == rows[s].floor
Worst(s) == CHOOSE h \in Horizons : \A other \in Horizons :
                \/ rows[s].stats[h].lower < rows[s].stats[other].lower
                \/ rows[s].stats[h].lower = rows[s].stats[other].lower /\ h <= other
Report(s) == rows[s].stats[Worst(s)]
Testable == {s \in Symbols : FloorMet(s)}

(* Benjamini-Hochberg: with the p values in order, the largest rank whose  *)
(* p value is under its share of Q, and all before it.                     *)
Rank(s) == Cardinality({t \in Testable : Report(t).p <= Report(s).p})
UnderItsShare(s) == Report(s).p * Cardinality(Testable) <= Q * Rank(s)
Rejected == {s \in Testable : \E t \in Testable : UnderItsShare(t) /\ Report(s).p <= Report(t).p}

PassesEveryBar(s) == s \in Rejected /\ Report(s).lower > 0 /\ rows[s].halves[Worst(s)]
Category(s) ==
    IF ~FloorMet(s) THEN "too_thin_by_prior_declaration"
    ELSE IF s \notin Rejected \/ Report(s).lower <= 0
         THEN IF Report(s).net > 0 THEN "suggestive_noise_of_zero" ELSE "fail"
    ELSE IF ~rows[s].halves[Worst(s)] THEN "suggestive_noise_of_zero"
    ELSE IF ~rows[s].capacity THEN "positive_but_rare" ELSE "survivor_tradeable_capacity"

Action(categories) ==
    IF categories \subseteq {"fail", "too_thin_by_prior_declaration"} THEN "close"
    ELSE IF "survivor_tradeable_capacity" \in categories THEN "fill simulation"
    ELSE IF "positive_but_rare" \in categories THEN "report and stop" ELSE "extend recording"

VerdictInit ==
    /\ now \in {End - 1, End} /\ outcome = None
    /\ rows \in [Symbols -> RowSets]

(* run_registered_census: refused before the window has closed.            *)
Assemble ==
    /\ outcome = None /\ now >= End
    /\ outcome' = [categories |-> [s \in Symbols |-> Category(s)],
                   survivors |-> {s \in Testable : PassesEveryBar(s)},
                   action |-> Action({Category(s) : s \in Symbols})]
    /\ UNCHANGED <<now, rows>>

(* The conclusions agree with one another and with the evidence: the       *)
(* survivors are the instruments categorised as positive; each of them is  *)
(* positive at every horizon, not the worst only; the expected share of    *)
(* false ones among the rejected is within Q (the largest p value is under *)
(* Q times their share of the tested); the hypothesis is closed only if no *)
(* instrument with enough prints earned anything; and never before the     *)
(* window has closed.                                                      *)
ConclusionsAgree ==
    outcome # None =>
        /\ outcome.survivors =
               {s \in Symbols : outcome.categories[s] \in {"positive_but_rare", "survivor_tradeable_capacity"}}
        /\ \A s \in outcome.survivors, h \in Horizons : rows[s].stats[h].lower > 0
        /\ \A s \in Rejected : Report(s).p * Cardinality(Testable) <= Q * Cardinality(Rejected)
        /\ \A s \in Testable \ Rejected : \A t \in Rejected : Report(t).p < Report(s).p
        /\ outcome.action = "close" => \A s \in Testable : Report(s).net <= 0
        /\ outcome.action = "fill simulation" <=>
               \E s \in outcome.survivors : rows[s].capacity
        /\ now >= End
=============================================================================
