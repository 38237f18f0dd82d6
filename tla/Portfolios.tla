----------------------------- MODULE Portfolios ------------------------------
(* The three daily desks replaying a tape of prints one day at a time. The   *)
(* desk and its schedule are chosen in Init; a coin that stops printing is a *)
(* hole if it prints again before the tape ends, and delisted otherwise.     *)
(* "path" is the history of the units held at each close. And the scan that  *)
(* counts how often a price path would have liquidated the short leg of the  *)
(* carry (SweepNext, a specification of its own): over one path for several  *)
(* margins, with and without rebalances.                                     *)
EXTENDS Integers, FiniteSets, FiniteSetsExt, Sequences, SequencesExt

CONSTANTS Coins,    \* instruments, numbered in the order ties are broken
          Fee,      \* cost of one unit of traded notional
          Desks,    \* [desk, lookback, every]: who trades and on which schedule
          Menu,     \* Menu[c]: the prints instrument c can have on a day
          LastDay,
          NamesPerSide, MinCrossSection, HalfGross,
          MinNames, Gross,
          Spot, Perp,      \* the two instruments of the carry
          EntryNotional, Band,  \* Band: allowed drift of the perp notional
          Prices, Margins, Drift,  \* of the scan; margins and drift in percent
          MaxSteps                 \* bound on the scan's path

ScheduleAssumption == \A s \in Desks : LastDay > s.lookback + 1

VARIABLES plan, tape, gone, book, path,
          steps,     \* the scan: how many prices were read
          price,     \* the last of them
          rising,    \* history: no price was below the one before it
          entry,     \* entry[s]: the price scan s carries the short at
          breaches, excursion   \* excursion[s]: the worst rise, in percent
sweep == <<steps, price, rising, entry, breaches, excursion>>
vars == <<plan, tape, gone, book, path>>

------------------------------------------------------------------------------
(* What the daily studies share: instruments held in units between           *)
(* rebalances, a mark per open position, and the accounts kept apart.         *)
(* Source: research/cross/portfolio.py, research/cross/universe.py           *)

Absent == [px |-> 0, rate |-> 0]
Priced(print) == print.px > 0

EmptyBook == [units |-> [c \in Coins |-> 0], mark |-> [c \in Coins |-> 0],
              price |-> 0, funding |-> 0, cost |-> 0, traded |-> 0,
              rebalances |-> 0, forced |-> 0, holes |-> 0, peak |-> 0, entry |-> 0]

Magnitude(x) == IF x < 0 THEN -x ELSE x
SumOver(S, F(_)) == MapThenSumSet(F, S)
Held(b)        == {c \in Coins : b.units[c] # 0}
Notional(b, c) == Magnitude(b.units[c]) * b.mark[c]
NetPnl(b)      == b.funding + b.price - b.cost

\* Every trade pays its side: a rebalance, a forced exit, the last unwind.
Pay(b, amount) == [b EXCEPT !.cost = @ + amount * Fee, !.traded = @ + amount]

\* The positions of S are closed at the price each was last marked at.
Close(b, S) == [Pay(b, SumOver(S, LAMBDA c : Notional(b, c)))
                  EXCEPT !.units = [c \in Coins |-> IF c \in S THEN 0 ELSE b.units[c]]]
Unwind(b) == Pay(b, SumOver(Held(b), LAMBDA c : Notional(b, c)))

\* Move to the dollar targets: every difference from what is held trades.
Resize(b, target, now) ==
  LET gap(c) == Magnitude(target[c] - b.units[c] * b.mark[c])
      wanted == {c \in Coins : target[c] # 0}
  IN  [Pay(b, SumOver(Coins, gap)) EXCEPT
         !.units = [c \in Coins |-> IF c \in wanted THEN target[c] \div now[c].px ELSE 0],
         !.mark  = [c \in Coins |-> IF c \in wanted THEN now[c].px ELSE b.mark[c]],
         !.rebalances = @ + 1]
------------------------------------------------------------------------------
(* The dollar-neutral carry: rank the live perps by trailing funding, long   *)
(* the bottom, short the top, equal dollars a side.                          *)
(* Source: research/cross/portfolio.py                                       *)

\* A held coin without a print is a hole while it is still listed, and a
\* forced exit at its last mark after that.
Delisted(b, now, left) == {c \in Held(b) : ~Priced(now[c]) /\ c \in left}
Silent(b, now, left)   == {c \in Held(b) : ~Priced(now[c]) /\ c \notin left}

\* Mutant: a hole is taken for a print at the previous close, and re-marked.
CrossMarkLosesMark(b, now, left) ==
  LET live  == {c \in Held(b) : Priced(now[c])}
      move(c) == b.units[c] * (now[c].px - b.mark[c])
      pay(c)  == -b.units[c] * b.mark[c] * now[c].rate
      kept    == Close(b, Delisted(b, now, left))
  IN  [kept EXCEPT !.price = @ + SumOver(live, move), !.funding = @ + SumOver(live, pay),
                   !.mark  = [c \in Coins |-> now[c].px],
                   !.forced = @ + Cardinality(Delisted(b, now, left)),
                   !.holes  = @ + Cardinality(Silent(b, now, left))]

\* The day's move and funding, on the notional each position carried in.
CrossMark(b, now, left) ==
  LET live    == {c \in Held(b) : Priced(now[c])}
      move(c) == b.units[c] * (now[c].px - b.mark[c])
      pay(c)  == -b.units[c] * b.mark[c] * now[c].rate
      gross   == SumOver(live, LAMBDA c : Notional(b, c))
      kept    == Close(b, Delisted(b, now, left))
      marked  == [kept EXCEPT !.price = @ + SumOver(live, move),
                              !.funding = @ + SumOver(live, pay),
                              !.mark = [c \in Coins |-> IF c \in live THEN now[c].px ELSE @[c]],
                              !.forced = @ + Cardinality(Delisted(b, now, left)),
                              !.holes = @ + Cardinality(Silent(b, now, left))]
  IN  [marked EXCEPT !.peak = Max({@, gross - 2 * NetPnl(marked)})]

SideCount(live) == IF NamesPerSide > 0 THEN Max({1, Min({NamesPerSide, live \div 2})})
                   ELSE Max({1, live \div 10})

\* _signal: the mean over the window's days the coin was live on.
Seen(window, c)   == {d \in DOMAIN window : Priced(window[d][c])}
Income(window, c) == SumOver(Seen(window, c), LAMBDA d : window[d][c].rate)
Cheaper(window, a, b) ==
  LET x == Income(window, a) * Cardinality(Seen(window, b))
      y == Income(window, b) * Cardinality(Seen(window, a))
  IN  x < y \/ (x = y /\ a < b)

Scored(window) ==
  LET need == Max({1, Len(window) \div 2})
  IN  {c \in Coins : Priced(Last(window)[c]) /\ Cardinality(Seen(window, c)) >= need}

\* Mutant: each side is one name too wide, and the long side wins a clash.
CrossTargetOverlaps(window) ==
  LET ranked == SetToSortSeq(Scored(window), LAMBDA a, b : Cheaper(window, a, b))
      side   == SideCount(Len(ranked)) + 1
      longs  == {ranked[k] : k \in 1..side}
      shorts == {ranked[k] : k \in (Len(ranked) - side + 1)..Len(ranked)} \ longs
  IN  [c \in Coins |-> IF c \in longs THEN HalfGross \div side
                       ELSE IF c \in shorts THEN -(HalfGross \div side) ELSE 0]

CrossTarget(window) ==
  LET ranked == SetToSortSeq(Scored(window), LAMBDA a, b : Cheaper(window, a, b))
      side   == SideCount(Len(ranked))
      longs  == {ranked[k] : k \in 1..side}
      shorts == {ranked[k] : k \in (Len(ranked) - side + 1)..Len(ranked)}
  IN  [c \in Coins |-> IF c \in shorts THEN -(HalfGross \div side)
                       ELSE IF c \in longs THEN HalfGross \div side ELSE 0]

\* A thin cross-section leaves the book as it is.
CrossRebalance(b, window) ==
  IF Cardinality(Scored(window)) < MinCrossSection THEN b
  ELSE Resize(b, CrossTarget(window), Last(window))
------------------------------------------------------------------------------
(* Time-series momentum: long what rose over the lookback, short what fell,  *)
(* equal weight, gross notional fixed.                                       *)
(* Source: research/momentum/engine.py                                       *)

\* No print is a death: the position leaves at the last printed price.
MomentumMark(b, now) ==
  LET live    == {c \in Held(b) : Priced(now[c])}
      dead    == Held(b) \ live
      move(c) == b.units[c] * (now[c].px - b.mark[c])
  IN  [Close(b, dead) EXCEPT
         !.price  = @ + SumOver(live, move),
         !.forced = @ + Cardinality(dead),
         !.mark   = [c \in Coins |-> IF Priced(now[c]) THEN now[c].px ELSE @[c]]]

Signal(past, now, c) ==
  IF ~Priced(past[c]) \/ ~Priced(now[c]) \/ now[c].px = past[c].px THEN 0
  ELSE IF now[c].px > past[c].px THEN 1 ELSE -1

\* Fewer signals than MinNames: the book goes flat.
MomentumTarget(past, now) ==
  LET names == {c \in Coins : Signal(past, now, c) # 0}
      n     == Cardinality(names)
  IN  [c \in Coins |-> IF n < MinNames THEN 0 ELSE Signal(past, now, c) * (Gross \div n)]

MomentumRebalance(b, past, now) == Resize(b, MomentumTarget(past, now), now)
------------------------------------------------------------------------------
(* Long spot, short perp, equal units; both legs are resized to the entry    *)
(* notional when the perp's notional leaves the band.                        *)
(* Source: research/carry/trade.py                                           *)

Legs(units) == [c \in Coins |-> IF c = Spot THEN units ELSE IF c = Perp THEN -units ELSE 0]

\* Entry pays both legs on the entry notional; the units are the spot leg's.
Enter(now) ==
  LET units == EntryNotional \div now[Spot].px
  IN  [Pay(EmptyBook, 2 * EntryNotional) EXCEPT
         !.units = Legs(units), !.mark = [c \in Coins |-> now[c].px],
         !.entry = now[Perp].px, !.peak = EntryNotional]

\* One interval: both legs move, the short collects on its notional at the
\* close; twice the margin it needs is half its notional and its open loss.
Interval(b, now) ==
  LET short == -b.units[Perp]
      moved == [b EXCEPT
        !.price   = @ + b.units[Spot] * (now[Spot].px - b.mark[Spot])
                      - short * (now[Perp].px - b.mark[Perp]),
        !.funding = @ + now[Perp].rate * short * now[Perp].px,
        !.mark    = [c \in Coins |-> now[c].px]]
      need  == short * now[Perp].px + 2 * short * (now[Perp].px - b.entry) - 2 * moved.funding
  IN  [moved EXCEPT !.peak = Max({@, need})]

\* Both legs trade back to the entry notional at the perp's price.
ResetToTarget(b, now) ==
  LET short  == -b.units[Perp]
      target == EntryNotional \div now[Perp].px
      trade(c) == Magnitude(target - short) * now[c].px
  IN  IF Magnitude(short * now[Perp].px - EntryNotional) <= Band THEN b
      ELSE [Pay(b, SumOver({Spot, Perp}, trade)) EXCEPT
              !.units = Legs(target), !.entry = now[Perp].px, !.rebalances = @ + 1]
------------------------------------------------------------------------------

Init == /\ plan \in Desks /\ tape = <<>> /\ gone = {}
        /\ book = EmptyBook /\ path = <<>>

\* The first simulated day is the one after the lookback; it also rebalances.
Trading(day)  == day > plan.lookback
Rebalances(day) == (day - plan.lookback - 1) % plan.every = 0
Finished(day, b) == IF day = LastDay THEN Unwind(b) ELSE b

CrossDay(days, left) ==
  LET day    == Len(days)
      marked == CrossMark(book, days[day], left)
      window == SubSeq(days, day - plan.lookback, day)
  IN  IF Rebalances(day) THEN CrossRebalance(marked, window) ELSE marked

MomentumDay(days) ==
  LET day    == Len(days)
      marked == MomentumMark(book, days[day])
  IN  IF Rebalances(day)
      THEN MomentumRebalance(marked, days[day - plan.lookback], days[day]) ELSE marked

CarryDay(days) ==
  LET day == Len(days) IN
  IF day = plan.lookback + 1 THEN Enter(days[day])
  ELSE ResetToTarget(Interval(book, days[day]), days[day])

\* A tape day: at least one live coin; an unlisted coin never prints again.
Listed(prints, left) ==
  /\ \E c \in Coins : Priced(prints[c])
  /\ \A c \in Coins : c \in left => ~Priced(prints[c])

Day(prints, left) ==
  LET days == Append(tape, prints)
      day  == Len(days)
      next == CASE plan.desk = "cross"    -> CrossDay(days, left)
                [] plan.desk = "momentum" -> MomentumDay(days)
                [] plan.desk = "carry"    -> CarryDay(days)
  IN  /\ day <= LastDay
      /\ gone \subseteq left /\ Listed(prints, left)
      /\ day = LastDay => \A c \in Coins : Priced(prints[c]) \/ c \in left
      /\ plan.desk = "carry" => \A c \in Coins : Priced(prints[c])
      /\ plan.desk # "cross" => left = {c \in Coins : day = LastDay /\ ~Priced(prints[c])}
      /\ tape' = days /\ gone' = left /\ UNCHANGED plan
      /\ book' = IF Trading(day) THEN Finished(day, next) ELSE book
      /\ path' = Append(path, IF Trading(day) THEN next.units ELSE book.units)

DayPrints == {p \in [Coins -> UNION {Menu[c] : c \in Coins}] : \A c \in Coins : p[c] \in Menu[c]}
Next == \E prints \in DayPrints :
          \E left \in SUBSET {c \in Coins : ~Priced(prints[c])} : Day(prints, left)
Spec == Init /\ [][Next]_vars

-----------------------------------------------------------------------------
\* The last price instrument c printed by the close of day d.
LastPrint(c, d) ==
  LET printed == {e \in 1..d : Priced(tape[e][c])}
  IN  IF printed = {} THEN 0 ELSE tape[Max(printed)][c].px

HeldInto(d, c) == IF d = 1 THEN 0 ELSE path[d - 1][c]
Days == DOMAIN tape

(* The price P&L of every desk is its holdings times the moves of the last   *)
(* printed price: a hole, a delisting or a resize neither drops nor invents  *)
(* a move (simulate: "a hole in one instrument's series cannot silently drop *)
(* a day of its P&L").                                                       *)
PriceIsMarkToMarket ==
  book.price = SumOver(Days \X Coins, LAMBDA x :
                 IF x[1] = 1 THEN 0
                 ELSE HeldInto(x[1], x[2]) * (LastPrint(x[2], x[1]) - LastPrint(x[2], x[1] - 1)))

Turnover == SumOver(Days \X Coins, LAMBDA x :
              Magnitude(path[x[1]][x[2]] - HeldInto(x[1], x[2])) * LastPrint(x[2], x[1]))
AtClose  == IF Len(tape) < LastDay THEN 0
            ELSE SumOver(Coins, LAMBDA c : Magnitude(path[LastDay][c]) * LastPrint(c, LastDay))

(* Funding accrues on the notional a position carried into the interval      *)
(* (carry: "applied to the notional carried into that interval").            *)
FundingOnCarriedNotional ==
  book.funding = SumOver(Days \X Coins, LAMBDA x :
    IF x[1] > plan.lookback /\ Priced(tape[x[1]][x[2]])
    THEN -HeldInto(x[1], x[2]) * LastPrint(x[2], x[1] - 1) * tape[x[1]][x[2]].rate ELSE 0)

(* Every change of a long-short book is paid for exactly once - rebalances,  *)
(* forced exits and the final unwind, each at the price it trades at - and   *)
(* the cross-sectional carry is funded on what it carried into the day.      *)
LongShortAccountsExact ==
  /\ plan.desk # "carry" => /\ book.traded = Turnover + AtClose
                            /\ book.cost = Fee * book.traded
  /\ plan.desk = "cross" => FundingOnCarriedNotional

Worth(c) == book.units[c] * book.mark[c]
Side(sign) == {c \in Coins : sign * book.units[c] > 0}
TrailingMean(c) ==
  LET window == SubSeq(tape, Len(tape) - plan.lookback, Len(tape))
      live   == {d \in DOMAIN window : Priced(window[d][c])}
  IN  [sum |-> SumOver(live, LAMBDA d : window[d][c].rate), n |-> Cardinality(live)]
NoDearer(c, e) == TrailingMean(c).sum * TrailingMean(e).n <= TrailingMean(e).sum * TrailingMean(c).n

(* A rebalance leaves equal dollars on both sides of the carry, every long   *)
(* paid no more than every short over the window; momentum is flat or holds  *)
(* exactly its gross notional ("equal dollars a side", "gross notional 1.0").*)
RebalancedBook ==
  LET size(S) == SumOver(S, LAMBDA c : Magnitude(Worth(c))) IN
  CASE plan.desk = "cross" ->
         /\ size(Side(1)) = HalfGross /\ size(Side(-1)) = HalfGross
         /\ \A l \in Side(1), s \in Side(-1) : NoDearer(l, s)
    [] plan.desk = "momentum" -> size(Coins) \in {0, Gross}
    [] plan.desk = "carry" -> Worth(Perp) = -EntryNotional
RebalancesBalance ==
  [][book'.rebalances > book.rebalances => RebalancedBook']_vars
------------------------------------------------------------------------------
(* The liquidation scan: a rise of half the margin liquidates, a move beyond *)
(* the drift allowed rebalances. Source: research/carry/risk.py              *)
Scans == [margin : Margins, banded : BOOLEAN]   \* leverage_sweep, rebalance_band

SweepInit ==
  /\ steps = 1 /\ price \in Prices /\ rising = TRUE
  /\ entry = [s \in Scans |-> price]
  /\ breaches = [s \in Scans |-> 0] /\ excursion = [s \in Scans |-> 0]

Larger(a, b) == IF a >= b THEN a ELSE b
Rise(s, p) == ((p - entry[s]) * 100) \div entry[s]
Liquidated(s, p) == 200 * (p - entry[s]) >= s.margin * entry[s]
Rebalanced(s, p) == /\ s.banded
                    /\ 100 * Larger(p - entry[s], entry[s] - p) > Drift * entry[s]

\* A liquidated short is re-established at the price that liquidated it.
Scan(p) ==
  /\ excursion' = [s \in Scans |-> Larger(excursion[s], Rise(s, p))]
  /\ breaches' = [s \in Scans |-> breaches[s] + IF Liquidated(s, p) THEN 1 ELSE 0]
  /\ entry' = [s \in Scans |-> IF Liquidated(s, p) \/ Rebalanced(s, p) THEN p ELSE entry[s]]

SweepNext ==
  \E p \in Prices :
    /\ steps < MaxSteps /\ steps' = steps + 1
    /\ price' = p /\ rising' = (rising /\ p >= price) /\ Scan(p)

Closer(s, t) == s.margin < t.margin /\ s.banded = t.banded

(* What the sweep is read for: the excursion reported is past the threshold   *)
(* exactly when a breach is counted; less margin never breaches less often    *)
(* ("the two move in opposite directions"), as long as the band is narrower   *)
(* than the threshold of the smaller margin or nothing is rebalanced; and on  *)
(* a path that only rises, a rebalance never adds a breach ("rebalancing is   *)
(* itself liquidation protection", test_carry.py).                            *)
SweepIsConsistent ==
  \A s \in Scans :
    /\ breaches[s] > 0 <=> 2 * excursion[s] >= s.margin
    /\ \A t \in Scans :
         Closer(s, t) /\ (s.banded => 2 * Drift < s.margin) => breaches[s] >= breaches[t]
    /\ rising /\ s.banded => breaches[s] <= breaches[[s EXCEPT !.banded = FALSE]]
==============================================================================
