---------------------------- MODULE SampleStream -----------------------------
(* One day of sample extraction: the merged stream of a venue's book, touch  *)
(* and trade rows and the reference venue's books drives the labelers, the   *)
(* sampler and the feature engine; rows wait until their labels resolve and  *)
(* are written in order. Forward labels resolve as the stream advances: the  *)
(* return to the last mid at or before each horizon's deadline, and the      *)
(* barrier touched first. A mid is positive; 0 stands for the code's None.   *)
(* Returns are in whole units of 1/BpsUnit.                                  *)
(* Source: research/pipeline.py, research/stream, research/sampling,         *)
(* research/features, research/labels                                        *)
EXTENDS Integers, Sequences, FiniteSetsExt, Functions

CONSTANTS Widths,       \* window lengths of every rolling column
          MaxAge,       \* INTERARRIVAL_MAX_AGE_NS
          MaxTrades,    \* INTERARRIVAL_TRADES
          BinNs, WindowBins, \* cross-venue grid
          None
EngineBounds == /\ Widths \subseteq Nat \ {0} /\ Widths # {} /\ IsFiniteSet(Widths)
                /\ {MaxAge, MaxTrades, BinNs, WindowBins} \subseteq Nat \ {0}

(* The streaming feature engine of one venue and symbol: windows of order    *)
(* flow, signed volume and returns, the current book and touch, and the      *)
(* cross-venue tracker. A sample is computed before its own event is applied.*)
(* Log returns are abstracted to mid differences; one operator per column    *)
(* family. Mids, prices and timestamps are positive, 0 is the code's None.   *)

\* ---- rolling windows (features/rolling.py): values enter at the time of their
\* event and leave exactly `width` later; the total is kept by adding and
\* subtracting, and items are pruned from the front only.
EmptyWindow == [items |-> <<>>, total |-> 0]

AddValue(w, ts, v) == [items |-> Append(w.items, [ts |-> ts, v |-> v]),
                       total |-> w.total + v]

\* Mutant: an item on the edge of the window is kept.
StaleLate(w, cutoff) ==
  CHOOSE n \in 0..Len(w.items) :
    /\ \A i \in 1..n : w.items[i].ts < cutoff
    /\ n = Len(w.items) \/ w.items[n + 1].ts >= cutoff

\* How many items the while loop pops from the front.
Stale(w, cutoff) ==
  CHOOSE n \in 0..Len(w.items) :
    /\ \A i \in 1..n : w.items[i].ts <= cutoff
    /\ n = Len(w.items) \/ w.items[n + 1].ts > cutoff

Sum(f) == FoldFunction(+, 0, f)

Prune(w, width, now) ==
  LET n == Stale(w, now - width)
  IN  [items |-> SubSeq(w.items, n + 1, Len(w.items)),
       total |-> w.total - Sum([i \in 1..n |-> w.items[i].v])]

\* ---- order book columns (features/book.py)
Mid(b)     == b.bid + b.ask          \* twice the mid: kept whole
HasMid(b)  == b.bid > 0 /\ b.ask > 0  \* an empty side has price 0
Crossed(b) == HasMid(b) /\ b.bid > b.ask
Usable(b)  == b.valid /\ ~Crossed(b)
Quoted(b)  == b.valid /\ HasMid(b)
OfiBest(p, c) == (IF c.bid >= p.bid THEN c.bq ELSE 0) - (IF c.bid <= p.bid THEN p.bq ELSE 0)
               - (IF c.ask <= p.ask THEN c.aq ELSE 0) + (IF c.ask >= p.ask THEN p.aq ELSE 0)
OfiDeep(p, c) == (c.bdepth - p.bdepth) - (c.adepth - p.adepth)
Spread(b)     == b.ask - b.bid
Imbalance(b)  == <<b.bq - b.aq, b.bq + b.aq>>

\* ---- trade signing (features/signing.py)
Sign(flagged, side, price, lastPrice, lastSign) ==
  CASE flagged /\ side = "buy"  -> 1
    [] flagged /\ side = "sell" -> -1
    [] OTHER -> IF lastPrice = 0 THEN 0
                ELSE IF price > lastPrice THEN 1
                ELSE IF price < lastPrice THEN -1 ELSE lastSign

\* ---- cross-venue tracker (features/cross_venue.py)
NewCross == [mids |-> [primary |-> 0, reference |-> 0],
             bins |-> [primary |-> <<>>, reference |-> <<>>], diff |-> EmptyWindow]

MidDiff(x) == x.mids["primary"] - x.mids["reference"]
BothSeen(x) == x.mids["primary"] # 0 /\ x.mids["reference"] # 0

CrossOnMid(x, role, ts, mid) ==
  LET bin  == ts \div BinNs
      old  == x.bins[role]
      kept == {b \in DOMAIN old \cup {bin} : b >= bin - WindowBins}
      y == [x EXCEPT !.mids[role] = mid,
                     !.bins[role] = [b \in kept |-> IF b = bin THEN mid ELSE old[b]]]
  IN  IF role = "primary" /\ BothSeen(y)
      THEN [y EXCEPT !.diff = AddValue(@, ts, MidDiff(y))] ELSE y

\* ---- the engine (features/engine.py)
Series == {"ofi", "deep", "signed", "pq", "qty", "count", "r2", "ret"}
NewEngine == [win |-> [s \in Series |-> [w \in Widths |-> EmptyWindow]],
              prev |-> None, touch |-> None, mid |-> 0, trades |-> <<>>,
              price |-> 0, sign |-> 0, tradeNs |-> 0, cross |-> NewCross]

AddTo(win, series, ts, v) ==
  [win EXCEPT ![series] = [w \in Widths |-> AddValue(win[series][w], ts, v)]]

ObserveMid(g, ts, mid) ==
  LET r == mid - g.mid
      w == IF g.mid = 0 THEN g.win
           ELSE AddTo(AddTo(g.win, "r2", ts, r * r), "ret", ts, r)
  IN  [g EXCEPT !.win = w, !.mid = mid, !.cross = CrossOnMid(@, "primary", ts, mid)]

OnBbo(g, e) == LET h == [g EXCEPT !.touch = e.b]
               IN  IF HasMid(e.b) THEN ObserveMid(h, e.t, Mid(e.b)) ELSE h

OnBook(g, e, prefersBbo) ==
  LET flow == IF g.prev # None /\ Quoted(g.prev) /\ Quoted(e.b)
              THEN AddTo(AddTo(g.win, "ofi", e.t, OfiBest(g.prev, e.b)),
                         "deep", e.t, OfiDeep(g.prev, e.b))
              ELSE g.win
      f == [g EXCEPT !.win = flow]
      h == IF ~prefersBbo /\ Usable(e.b) /\ HasMid(e.b) THEN ObserveMid(f, e.t, Mid(e.b)) ELSE f
  IN  [h EXCEPT !.prev = e.b]

SignedQty(g, e, flagged) == Sign(flagged, e.side, e.price, g.price, g.sign) * e.qty

LastOf(s, n) == IF Len(s) > n THEN SubSeq(s, Len(s) - n + 1, Len(s)) ELSE s

OnTrade(g, e, flagged) ==
  LET sign == Sign(flagged, e.side, e.price, g.price, g.sign)
      w1 == AddTo(g.win, "signed", e.t, sign * e.qty)
      w2 == AddTo(AddTo(w1, "pq", e.t, e.price * e.qty), "qty", e.t, e.qty)
  IN  [g EXCEPT !.win = AddTo(w2, "count", e.t, 1),
                !.trades = LastOf(Append(@, e.t), MaxTrades),
                !.price = e.price, !.sign = IF sign # 0 THEN sign ELSE @, !.tradeNs = e.t]

OnEvent(g, e, venue) ==
  CASE e.k = "bbo"   -> OnBbo(g, e)
    [] e.k = "book"  -> OnBook(g, e, venue.bbo)
    [] e.k = "trade" -> OnTrade(g, e, venue.flagged)

\* compute() prunes every window it totals; nothing else ever prunes one.
PruneAll(g, t) ==
  [g EXCEPT !.win = [s \in Series |-> [w \in Widths |-> Prune(g.win[s][w], w, t)]]]

Recent(trades, t) == LET Young(ts) == ts >= t - MaxAge IN SelectSeq(trades, Young)

\* The columns of one sample, its windows just pruned. Columns a venue's feed
\* cannot support are None.
Compute(g, t, venue) ==
  LET Total(s) == [w \in Widths |-> g.win[s][w].total]
      face == IF venue.bbo /\ g.touch # None THEN g.touch
              ELSE IF ~venue.bbo /\ g.prev # None /\ Usable(g.prev) /\ HasMid(g.prev) THEN g.prev ELSE None
  IN [ofi   |-> IF venue.depth THEN Total("ofi") ELSE None,
      deep  |-> IF venue.depth THEN Total("deep") ELSE None,
      signed |-> Total("signed"), count |-> Total("count"),
      vwap  |-> <<Total("pq"), Total("qty")>>, r2 |-> Total("r2"), ret |-> Total("ret"),
      spread |-> IF face # None /\ HasMid(face) THEN Spread(face) ELSE None,
      qimb  |-> IF face = None THEN None ELSE Imbalance(face),
      gaps  |-> LET r == Recent(g.trades, t)
                IN  IF Len(r) < 3 THEN None ELSE [i \in 1..Len(r) - 1 |-> r[i + 1] - r[i]],
      since |-> IF g.tradeNs = 0 THEN None ELSE t - g.tradeNs,
      diff  |-> IF BothSeen(g.cross) THEN MidDiff(g.cross) ELSE None]
-----------------------------------------------------------------------------
CONSTANTS Horizons, TimeLimit, BarrierMult, BpsUnit, MakerBps, TakerBps,
          FeePerContract, Multiplier
LabelBounds == /\ Horizons \subseteq Nat \ {0} /\ Horizons # {}
               /\ IsFiniteSet(Horizons)
               /\ {TimeLimit, BarrierMult, BpsUnit, Multiplier} \subseteq Nat \ {0}
               /\ {MakerBps, TakerBps, FeePerContract} \subseteq Nat /\ MakerBps <= TakerBps

MaxHorizon == CHOOSE h \in Horizons : \A g \in Horizons : g <= h
RetBps(exit, entry) == (BpsUnit * (exit - entry)) \div entry

-----------------------------------------------------------------------------
\* Fixed horizons: one first-in-first-out queue of deadlines per horizon.
NewFixed == [pending |-> [h \in Horizons |-> <<>>], last |-> 0]

FixedOnSample(f, i, t, entry) ==
  [f EXCEPT !.pending = [h \in Horizons |->
     Append(f.pending[h], [deadline |-> t + h, index |-> i, entry |-> entry])]]

\* The run of due deadlines at the head of a queue.
DueCount(q, limit) ==
  CHOOSE n \in 0..Len(q) : /\ \A i \in 1..n : q[i].deadline <= limit
                           /\ n = Len(q) \/ q[n + 1].deadline > limit

ResolveDue(f, limit, exit) ==
  [pending |-> [h \in Horizons |-> LET q == f.pending[h]
                                   IN  SubSeq(q, DueCount(q, limit) + 1, Len(q))],
   done |-> UNION {{[index |-> f.pending[h][i].index, h |-> h,
                     ret |-> RetBps(exit, f.pending[h][i].entry)]
                      : i \in 1..DueCount(f.pending[h], limit)} : h \in Horizons}]

\* Mutant: every due deadline resolves against the mid just seen, however late.
FixedOnMidLate(f, ts, mid) ==
  LET now == ResolveDue(f, ts, mid)
  IN  [state |-> [pending |-> now.pending, last |-> mid], done |-> now.done]

\* Deadlines before ts resolve against the previous mid, one at ts against this.
FixedOnMid(f, ts, mid) ==
  LET before == IF f.last = 0 THEN [pending |-> f.pending, done |-> {}]
                ELSE ResolveDue(f, ts - 1, f.last)
      now    == ResolveDue([f EXCEPT !.pending = before.pending], ts, mid)
  IN  [state |-> [pending |-> now.pending, last |-> mid],
       done  |-> before.done \cup now.done]

FixedFinalize(f) ==
  UNION {{[index |-> f.pending[h][i].index, h |-> h] : i \in 1..Len(f.pending[h])}
           : h \in Horizons}

-----------------------------------------------------------------------------
\* Triple barrier: profit target, stop, time limit.
NewBarrier == [active |-> {}, last |-> 0]

Arms(entry, vol) == vol > 0 /\ entry > 0

BarrierOnSample(b, i, t, entry, vol) ==
  [b EXCEPT !.active = @ \cup {[index |-> i, entry |-> entry, deadline |-> t + TimeLimit,
     upper |-> entry + BarrierMult * vol, lower |-> entry - BarrierMult * vol]}]

Expired(a, ts)   == ts > a.deadline
Touched(a, mid)  == mid >= a.upper \/ mid <= a.lower
Ends(a, ts, mid) == Expired(a, ts) \/ Touched(a, mid)

Outcome(b, a, ts, mid) ==
  IF Expired(a, ts)
  THEN [index |-> a.index, label |-> 0,
        ret |-> RetBps(IF b.last # 0 THEN b.last ELSE a.entry, a.entry)]
  ELSE [index |-> a.index, label |-> IF mid >= a.upper THEN 1 ELSE -1,
        ret |-> RetBps(mid, a.entry)]

BarrierOnMid(b, ts, mid) ==
  [state |-> [active |-> {a \in b.active : ~Ends(a, ts, mid)}, last |-> mid],
   done  |-> {Outcome(b, a, ts, mid) : a \in {a \in b.active : Ends(a, ts, mid)}}]

BarrierFinalize(b) == {a.index : a \in b.active}

-----------------------------------------------------------------------------
\* A per-contract fee becomes a rate only over the notional it is charged on.
FeeBpsAt(mode, perContract, price) ==
  IF perContract THEN (BpsUnit * FeePerContract) \div (price * Multiplier)
  ELSE IF mode = "maker" THEN MakerBps ELSE TakerBps

RoundTripCost(mode, perContract, spread, price) ==
  2 * FeeBpsAt(mode, perContract, price) + (IF mode = "taker" THEN spread ELSE 0)

NetLabel(ret, cost) == IF ret > cost THEN 1 ELSE IF ret < -cost THEN -1 ELSE 0

-----------------------------------------------------------------------------
CONSTANTS Days,        \* the days extracted, each a record of
                       \*   venue: [bbo, depth, flagged, perContract : BOOLEAN],
                       \*   sampler: its kind, gaps: merged windows without data,
                       \*   warm: how many events are the previous day's tail,
                       \*   events: what its files may hold (at time 0), max: how many
          Steps,       \* time between neighbouring events
          Lookback,    \* FEATURE_LOOKBACK_NS
          MaxPending   \* max_pending of _PendingSamples
BookState == [bid : Nat, bq : Nat, ask : Nat, aq : Nat, bdepth : Nat, adepth : Nat, valid : BOOLEAN]
\* What is read: a trade has a price, everything else a book. Only a venue whose
\* mids are its touch's (REQUIRED_CHANNELS) has touch rows in its book files.
IsEvent(e) ==
  /\ e \in [t : Nat, k : {"book", "bbo", "trade", "ref"}, b : BookState \cup {None},
            price : Nat, qty : Nat, side : {"buy", "sell", None}]
  /\ IF e.k = "trade" THEN e.price > 0 ELSE e.b # None
StreamBounds == /\ {Lookback, MaxPending} \subseteq Nat \ {0} /\ Steps \subseteq Nat
                /\ None \notin Int /\ None \notin BookState
                /\ None \notin [index : Nat, label : -1..1, ret : Int]
                /\ \A d \in Days : /\ {d.venue.bbo, d.venue.depth, d.venue.flagged,
                                       d.venue.perContract} \subseteq BOOLEAN
                                   /\ d.gaps \subseteq Int \X Int
                                   /\ \A e \in d.events : IsEvent(e) /\ (e.k = "bbo" => d.venue.bbo)

\* ---- samplers (sampling/bars.py): on clock boundaries, every N events of one
\* kind, or when the signed flow since the last sample is large enough.
CONSTANTS IntervalNs, EveryN, Threshold
SamplerBounds == /\ IntervalNs \in Nat \ {0}
                 /\ EveryN \in Nat \ {0}
                 /\ Threshold \in Nat \ {0}

NewSampler(kind) == [kind |-> kind, next |-> 0, seen |-> 0, cum |-> 0]

Abs(x) == IF x < 0 THEN -x ELSE x
NextBoundary(t) == (t \div IntervalNs + 1) * IntervalNs

\* The first event only anchors the clock (next = 0 is the code's None).
Fires(s, e, signed) ==
  CASE s.kind = "time" -> s.next # 0 /\ e.t >= s.next
    [] s.kind \in {"book", "trade"} -> e.k = s.kind /\ s.seen + 1 >= EveryN
    [] s.kind = "imbalance" -> e.k = "trade" /\ Abs(s.cum + signed) >= Threshold

Update(s, e, signed) ==
  LET fired == Fires(s, e, signed) IN
  CASE s.kind = "time" ->
         [s EXCEPT !.next = IF @ = 0 \/ fired THEN NextBoundary(e.t) ELSE @]
    [] s.kind \in {"book", "trade"} ->
         [s EXCEPT !.seen = IF e.k # s.kind THEN @ ELSE IF fired THEN 0 ELSE @ + 1]
    [] s.kind = "imbalance" ->
         [s EXCEPT !.cum = IF e.k # "trade" THEN @ ELSE IF fired THEN 0 ELSE @ + signed]

VARIABLES day, stream, eng, sampler, fixed, barrier, pending, file, index, closed
vars == <<day, stream, eng, sampler, fixed, barrier, pending, file, index, closed>>

venue == day.venue
gaps  == day.gaps
Positions == 1..Len(stream)
Now == IF stream = <<>> THEN 0 ELSE stream[Len(stream)].t

\* heapq.merge of the book file, the trade file and the reference file.
Rank(e) == CASE e.k = "book" -> 0 [] e.k = "bbo" -> 1 [] e.k = "trade" -> 2 [] e.k = "ref" -> 3
SameFile(a, b) == {a.k, b.k} \subseteq {"book", "bbo"} \/ a.k = b.k
MayFollow(a, b) == a.t < b.t \/ (a.t = b.t /\ (SameFile(a, b) \/ Rank(a) <= Rank(b)))

\* ---- _PendingSamples: rows in flight, flushed in sample order
NewPending == [order |-> <<>>, next |-> 1, rows |-> <<>>, remaining |-> <<>>]
Drop(f, keys) == [i \in DOMAIN f \ keys |-> f[i]]
Update1(f, i, v) == [j \in DOMAIN f \cup {i} |-> IF j = i THEN v ELSE f[j]]

ReadyCount(p) ==
  LET Ready(i) == p.remaining[p.order[i]] <= 0
      waiting  == p.next..Len(p.order)
  IN  CHOOSE n \in 0..Len(p.order) - p.next + 1 :
        /\ \A i \in waiting : i < p.next + n => Ready(i)
        /\ p.next + n \in waiting => ~Ready(p.next + n)

\* Rows leave from the head of the order; what is written is appended.
Flush(p, n) ==
  LET gone == SubSeq(p.order, p.next, p.next + n - 1)
      keys == {gone[i] : i \in 1..n}
  IN  [p |-> [p EXCEPT !.next = @ + n, !.rows = Drop(@, keys), !.remaining = Drop(@, keys)],
       out |-> [i \in 1..n |-> p.rows[gone[i]]]]
FlushReady(p) == Flush(p, ReadyCount(p))

Joined(p, i, row, needed) ==
  [p EXCEPT !.order = Append(@, i), !.rows = Update1(@, i, row), !.remaining = Update1(@, i, needed)]
\* Too many wait: the oldest is let go with the labels it has.
LetGo(p) == [p EXCEPT !.remaining[p.order[p.next]] = 0]

AddPending(p, i, row, needed) ==
  LET q == Joined(p, i, row, needed)
  IN  IF Cardinality(DOMAIN q.rows) > MaxPending THEN FlushReady(LetGo(q))
      ELSE [p |-> q, out |-> <<>>]

Cost(mode, row) ==
  LET spread == IF row.feats.spread = None THEN 0
                ELSE (2 * BpsUnit * row.feats.spread) \div row.entry
  IN  RoundTripCost(mode, venue.perContract, spread, row.entry)

\* The labels one event resolves, for one row: told of a horizon, it takes the
\* return and both net labels; told of its barriers, their outcome.
Resolved(row, done, outcomes) ==
  LET told(h)  == {d \in done : d.index = row.index /\ d.h = h}
      ret(h)   == (CHOOSE d \in told(h) : TRUE).ret
      Net(mode, old) == [h \in Horizons |-> IF told(h) = {} THEN old[h]
                                            ELSE NetLabel(ret(h), Cost(mode, row))]
      ended    == {o \in outcomes : o.index = row.index}
  IN  [row EXCEPT !.ret = [h \in Horizons |-> IF told(h) = {} THEN @[h] ELSE ret(h)],
                  !.maker = Net("maker", @), !.taker = Net("taker", @),
                  !.tb = IF ended = {} THEN @ ELSE CHOOSE o \in ended : TRUE]

\* Rows still in flight take theirs, flushed ones ignore it.
LabelsOf(i, done, outcomes) == Cardinality({d \in done : d.index = i})
                              + Cardinality({o \in outcomes : o.index = i})
TakeLabels(p, done, outcomes) ==
  [p EXCEPT !.rows = [i \in DOMAIN @ |-> Resolved(@[i], done, outcomes)],
            !.remaining = [i \in DOMAIN @ |-> @[i] - LabelsOf(i, done, outcomes)]]

\* ---- the loop of extract_samples
OverlapsGap(lo, hi) == \E g \in gaps : g[1] < hi /\ g[2] > lo

\* Mutant: a fixed horizon, shorter than the longest label.
SafeSpanFixed(t) == <<t - Lookback, t + 1>>
\* The longest label decides how far ahead of a gap a sample must stay.
SafeSpan(t) == <<t - Lookback, t + MaxHorizon>>

LabelEvent(e) == e.k = "book" /\ Quoted(e.b)

\* Labels first: the event's mid is information after every sample in flight.
FixedStep(e) == IF LabelEvent(e) THEN FixedOnMid(fixed, e.t, Mid(e.b))
                ELSE [state |-> fixed, done |-> {}]
BarrierStep(e) == IF LabelEvent(e) THEN BarrierOnMid(barrier, e.t, Mid(e.b))
                  ELSE [state |-> barrier, done |-> {}]
Labelled(e) == FlushReady(TakeLabels(pending, FixedStep(e).done, BarrierStep(e).done))

\* The sample decision and the features come from the state before the event,
\* a trade's own signed quantity apart.
Flow(e)  == IF e.k = "trade" THEN SignedQty(eng, e, venue.flagged) ELSE 0
Takes(e) == Fires(sampler, e, Flow(e)) /\ Len(stream) >= day.warm
Pruned(e) == IF Takes(e) THEN PruneAll(eng, e.t) ELSE eng

InGap(t) == OverlapsGap(SafeSpan(t)[1], SafeSpan(t)[2])
Longest == CHOOSE w \in Widths : \A v \in Widths : v <= w
NoLabels == [h \in Horizons |-> None]

Sampled(e) ==
  LET g == Pruned(e)
      feats == Compute(g, e.t, venue)
      r2 == feats.r2[Longest]
  IN [index |-> index, ts |-> e.t, at |-> Len(stream) + 1, entry |-> g.mid, feats |-> feats,
      valid |-> g.mid # 0 /\ g.prev # None /\ Usable(g.prev) /\ ~InGap(e.t),
      vol |-> IF r2 > 0 THEN r2 ELSE 0,
      ret |-> NoLabels, maker |-> NoLabels, taker |-> NoLabels, tb |-> None]

\* A valid sample waits for its labels, another is written at once.
Stored(p, row, take, armed) ==
  IF take /\ row.valid
  THEN AddPending(p, row.index, row, Cardinality(Horizons) + IF armed THEN 1 ELSE 0)
  ELSE [p |-> p, out |-> IF take THEN <<row>> ELSE <<>>]

Primary(e) ==
  LET f     == FixedStep(e).state
      b     == BarrierStep(e).state
      take  == Takes(e)
      row   == Sampled(e)
      keep  == take /\ row.valid
      armed == keep /\ Arms(row.entry, row.vol)
      told  == Labelled(e)
      add   == Stored(told.p, row, take, armed)
  IN /\ sampler' = Update(sampler, e, Flow(e))
     /\ fixed' = IF keep THEN FixedOnSample(f, index, e.t, row.entry) ELSE f
     /\ barrier' = IF armed THEN BarrierOnSample(b, index, e.t, row.entry, row.vol) ELSE b
     /\ pending' = add.p
     /\ file' = file \o told.out \o add.out
     /\ index' = IF take THEN index + 1 ELSE index
     /\ eng' = OnEvent(Pruned(e), e, venue)

\* The reference venue only moves the cross-venue tracker.
Reference(e) ==
  /\ eng' = IF Quoted(e.b) THEN [eng EXCEPT !.cross = CrossOnMid(@, "reference", e.t, Mid(e.b))]
            ELSE eng
  /\ UNCHANGED <<sampler, fixed, barrier, pending, file, index>>

Read(e) ==
  /\ ~closed /\ Len(stream) < day.max
  /\ stream # <<>> => MayFollow(stream[Len(stream)], e)
  /\ \A g \in gaps : e.t <= g[1] \/ e.t >= g[2]   \* nothing is recorded in a gap
  /\ stream' = Append(stream, e)
  /\ IF e.k = "ref" THEN Reference(e) ELSE Primary(e)
  /\ UNCHANGED <<day, closed>>

\* End of the stream: what is unresolved is censored, the rest still flushes.
Censored(i) == Cardinality({c \in FixedFinalize(fixed) : c.index = i})
               + (IF i \in BarrierFinalize(barrier) THEN 1 ELSE 0)
ToldOff == [pending EXCEPT !.remaining = [i \in DOMAIN @ |-> @[i] - Censored(i)]]
FlushAll(p) == Flush(p, Len(p.order) - p.next + 1)
Finish ==
  LET q == FlushReady(ToldOff)
  IN /\ ~closed /\ stream # <<>>
     /\ closed' = TRUE
     /\ fixed' = [fixed EXCEPT !.pending = NewFixed.pending]
     /\ barrier' = [barrier EXCEPT !.active = {}]
     /\ pending' = FlushAll(q.p).p
     /\ file' = file \o q.out \o FlushAll(q.p).out
     /\ UNCHANGED <<day, stream, eng, sampler, index>>

Init ==
  /\ day \in Days /\ sampler = NewSampler(day.sampler)
  /\ stream = <<>> /\ eng = NewEngine
  /\ fixed = NewFixed /\ barrier = NewBarrier /\ pending = NewPending
  /\ file = <<>> /\ index = 0 /\ closed = FALSE

Next == \/ \E p \in day.events, d \in Steps : Read([p EXCEPT !.t = Now + d])
        \/ Finish
Spec == Init /\ [][Next]_vars
------------------------------------------------------------------------------
\* What a day of samples must be, stated over the whole stream instead of the
\* incremental state: the exit mid of a label is looked up in the history, a
\* rolling column is summed over it again.

RowSet == {file[i] : i \in 1..Len(file)} \cup {pending.rows[i] : i \in DOMAIN pending.rows}

\* ---- labels, by looking forward
LabelEvents(k) == {j \in Positions : j > k /\ LabelEvent(stream[j])}
FirstAt(J)     == CHOOSE j \in J : \A i \in J : j <= i
LastAt(J)      == CHOOSE j \in J : \A i \in J : i <= j
\* The mid in force at a deadline: the last one seen before the event j.
MidBefore(j)   == LET J == {i \in 1..j - 1 : LabelEvent(stream[i])}
                  IN  IF J = {} THEN 0 ELSE Mid(stream[LastAt(J)].b)

ForwardReturn(r, h) ==
  LET late == {j \in LabelEvents(r.at) : stream[j].t >= r.ts + h}
      j == FirstAt(late)
  IN  IF late = {} THEN None
      ELSE RetBps(IF stream[j].t = r.ts + h \/ MidBefore(j) = 0 THEN Mid(stream[j].b)
                  ELSE MidBefore(j), r.entry)

BarrierLabel(r) ==
  LET touch(j) == \/ Mid(stream[j].b) >= r.entry + BarrierMult * r.vol
                  \/ Mid(stream[j].b) <= r.entry - BarrierMult * r.vol
      ends == {j \in LabelEvents(r.at) : stream[j].t > r.ts + TimeLimit \/ touch(j)}
      j == FirstAt(ends)
  IN  IF ends = {} \/ r.vol = 0 THEN None
      ELSE IF stream[j].t > r.ts + TimeLimit THEN 0
      ELSE IF Mid(stream[j].b) > r.entry THEN 1 ELSE -1

\* The touch of a venue with a channel of its own is not checked for crossing.
CrossedTouch(r) == r.feats.spread # None /\ r.feats.spread < 0

\* Every label a valid row carries is the forward return, net label and first
\* barrier touch read off the stream; a row still in flight has all of them.
\* (fixed_horizon.py, triple_barrier.py, pipeline.py:262-288)
LabelsMatchStream ==
  \A r \in {r \in RowSet : r.valid} : \A h \in Horizons :
    LET inFlight == r.index \in DOMAIN pending.rows
        tb == IF r.tb = None THEN None ELSE r.tb.label
    IN /\ r.ret[h] # None \/ inFlight => r.ret[h] = ForwardReturn(r, h)
       /\ tb # None \/ inFlight => tb = BarrierLabel(r)
       /\ r.ret[h] # None /\ r.taker[h] = 1 /\ ~CrossedTouch(r) => r.maker[h] = 1 /\ r.ret[h] > 0

\* ---- features, by summing the history again
Before(k, kinds) == {j \in 1..k - 1 : stream[j].k \in kinds}
MidEvent(j) == IF venue.bbo THEN stream[j].k = "bbo" /\ HasMid(stream[j].b)
               ELSE stream[j].k = "book" /\ Usable(stream[j].b) /\ HasMid(stream[j].b)

\* The sign of a trade by its own flag or tick, 0 if it says nothing; then by
\* the last trade before it that does.
OwnSign(j) ==
  LET prior == Before(j, {"trade"})
      e == stream[j]
      was == stream[LastAt(prior)].price
  IN CASE venue.flagged /\ e.side = "buy" -> 1
       [] venue.flagged /\ e.side = "sell" -> -1
       [] OTHER -> IF prior = {} \/ e.price = was THEN 0 ELSE IF e.price > was THEN 1 ELSE -1
SignAt(j) == LET telling == {i \in Before(j + 1, {"trade"}) : OwnSign(i) # 0}
             IN  IF telling = {} THEN 0 ELSE OwnSign(LastAt(telling))

\* The event of a kind before the j-th.
Previous(j, Is(_)) == LET J == {i \in 1..j - 1 : Is(i)} IN IF J = {} THEN 0 ELSE LastAt(J)
IsBook(j) == stream[j].k = "book"

\* A row's columns never change again: it is enough to look at the newest.
NewRows == {r \in RowSet : r.at = Len(stream)}

\* Every rolling column of a row is the sum over exactly the events of its
\* window that precede the sampled event in the stream: none of the future,
\* none older than the window. (engine.py:1-12, rolling.py:1-7)
FeaturesMatchHistory ==
  \A r \in NewRows : \A w \in Widths :
    LET In(J)  == {j \in J : j < r.at /\ stream[j].t > r.ts - w}
        trades == In(Before(r.at, {"trade"}))
        moves  == In({j \in Positions : MidEvent(j) /\ Previous(j, MidEvent) # 0})
        quotes == In({j \in Positions : /\ IsBook(j) /\ Previous(j, IsBook) # 0
                                        /\ Quoted(stream[j].b) /\ Quoted(stream[Previous(j, IsBook)].b)})
        change(j) == Mid(stream[j].b) - Mid(stream[Previous(j, MidEvent)].b)
    IN /\ r.feats.signed[w] = Sum([j \in trades |-> SignAt(j) * stream[j].qty])
       /\ r.feats.count[w] = Cardinality(trades)
       /\ r.feats.ret[w] = Sum([j \in moves |-> change(j)])
       /\ r.feats.r2[w] = Sum([j \in moves |-> change(j) * change(j)])
       /\ venue.depth => r.feats.ofi[w] = Sum([j \in quotes |->
                                OfiBest(stream[Previous(j, IsBook)].b, stream[j].b)])
       /\ ~venue.depth => r.feats.ofi = None /\ r.feats.deep = None

\* ---- rows
\* Every sample is written exactly once or still in flight, the valid ones in
\* time order, however early the oldest had to leave; the number in flight
\* stays bounded while the books are silent. (pipeline.py:115-176, 322-336)
RowsOnceInOrder ==
  /\ {r.index : r \in RowSet} = 0..index - 1
  /\ Len(file) + Cardinality(DOMAIN pending.rows) = index
  /\ \A i, j \in 1..Len(file) :
       i < j /\ file[i].valid /\ file[j].valid => file[i].index < file[j].index
  /\ \A i \in 1..Len(file), j \in DOMAIN pending.rows :
       file[i].valid => file[i].index < j
  /\ Cardinality(DOMAIN pending.rows) <= MaxPending
  /\ closed => pending.rows = <<>>

\* No gap lies within the feature lookback of a valid row or before the end of
\* any label it carries, the longest included. (pipeline.py:60-67, 102-112)
ValidRowsAvoidGaps ==
  \A r \in RowSet : r.valid => \A g \in gaps : \A h \in Horizons :
    ~(g[2] > r.ts - Lookback /\ g[1] < r.ts + h)

\* The documented point-in-time contract: a feature is a function of events
\* with local timestamp strictly less than t. (engine.py:3-7)
PointInTime ==
  \A r \in RowSet : \A w \in Widths :
    r.feats.count[w] = Cardinality({j \in Before(r.at, {"trade"}) :
                                      stream[j].t > r.ts - w /\ stream[j].t < r.ts})

\* The documented memory bound: nothing per-event is retained beyond the
\* longest window. (engine.py:9-11)
NothingRetainedBeyondWindow ==
  \A s \in Series, w \in Widths :
    LET items == eng.win[s][w].items IN \A i \in 1..Len(items) : items[i].ts > Now - w - MaxAge
==============================================================================
