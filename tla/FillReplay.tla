----------------------------- MODULE FillReplay -----------------------------
(* The streaming fill engine: at most one resting quote per side under queue *)
(* position, latency in both directions and post-only refusal, with the      *)
(* ledger accumulated in flight. Prices are even so that a mid is whole.     *)
(* Source: research/microstructure/{fill_replay,d1d}.py                      *)
EXTENDS Integers, Sequences, FiniteSets, FiniteSetsExt

CONSTANTS Quotes, Prints, Rates, Steps, QuoteSize, Cap, Latency, FeeRate, HourNs, Tick,
          Variants,  \* [fill, queue, alo]: the policies replayed side by side in d1d.py
          MaxEvents  \* search bound
ASSUME FillBounds ==
  /\ QuoteSize \in Nat \ {0} /\ Cap \in Nat \ {0} /\ HourNs \in Nat \ {0} /\ Tick \in Nat \ {0, 1}
  /\ Latency \in Nat /\ FeeRate \in Nat /\ Steps \subseteq Nat
  /\ Quotes \subseteq [bid : Nat, bidSz : Nat, ask : Nat, askSz : Nat]
  /\ Prints \subseteq [sign : {-1, 1}, px : Nat, sz : Nat] /\ Rates \subseteq Int
  /\ \A q \in Quotes, p \in Prints : \A face \in {q.bid, q.ask} : \* neighbours are a tick apart
       p.px = face \/ p.px >= face + Tick \/ face >= p.px + Tick

VARIABLES variant, now, seen, touch, at, orders, leaked, led, records, cancels
vars == <<variant, now, seen, touch, at, orders, leaked, led, records, cancels>>

Sides == {"bid", "ask"}
None  == [price |-> 0]
NoQuote == [bid |-> 0, bidSz |-> 0, ask |-> 0, askSz |-> 0]
Dir(s) == IF s = "bid" THEN 1 ELSE -1
MidOf(q) == (q.bid + q.ask) \div 2
Face(s, q)  == IF s = "bid" THEN q.bid ELSE q.ask
Size(s, q)  == IF s = "bid" THEN q.bidSz ELSE q.askSz
Held(os, s) == os[s] # None
IsLive(o, ts) == o.active <= ts
Generous == variant.fill = "generous"

\* The ledger mirrors the inventory simulator's, field for field; in generous
\* mode the whole replay is that simulator, in the others it stands still.
L == INSTANCE InventorySim WITH
  now <- IF Generous THEN now ELSE 0,
  mark <- IF Generous /\ touch # NoQuote
          THEN [mid |-> MidOf(touch), bid |-> touch.bid, ask |-> touch.ask, at |-> at]
          ELSE [mid |-> 0, bid |-> 0, ask |-> 0, at |-> 0],
  ledger <- IF Generous THEN led ELSE
     [position |-> 0, cash |-> 0, edge |-> 0, inventory |-> 0, funding |-> 0, fees |-> 0,
      fills |-> 0, total |-> 0, atCap |-> 0, held |-> 0, peak |-> 0, drawdown |-> 0,
      hours |-> [h \in {} |-> 0]]

\* ---- the order machine; each operator is one method of BoundedQuoteSim
Capped(l, s) == Dir(s) * l.position >= Cap
Target(s, q) == IF variant.fill = "improved" THEN Face(s, q) + Dir(s) * Tick ELSE Face(s, q)
Crosses(s, o, q) == IF s = "bid" THEN o.price >= q.ask ELSE o.price <= q.bid

Buried(os, s, ts)      == Held(os, s) /\ os[s].dead # -1 /\ os[s].dead <= ts
Rejected(os, ts, q)    == {s \in Sides : /\ Held(os, s) /\ ~Buried(os, s, ts) /\ IsLive(os[s], ts)
                                         /\ ~os[s].checked /\ Crosses(s, os[s], q)}
ProcessTransitions(os, ts, q) ==
  [s \in Sides |-> IF ~Held(os, s) \/ Buried(os, s, ts) \/ s \in Rejected(os, ts, q) THEN None
                   ELSE [os[s] EXCEPT !.checked = @ \/ IsLive(os[s], ts)]]

\* Mutant: a stale quote fills in full although the other side used the room up.
FillUncapped(x, ts, s, size) ==
  [x EXCEPT !.orders[s] = None,
            !.led = L!Settle(x.led, ts, Dir(s), x.orders[s].price, size, x.mid)]

\* _fill: what the cap leaves of the size is settled; the order is gone either way.
Fill(x, ts, s, size) ==
  LET o   == x.orders[s]
      got == L!Least(size, L!Most(0, Cap - Dir(s) * x.led.position))
      mid == x.mid
  IN  IF got <= 0 THEN [x EXCEPT !.orders[s] = None]
      ELSE [x EXCEPT !.orders[s] = None,
              !.led = L!Settle(x.led, ts, Dir(s), o.price, got, mid),
              !.records = Append(@, [ts |-> ts, side |-> s, size |-> got, price |-> o.price,
                                     edge |-> Dir(s) * (mid - o.price) * got])]

CrossingFill(x, ts, s, q) ==
  IF Held(x.orders, s) /\ IsLive(x.orders[s], ts) /\ Crosses(s, x.orders[s], q)
  THEN Fill(x, ts, s, x.orders[s].size) ELSE x

\* The touch left the price, or the cap withdrew the side: a cancel is under way.
StaleSides(x, ts, q) == {s \in Sides : /\ Held(x.orders, s) /\ IsLive(x.orders[s], ts)
                                       /\ x.orders[s].dead = -1
                                       /\ x.orders[s].price # Target(s, q) \/ Capped(x.led, s)}
CancelStale(x, ts, q) ==
  [s \in Sides |-> IF s \in StaleSides(x, ts, q) THEN [x.orders[s] EXCEPT !.dead = ts + Latency]
                   ELSE x.orders[s]]

\* Mutant: an order still in flight already takes a place in the queue.
RefreshQueueEarly(os, ts, q) ==
  [s \in Sides |-> IF variant.queue = "own_level_cancels" /\ Held(os, s) /\ os[s].price = Face(s, q)
                   THEN [os[s] EXCEPT !.queue = L!Least(@, Size(s, q))] ELSE os[s]]

RefreshQueue(os, ts, q) ==
  [s \in Sides |->
     IF variant.queue = "own_level_cancels" /\ Held(os, s) /\ IsLive(os[s], ts)
        /\ os[s].price = Face(s, q)
     THEN [os[s] EXCEPT !.queue = L!Least(@, Size(s, q))] ELSE os[s]]

PlaceWanted(os, l, ts, q, rejected) ==
  [s \in Sides |->
     IF Held(os, s) \/ s \in rejected \/ Capped(l, s) THEN os[s]
     ELSE [price |-> Target(s, q), size |-> QuoteSize, active |-> ts + Latency,
           queue |-> IF Target(s, q) = Face(s, q) THEN Size(s, q) ELSE 0,
           checked |-> FALSE, dead |-> -1]]

\* ---- events
OnBbo(ts, q) ==
  LET mid == MidOf(q)
      l   == IF touch = NoQuote THEN led
             ELSE L!Drift(L!Credit(led, MidOf(touch), at, ts), ts, MidOf(touch), mid)
      no  == Rejected(orders, ts, q)
      x0  == [orders |-> ProcessTransitions(orders, ts, q), led |-> l, records |-> records, mid |-> mid]
      x1  == CrossingFill(CrossingFill(x0, ts, "bid", q), ts, "ask", q)
      os  == RefreshQueue(CancelStale(x1, ts, q), ts, q)
  IN /\ q.bid > 0 /\ q.ask > q.bid
     /\ touch' = q /\ at' = ts
     /\ IF Generous THEN /\ led' = l /\ UNCHANGED <<orders, records, cancels, leaked>>
        ELSE /\ led' = x1.led /\ records' = x1.records
             /\ orders' = PlaceWanted(os, x1.led, ts, q,
                            no \cup (IF variant.alo = "legacy_leak" THEN leaked ELSE {}))
             /\ cancels' = cancels + Cardinality(StaleSides(x1, ts, q))
             /\ leaked' = {}

GenerousFill(l, ts, p) ==
  LET sz == L!Allowed(l, -p.sign, L!Least(p.sz, QuoteSize))
  IN  IF sz > 0 THEN L!Settle(l, ts, -p.sign, IF p.sign > 0 THEN touch.ask ELSE touch.bid, sz, MidOf(touch))
      ELSE l

\* _sweep: the print first clears the queue standing at our own price.
Sweep(x, ts, s, sz) ==
  LET o == x.orders[s]
      eaten == L!Least(sz, o.queue)
      y == [x EXCEPT !.orders[s].queue = @ - eaten]
  IN  IF variant.queue = "touch"
      THEN IF sz >= Size(s, touch) /\ Size(s, touch) > 0
           THEN Fill(x, ts, s, L!Least(sz, o.size)) ELSE x
      ELSE IF sz > eaten THEN Fill(y, ts, s, L!Least(sz - eaten, o.size)) ELSE y

TradeFill(x, ts, s, p) ==
  LET o == x.orders[s]
      reached == IF s = "ask" THEN p.px >= o.price ELSE p.px <= o.price
      through == reached /\ p.px # o.price
  IN  IF ~Held(x.orders, s) \/ ~IsLive(o, ts) \/ ~reached THEN x
      ELSE IF variant.fill = "improved" THEN Fill(x, ts, s, L!Least(p.sz, o.size))
      ELSE IF through THEN Fill(x, ts, s, o.size)
      ELSE Sweep(x, ts, s, p.sz)

OnTrade(ts, p) ==
  LET l == L!Credit(led, MidOf(touch), at, ts)
      x == TradeFill([orders |-> ProcessTransitions(orders, ts, touch), led |-> l,
                      records |-> records, mid |-> MidOf(touch)],
                     ts, IF p.sign > 0 THEN "ask" ELSE "bid", p)
  IN /\ touch # NoQuote
     /\ at' = ts
     /\ IF Generous THEN /\ led' = GenerousFill(l, ts, p)
                         /\ UNCHANGED <<orders, records, leaked>>
        ELSE /\ led' = x.led /\ records' = x.records /\ orders' = x.orders
             /\ leaked' = IF variant.alo = "legacy_leak"
                          THEN leaked \cup Rejected(orders, ts, touch) ELSE leaked
     /\ UNCHANGED <<touch, cancels>>

\* d1d.py applies the hour's rate to the position held at the boundary.
OnFunding(ts, r) ==
  /\ touch # NoQuote
  /\ led' = L!Charge(led, ts, r, MidOf(touch))
  /\ UNCHANGED <<touch, at, orders, leaked, records, cancels>>

Init == /\ variant \in Variants /\ now = 0 /\ seen = 0 /\ touch = NoQuote /\ at = 0
        /\ orders = [s \in Sides |-> None] /\ leaked = {} /\ led = L!NewLedger
        /\ records = <<>> /\ cancels = 0

Next == /\ seen < MaxEvents /\ seen' = seen + 1
        /\ \E d \in Steps : /\ now' = now + d
                            /\ \/ \E q \in Quotes : OnBbo(now + d, q)
                               \/ \E p \in Prints : OnTrade(now + d, p)
                               \/ \E r \in Rates : OnFunding(now + d, r)
        /\ UNCHANGED variant
Spec == Init /\ [][Next]_vars

-----------------------------------------------------------------------------
\* ---- what the replay promises
Described == /\ variant.fill = "always_last" /\ variant.alo = "update_scoped"
             /\ variant.queue \in {"own_level", "own_level_cancels"}
Blot(r) == [ts |-> r.ts, side |-> r.side, price |-> r.price, size |-> r.size,
            mark |-> r.price + Dir(r.side) * (r.edge \div r.size)]
RefOrder(s) == [side |-> s, price |-> orders[s].price, size |-> orders[s].size,
                active |-> orders[s].active, queue |-> orders[s].queue,
                checked |-> orders[s].checked, dead |-> orders[s].dead]
Restated == INSTANCE ReferenceReplay WITH
    Eps <- Tick \div 2, cancelsAhead <- (variant.queue = "own_level_cancels"),
    now <- IF Described THEN now ELSE 0,
    orders <- IF Described THEN {RefOrder(s) : s \in {t \in Sides : Held(orders, t)}} ELSE {},
    blotter <- IF Described THEN [i \in 1..Len(records) |-> Blot(records[i])] ELSE <<>>,
    touch <- IF Described THEN [bid |-> touch.bid, ask |-> touch.ask] ELSE [bid |-> 0, ask |-> 0],
    inventory <- IF Described THEN led.inventory ELSE 0,
    position <- IF Described THEN led.position ELSE 0,
    cancelling <- IF Described THEN cancels ELSE 0

\* The streaming engine implements the restated policy, with and without queue
\* cancellations: the same orders, and the same fills at the same marks in the
\* same order. The reference stands still in the variants it does not describe.
\* (reference_replay.py:1-24, tests/test_fill_replay_gate.py)
ImplementsPolicy == Restated!Spec

\* In generous mode the replay is the inventory simulator, time credit, hourly
\* ledger and drawdown included. (d1d.py:100, fill_replay.py:28-33)
ImplementsInventory == L!Spec

\* The ledger identity: what was paid and is held at the mark is the edge plus
\* the drift of the inventory, through every fill, partial or capped, and every
\* move of the mid. (fill_replay.py:432-436, inventory.py:150-155)
MarkToMarket == led.cash + led.position * MidOf(touch) = led.edge + led.inventory

\* The position never exceeds the cap however the two sides' stale orders fill,
\* and the hourly ledger adds up to the net. (fill_replay.py:340-353, 423-430)
PositionWithinCap == -Cap <= led.position /\ led.position <= Cap

\* Every change of the net is in one hour of the hourly ledger, once; the
\* drawdown never misses a fall from the peak. (fill_replay.py:423-430)
HoursAddUp ==
  /\ MapThenSumSet(LAMBDA h : led.hours[h], DOMAIN led.hours) = L!NetOf(led)
  /\ L!NetOf(led) <= led.peak /\ led.peak - L!NetOf(led) <= led.drawdown
=============================================================================
