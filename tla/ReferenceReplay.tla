-------------------------- MODULE ReferenceReplay --------------------------
(* The always-last quoting policy restated: what a resting quote on each     *)
(* side of one instrument promises, with the profit and loss computed in one *)
(* late pass over a blotter. It is the abstract specification the streaming  *)
(* fill engine is compared with.                                             *)
(* Source: research/microstructure/reference_replay.py                       *)
EXTENDS Integers, Sequences, FiniteSets

CONSTANTS Quotes,   \* touches [bid, bidSz, ask, askSz] the feed may show
          Prints,   \* trades [sign, px, sz] the feed may show
          Steps,    \* time between neighbouring events
          QuoteSize, Cap, Latency, Eps, FeeRate
ReplayBounds == /\ {QuoteSize, Cap, Eps} \subseteq Nat \ {0}
                /\ {Latency, FeeRate} \subseteq Nat /\ Steps \subseteq Nat

VARIABLES cancelsAhead, \* queue_model is own_level_cancels, not own_level
          now, orders, blotter, touch, inventory, position, cancelling
vars == <<cancelsAhead, now, orders, blotter, touch, inventory, position, cancelling>>

Sides      == {"bid", "ask"}
Signed(s)  == IF s = "bid" THEN 1 ELSE -1
Lesser(a, b) == IF a < b THEN a ELSE b
NoTouch    == [bid |-> 0, ask |-> 0]
MidOf(q)   == (q.bid + q.ask) \div 2
Sound(q)   == q.bid > 0 /\ q.ask > q.bid
Touching(s, q)   == IF s = "bid" THEN q.bid ELSE q.ask
DepthAt(s, q)    == IF s = "bid" THEN q.bidSz ELSE q.askSz
\* The opposing touch reaches a price: it would match on arrival, or runs it over.
Meets(s, price, q) == IF s = "bid" THEN q.ask <= price ELSE q.bid >= price

Headroom(s, pos) == LET room == Cap - Signed(s) * pos IN IF room > 0 THEN room ELSE 0
Live(o, ts)      == o.active <= ts

\* Cancels that have landed are gone; an arriving quote that crosses is refused.
Landed(os, ts)      == {o \in os : o.dead # -1 /\ o.dead <= ts}
Refused(os, ts, q)  == {o \in os \ Landed(os, ts) : Live(o, ts) /\ ~o.checked /\ Meets(o.side, o.price, q)}
Transitions(os, ts, q) ==
  {[o EXCEPT !.checked = @ \/ Live(o, ts)] :
     o \in os \ (Landed(os, ts) \cup Refused(os, ts, q))}

\* _book_fill: no more than the headroom of its side.
BookFill(acc, o, want, mark, ts) ==
  LET size == Lesser(want, Headroom(o.side, acc.pos))
  IN  IF size <= 0 THEN acc
      ELSE [rows |-> Append(acc.rows, [ts |-> ts, side |-> o.side, price |-> o.price,
                                       size |-> size, mark |-> mark]),
            pos |-> acc.pos + Signed(o.side) * size]
BookSide(acc, os, want, mark, ts) ==
  IF os = {} THEN acc ELSE LET o == CHOOSE o \in os : TRUE IN BookFill(acc, o, want[o], mark, ts)
\* Both sides of one update net, the bid first.
Fills(hit, want, mark, ts, pos) ==
  BookSide(BookSide([rows |-> <<>>, pos |-> pos], {o \in hit : o.side = "bid"}, want, mark, ts),
           {o \in hit : o.side = "ask"}, want, mark, ts)

Bbo(ts, q) ==
  LET mark == MidOf(q)
      no   == {o.side : o \in Refused(orders, ts, q)}
      kept == Transitions(orders, ts, q)
      hit  == {o \in kept : Live(o, ts) /\ Meets(o.side, o.price, q)}
      f    == Fills(hit, [o \in hit |-> o.size], mark, ts, position)
      left == kept \ hit
      stale(o) == /\ Live(o, ts) /\ o.dead = -1
                  /\ o.price # Touching(o.side, q) \/ Headroom(o.side, f.pos) = 0
      aged == {[o EXCEPT !.dead = IF stale(o) THEN ts + Latency ELSE @] : o \in left}
      seen == {[o EXCEPT !.queue = IF cancelsAhead /\ Live(o, ts) /\ o.price = Touching(o.side, q)
                                   THEN Lesser(@, DepthAt(o.side, q)) ELSE @] : o \in aged}
      want == {s \in Sides : /\ s \notin {o.side : o \in seen} /\ s \notin no
                             /\ Headroom(s, f.pos) > 0}
  IN /\ Sound(q)
     /\ orders' = seen \cup {[side |-> s, price |-> Touching(s, q), size |-> QuoteSize,
                              active |-> ts + Latency, queue |-> DepthAt(s, q),
                              checked |-> FALSE, dead |-> -1] : s \in want}
     /\ cancelling' = cancelling + Cardinality({o \in left : stale(o)})
     /\ blotter' = blotter \o f.rows
     /\ position' = f.pos
     /\ inventory' = IF touch = NoTouch THEN inventory
                     ELSE inventory + position * (mark - MidOf(touch))
     /\ touch' = [bid |-> q.bid, ask |-> q.ask]
     /\ now' = ts /\ UNCHANGED cancelsAhead

Trade(ts, p) ==
  LET kept == Transitions(orders, ts, touch)
      side == IF p.sign > 0 THEN "ask" ELSE "bid"
      mine == {o \in kept : o.side = side /\ Live(o, ts)}
      through(o) == IF side = "ask" THEN p.px > o.price + Eps ELSE p.px < o.price - Eps
      at(o)  == p.px \in o.price - Eps..o.price + Eps
      rest(o) == p.sz - Lesser(p.sz, o.queue)
      hit  == {o \in mine : through(o) \/ (at(o) /\ rest(o) > 0)}
      want == [o \in hit |-> IF through(o) THEN o.size ELSE Lesser(rest(o), o.size)]
      f    == Fills(hit, want, MidOf(touch), ts, position)
  IN /\ touch # NoTouch
     /\ orders' = (kept \ mine) \cup {[o EXCEPT !.queue = IF at(o) THEN @ - Lesser(p.sz, @) ELSE @]
                                        : o \in mine \ hit}
     /\ blotter' = blotter \o f.rows
     /\ position' = f.pos
     /\ now' = ts
     /\ UNCHANGED <<touch, inventory, cancelling, cancelsAhead>>

\* The clock alone moves on an event the policy ignores.
Ignore(ts) == /\ now' = ts
              /\ UNCHANGED <<orders, blotter, touch, inventory, position, cancelling, cancelsAhead>>

Init == /\ cancelsAhead \in BOOLEAN /\ now = 0 /\ orders = {} /\ blotter = <<>> /\ touch = NoTouch
        /\ inventory = 0 /\ position = 0 /\ cancelling = 0
Next == \E d \in Steps : LET ts == now + d IN
          \/ \E q \in Quotes : Bbo(ts, q)
          \/ \E p \in Prints : Trade(ts, p)
          \/ Ignore(ts)
Spec == Init /\ [][Next]_vars

\* The decomposition of the blotter, in one late pass (ledger()).
EdgeOf(b) == Signed(b.side) * (b.mark - b.price) * b.size
LedgerUpTo[n \in 0..Len(blotter)] ==
  IF n = 0 THEN [edge |-> 0, fees |-> 0, notional |-> 0]
  ELSE LET b == blotter[n] IN
       [edge |-> LedgerUpTo[n - 1].edge + EdgeOf(b),
        fees |-> LedgerUpTo[n - 1].fees + b.price * b.size * FeeRate,
        notional |-> LedgerUpTo[n - 1].notional + b.price * b.size]
Ledger == LedgerUpTo[Len(blotter)]
=============================================================================
