---------------------------- MODULE InventorySim ----------------------------
(* The generous market maker: every print fills the opposite quote at the    *)
(* touch. Its ledger splits the mark-to-market into edge and inventory; the  *)
(* replay's generous mode must reproduce it.                                 *)
(* Source: research/microstructure/inventory.py                              *)
EXTENDS Integers

CONSTANTS Quotes, Prints, Rates, Steps, QuoteSize, Cap, FeeRate, HourNs

VARIABLES now,     \* time of the last event
          mark,    \* last mid, touch and the time they were credited up to
          ledger   \* the accumulated decomposition
vars == <<now, mark, ledger>>

AbsOf(x)      == IF x < 0 THEN -x ELSE x
Least(a, b)   == IF a < b THEN a ELSE b
Most(a, b)    == IF a < b THEN b ELSE a
NoMark == [mid |-> 0, bid |-> 0, ask |-> 0, at |-> 0]
NewLedger == [position |-> 0, cash |-> 0, edge |-> 0, inventory |-> 0, funding |-> 0, fees |-> 0,
              fills |-> 0, total |-> 0, atCap |-> 0, held |-> 0, peak |-> 0, drawdown |-> 0,
              hours |-> [h \in {} |-> 0]]

NetOf(l) == l.edge + l.inventory + l.funding - l.fees

\* _book: the hourly ledger and the running peak see every change of the net.
Book(l, ts, delta) ==
  LET hour == ts \div HourNs
      net  == NetOf(l)
      peak == Most(l.peak, net)
  IN  [l EXCEPT !.hours = [h \in DOMAIN @ \cup {hour} |->
                             (IF h \in DOMAIN l.hours THEN @[h] ELSE 0)
                             + (IF h = hour THEN delta ELSE 0)],
                !.peak = peak, !.drawdown = Most(@, peak - net)]

\* _credit_time: the time since the last mark belongs to the position held over it.
Credit(l, mid, since, ts) ==
  LET dt == ts - since IN
  IF mid = 0 \/ dt <= 0 THEN l
  ELSE [l EXCEPT !.total = @ + dt, !.held = @ + AbsOf(l.position) * mid * dt,
                 !.atCap = IF AbsOf(l.position) >= Cap THEN @ + dt ELSE @]

Drift(l, ts, from, to) ==
  LET move == l.position * (to - from)
  IN  Book([l EXCEPT !.inventory = @ + move], ts, move)

Settle(l, ts, dir, px, sz, mid) ==
  LET edge == dir * (mid - px) * sz
      fee  == px * sz * FeeRate
  IN  Book([l EXCEPT !.fills = @ + 1, !.position = @ + dir * sz, !.cash = @ - dir * (px * sz),
                     !.edge = @ + edge, !.fees = @ + fee], ts, edge - fee)

Charge(l, ts, rate, price) ==
  LET paid == -(l.position * price * rate)
  IN  Book([l EXCEPT !.funding = @ + paid], ts, paid)

Allowed(l, dir, sz) == Most(0, Least(sz, Cap - dir * l.position))

OnQuote(ts, q) ==
  LET mid == (q.bid + q.ask) \div 2 IN
  /\ q.bid > 0 /\ q.ask > q.bid
  /\ ledger' = IF mark = NoMark THEN ledger
               ELSE Drift(Credit(ledger, mark.mid, mark.at, ts), ts, mark.mid, mid)
  /\ mark' = [mid |-> mid, bid |-> q.bid, ask |-> q.ask, at |-> ts]
  /\ now' = ts

OnTrade(ts, p) ==
  LET dir == -p.sign
      sz  == Least(p.sz, QuoteSize)
      l   == Credit(ledger, mark.mid, mark.at, ts)
      got == Allowed(l, dir, sz)
  IN /\ mark # NoMark
     /\ ledger' = IF got = 0 THEN l
                  ELSE Settle(l, ts, dir, IF dir < 0 THEN mark.ask ELSE mark.bid, got, mark.mid)
     /\ mark' = [mark EXCEPT !.at = ts]
     /\ now' = ts

OnFunding(ts, rate) ==
  /\ mark # NoMark
  /\ ledger' = Charge(ledger, ts, rate, mark.mid)
  /\ now' = ts /\ UNCHANGED mark

Ignored(ts) == now' = ts /\ UNCHANGED <<mark, ledger>>

Init == now = 0 /\ mark = NoMark /\ ledger = NewLedger
Next == \E d \in Steps : LET ts == now + d IN
          \/ \E q \in Quotes : OnQuote(ts, q)
          \/ \E p \in Prints : OnTrade(ts, p)
          \/ \E r \in Rates : OnFunding(ts, r)
          \/ Ignored(ts)
Spec == Init /\ [][Next]_vars
=============================================================================
