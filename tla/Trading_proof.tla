----------------------------- MODULE Trading_proof -----------------------------
(***************************************************************************)
(* What holds of the simulated trading for every feed, size, cap, latency  *)
(* and tape: the ledger of the fill replay adds up and stays within its    *)
(* cap, and the replay implements its restatement.                         *)
(***************************************************************************)
EXTENDS MCTrading, DataLemmas

-----------------------------------------------------------------------------
\* The ledger of the inventory simulator, shared by the replay.
LedgerType ==
    [position : Int, cash : Int, edge : Int, inventory : Int, funding : Int, fees : Int,
     fills : Int, total : Int, atCap : Int, held : Int, peak : Int, drawdown : Int,
     hours : UNION {[H -> Int] : H \in SUBSET Int}]
HourTotal(l) == SumOver(l.hours, DOMAIN l.hours)

\* Every change of the net is in one hour, and the drawdown has seen it.
HoursKept(l) ==
    /\ l \in LedgerType /\ IsFiniteSet(DOMAIN l.hours)
    /\ HourTotal(l) = L!NetOf(l)
    /\ L!NetOf(l) <= l.peak /\ l.peak - L!NetOf(l) <= l.drawdown
\* What was paid and is held at the mark is edge and drift.
MarkedAt(l, mid) == l.cash + l.position * mid = l.edge + l.inventory
WithinCap(l) == -Cap <= l.position /\ l.position <= Cap
LedgerOk(l, mid) == HoursKept(l) /\ MarkedAt(l, mid) /\ WithinCap(l)

(* The hours of a ledger are integers by hour.                             *)
LEMMA HoursOf ==
    ASSUME NEW l \in LedgerType
    PROVE  /\ DOMAIN l.hours \subseteq Int
           /\ \A h \in DOMAIN l.hours : l.hours[h] \in Int
<1>1. PICK H \in SUBSET Int : l.hours \in [H -> Int]
  BY DEF LedgerType
<1> QED BY <1>1

(* Booking a change of the net puts it in one hour and in the drawdown.    *)
LEMMA BookKeeps ==
    ASSUME NEW l \in LedgerType, NEW ts \in Int, NEW delta \in Int,
           IsFiniteSet(DOMAIN l.hours), HourTotal(l) + delta = L!NetOf(l)
    PROVE  /\ HoursKept(L!Book(l, ts, delta))
           /\ \A mid : MarkedAt(L!Book(l, ts, delta), mid) <=> MarkedAt(l, mid)
           /\ L!Book(l, ts, delta).position = l.position
           /\ L!Book(l, ts, delta).inventory = l.inventory
<1> DEFINE D == DOMAIN l.hours
           hour == ts \div HourNs
           F == l.hours
           G == [h \in D \cup {hour} |-> (IF h \in D THEN F[h] ELSE 0) + (IF h = hour THEN delta ELSE 0)]
           net == L!NetOf(l)
           top == L!Most(l.peak, net)
           b == [l EXCEPT !.hours = G, !.peak = top, !.drawdown = L!Most(@, top - net)]
<1>1. hour \in Int /\ D \subseteq Int /\ \A h \in D : F[h] \in Int
  BY FillBounds, HoursOf
<1>2. L!Book(l, ts, delta) = b
  BY DEF L!Book
<1> HIDE DEF hour, D, F
<1>3. IsFiniteSet(D \cup {hour}) /\ IsFiniteSet(D)
  BY FS_AddElement DEF D
<1>4. DOMAIN G = D \cup {hour} /\ G \in [D \cup {hour} -> Int] /\ D \cup {hour} \in SUBSET Int
  BY <1>1
<1>5. SumOver(G, D \cup {hour}) = SumOver(F, D) + delta
  <2>1. CASE hour \in D
    <3>1. D \cup {hour} = D
      BY <2>1
    <3>2. \A x \in D : F[x] \in Int /\ G[x] \in Int
      BY <1>1
    <3>3. \A x \in D \ {hour} : G[x] = F[x]
      BY <1>1
    <3>4. G[hour] - F[hour] = delta
      BY <1>1, <2>1
    <3> HIDE DEF G
    <3>5. SumOver(G, D) = SumOver(F, D) + (G[hour] - F[hour])
      BY <1>3, <2>1, <3>2, <3>3, SumChange
    <3> QED BY <3>1, <3>4, <3>5
  <2>2. CASE hour \notin D
    <3>1. (D \cup {hour}) \ {hour} = D
      BY <2>2
    <3>2. \A x \in D \cup {hour} : G[x] \in Int
      BY <1>1
    <3>3. G[hour] = delta /\ \A x \in D : G[x] = F[x]
      BY <1>1, <2>2
    <3> HIDE DEF G
    <3>4. SumOver(G, D \cup {hour}) = G[hour] + SumOver(G, (D \cup {hour}) \ {hour})
      BY <1>3, <3>2, SumRemove
    <3>5. SumOver(G, D) = SumOver(F, D)
      BY <1>3, <3>3, SumAgrees
    <3>6. SumOver(F, D) \in Int
      BY <1>1, <1>3, SumType
    <3>7. SumOver(G, (D \cup {hour}) \ {hour}) = SumOver(G, D)
      BY <3>1
    <3> QED BY ONLY <3>3, <3>4, <3>5, <3>6, <3>7, delta \in Int
  <2> QED BY <2>1, <2>2
<1> HIDE DEF G
<1>6. net \in Int /\ l.peak \in Int /\ l.drawdown \in Int
  BY DEF LedgerType, L!NetOf
<1>7. top \in Int /\ net <= top
  BY <1>6 DEF L!Most
<1>8. b \in LedgerType /\ b.hours = G /\ b.peak = top /\ b.drawdown = L!Most(l.drawdown, top - net)
      /\ b.position = l.position /\ b.cash = l.cash /\ b.edge = l.edge /\ b.inventory = l.inventory
      /\ b.funding = l.funding /\ b.fees = l.fees
  <2>1. L!Most(l.drawdown, top - net) \in Int
    BY <1>6, <1>7 DEF L!Most
  <2>2. G \in UNION {[H -> Int] : H \in SUBSET Int}
    BY <1>4
  <2> HIDE DEF net, top
  <2> QED BY <1>7, <2>1, <2>2 DEF LedgerType
<1>9. HoursKept(b)
  <2>1. L!NetOf(b) = net
    BY <1>8 DEF L!NetOf
  <2>2. HourTotal(b) = SumOver(F, D) + delta
    BY <1>4, <1>5, <1>8 DEF HourTotal
  <2>3. SumOver(F, D) + delta = net
    BY DEF HourTotal, F, D
  <2>4. IsFiniteSet(DOMAIN b.hours)
    BY <1>3, <1>4, <1>8
  <2>5. net <= b.peak /\ b.peak - net <= b.drawdown
    <3> HIDE DEF net, top
    <3> QED BY <1>6, <1>7, <1>8 DEF L!Most
  <2> QED BY <1>8, <2>1, <2>2, <2>3, <2>4, <2>5 DEF HoursKept
<1>10. \A mid : MarkedAt(b, mid) <=> MarkedAt(l, mid)
  <2> HIDE DEF b
  <2> QED BY <1>8 DEF MarkedAt
<1> HIDE DEF b
<1> QED BY <1>2, <1>8, <1>9, <1>10

(* Time credited to the position moves none of the accounts.               *)
LEMMA CreditKeeps ==
    ASSUME NEW l, NEW m, LedgerOk(l, m), NEW mid \in Int, NEW since \in Int, NEW ts \in Int
    PROVE  /\ LedgerOk(L!Credit(l, mid, since, ts), m)
           /\ L!Credit(l, mid, since, ts).position = l.position
           /\ L!Credit(l, mid, since, ts).inventory = l.inventory
<1> DEFINE dt == ts - since
           more == L!AbsOf(l.position) * mid * dt
           total == l.total + dt
           full == IF L!AbsOf(l.position) >= Cap THEN l.atCap + dt ELSE l.atCap
           held2 == l.held + more
           b == [l EXCEPT !.total = total, !.held = held2, !.atCap = full]
<1>1. l \in LedgerType
  BY DEF LedgerOk, HoursKept
<1>2. L!Credit(l, mid, since, ts) \in {l, b}
  BY DEF L!Credit
<1>3. L!AbsOf(l.position) \in Int
  BY <1>1 DEF LedgerType, L!AbsOf
<1>4. more \in Int /\ dt \in Int
  BY <1>3
<1>5. /\ b \in LedgerType /\ b.hours = l.hours /\ b.peak = l.peak /\ b.drawdown = l.drawdown
      /\ b.position = l.position /\ b.cash = l.cash /\ b.edge = l.edge
      /\ b.inventory = l.inventory /\ b.funding = l.funding /\ b.fees = l.fees
  <2>1. total \in Int /\ held2 \in Int /\ full \in Int
    BY <1>1, <1>4 DEF LedgerType
  <2> HIDE DEF total, held2, full
  <2>2. b \in LedgerType
    BY <1>1, <2>1 DEF LedgerType
  <2> QED BY <1>1, <2>2 DEF LedgerType
<1> HIDE DEF b
<1>6. LedgerOk(b, m)
  <2>1. L!NetOf(b) = L!NetOf(l) /\ HourTotal(b) = HourTotal(l)
    BY <1>5 DEF L!NetOf, HourTotal
  <2> QED BY <1>5, <2>1 DEF LedgerOk, HoursKept, MarkedAt, WithinCap
<1> QED BY <1>2, <1>5, <1>6

(* The drift of the inventory from one mid to the next is accounted.       *)
LEMMA DriftKeeps ==
    ASSUME NEW l, NEW from \in Int, NEW to \in Int, LedgerOk(l, from), NEW ts \in Int
    PROVE  /\ LedgerOk(L!Drift(l, ts, from, to), to)
           /\ L!Drift(l, ts, from, to).position = l.position
           /\ L!Drift(l, ts, from, to).inventory = l.inventory + l.position * (to - from)
<1> DEFINE move == l.position * (to - from)
           b == [l EXCEPT !.inventory = @ + move]
<1>1. l \in LedgerType
  BY DEF LedgerOk, HoursKept
<1>2. L!Drift(l, ts, from, to) = L!Book(b, ts, move)
  BY DEF L!Drift
<1>3. l.position \in Int /\ l.cash \in Int /\ l.inventory \in Int /\ l.edge \in Int
  BY <1>1 DEF LedgerType
<1>4. move \in Int /\ l.position * from \in Int /\ l.position * to = l.position * from + move
  BY <1>3
<1> HIDE DEF move
<1>5. /\ b \in LedgerType /\ b.hours = l.hours /\ b.position = l.position /\ b.cash = l.cash
      /\ b.edge = l.edge /\ b.inventory = l.inventory + move /\ b.funding = l.funding
      /\ b.fees = l.fees
  BY <1>1, <1>4 DEF LedgerType
<1> HIDE DEF b
<1>6. HourTotal(b) + move = L!NetOf(b) /\ IsFiniteSet(DOMAIN b.hours)
  <2>1. l.funding \in Int /\ l.fees \in Int
    BY <1>1 DEF LedgerType
  <2>2. HourTotal(b) = L!NetOf(l)
    BY <1>5 DEF LedgerOk, HoursKept, HourTotal
  <2> QED BY <1>3, <1>4, <1>5, <2>1, <2>2 DEF L!NetOf, LedgerOk, HoursKept
<1>7. MarkedAt(b, to)
  BY <1>3, <1>4, <1>5 DEF MarkedAt, LedgerOk
<1>8. HoursKept(L!Book(b, ts, move)) /\ MarkedAt(L!Book(b, ts, move), to)
      /\ L!Book(b, ts, move).position = l.position
      /\ L!Book(b, ts, move).inventory = l.inventory + move
  BY <1>4, <1>5, <1>6, <1>7, BookKeeps
<1> QED BY <1>2, <1>8 DEF LedgerOk, WithinCap, move

(* A fill within the room of its side is accounted at the mid.             *)
LEMMA SettleKeeps ==
    ASSUME NEW l, NEW mid \in Int, LedgerOk(l, mid), NEW ts \in Int, NEW dir \in {-1, 1},
           NEW px \in Int, NEW sz \in Int, sz >= 0, sz <= Cap - dir * l.position
    PROVE  /\ LedgerOk(L!Settle(l, ts, dir, px, sz, mid), mid)
           /\ L!Settle(l, ts, dir, px, sz, mid).position = l.position + dir * sz
           /\ L!Settle(l, ts, dir, px, sz, mid).inventory = l.inventory
<1> DEFINE edge == dir * (mid - px) * sz
           fee == px * sz * FeeRate
           paid == px * sz
           got == dir * sz
           cost == dir * paid
           b == [l EXCEPT !.fills = @ + 1, !.position = @ + got, !.cash = @ - cost,
                          !.edge = @ + edge, !.fees = @ + fee]
<1>1. l \in LedgerType /\ FeeRate \in Nat /\ Cap \in Nat
  BY FillBounds DEF LedgerOk, HoursKept
<1>2. L!Settle(l, ts, dir, px, sz, mid) = L!Book(b, ts, edge - fee)
  BY DEF L!Settle
<1>3. /\ l.position \in Int /\ l.cash \in Int /\ l.inventory \in Int /\ l.edge \in Int
      /\ l.funding \in Int /\ l.fees \in Int /\ l.fills \in Int
  BY <1>1 DEF LedgerType
<1>4. edge \in Int /\ fee \in Int /\ paid \in Int /\ l.position * mid \in Int /\ got \in Int
      /\ cost \in Int
  BY <1>1, <1>3
<1>5. (l.position + got) * mid = l.position * mid + edge + cost
  BY <1>3, <1>4
<1>p. -Cap <= l.position + got /\ l.position + got <= Cap
  BY <1>1, <1>3 DEF LedgerOk, WithinCap
<1> HIDE DEF edge, fee, paid, got, cost
<1>6. /\ b \in LedgerType /\ b.hours = l.hours /\ b.position = l.position + got
      /\ b.cash = l.cash - cost /\ b.edge = l.edge + edge /\ b.inventory = l.inventory
      /\ b.funding = l.funding /\ b.fees = l.fees + fee
  <2> DEFINE n == l.fills + 1
             pos == l.position + got
             cash == l.cash - cost
             won == l.edge + edge
             fees == l.fees + fee
  <2>1. n \in Int /\ pos \in Int /\ cash \in Int /\ won \in Int /\ fees \in Int
    BY <1>3, <1>4
  <2>2. b = [l EXCEPT !.fills = n, !.position = pos, !.cash = cash, !.edge = won, !.fees = fees]
    OBVIOUS
  <2> HIDE DEF n, pos, cash, won, fees, b
  <2>3. b \in LedgerType
    BY <1>1, <2>1, <2>2 DEF LedgerType
  <2>4. /\ b.hours = l.hours /\ b.position = pos /\ b.cash = cash /\ b.edge = won
        /\ b.inventory = l.inventory /\ b.funding = l.funding /\ b.fees = fees
    BY <1>1, <2>2 DEF LedgerType
  <2> QED BY <2>3, <2>4 DEF pos, cash, won, fees
<1> HIDE DEF b
<1>7. HourTotal(b) + (edge - fee) = L!NetOf(b) /\ IsFiniteSet(DOMAIN b.hours)
  <2>1. HourTotal(b) = L!NetOf(l)
    BY <1>6 DEF LedgerOk, HoursKept, HourTotal
  <2> QED BY <1>3, <1>4, <1>6, <2>1 DEF L!NetOf, LedgerOk, HoursKept
<1>8. MarkedAt(b, mid)
  <2>1. l.cash + l.position * mid = l.edge + l.inventory
    BY DEF LedgerOk, MarkedAt
  <2>2. b.position * mid = l.position * mid + edge + cost
    BY <1>5, <1>6
  <2>3. b.cash + b.position * mid = b.edge + b.inventory
    <3> DEFINE before == l.position * mid
               after == b.position * mid
    <3>1. before \in Int /\ after = before + edge + cost /\ l.cash + before = l.edge + l.inventory
      BY <1>4, <2>1, <2>2
    <3> HIDE DEF before, after
    <3>2. b.cash + after = b.edge + b.inventory
      <4>1. b.cash = l.cash - cost /\ b.edge = l.edge + edge /\ b.inventory = l.inventory
        BY <1>6
      <4>2. l.cash \in Int /\ l.edge \in Int /\ l.inventory \in Int /\ edge \in Int /\ cost \in Int
        BY <1>3, <1>4
      <4> QED BY ONLY <3>1, <4>1, <4>2
    <3> QED BY <3>2 DEF after
  <2> QED BY <2>3 DEF MarkedAt
<1>9. /\ HoursKept(L!Book(b, ts, edge - fee)) /\ MarkedAt(L!Book(b, ts, edge - fee), mid)
      /\ L!Book(b, ts, edge - fee).position = b.position
      /\ L!Book(b, ts, edge - fee).inventory = b.inventory
  <2>1. edge - fee \in Int
    BY <1>4
  <2> QED BY <1>6, <1>7, <1>8, <2>1, BookKeeps
<1> QED BY <1>2, <1>6, <1>9, <1>p DEF LedgerOk, WithinCap, got

(* Funding is paid out of the net, and moves nothing else.                 *)
LEMMA ChargeKeeps ==
    ASSUME NEW l, NEW m, LedgerOk(l, m), NEW ts \in Int, NEW rate \in Int, NEW mark \in Int
    PROVE  /\ LedgerOk(L!Charge(l, ts, rate, mark), m)
           /\ L!Charge(l, ts, rate, mark).position = l.position
           /\ L!Charge(l, ts, rate, mark).inventory = l.inventory
<1> DEFINE paid == -(l.position * mark * rate)
           b == [l EXCEPT !.funding = @ + paid]
<1>1. l \in LedgerType
  BY DEF LedgerOk, HoursKept
<1>2. L!Charge(l, ts, rate, mark) = L!Book(b, ts, paid)
  BY DEF L!Charge
<1>3. /\ l.position \in Int /\ l.cash \in Int /\ l.inventory \in Int /\ l.edge \in Int
      /\ l.funding \in Int /\ l.fees \in Int
  BY <1>1 DEF LedgerType
<1>4. paid \in Int
  BY <1>3
<1> HIDE DEF paid
<1>5. /\ b \in LedgerType /\ b.hours = l.hours /\ b.position = l.position /\ b.cash = l.cash
      /\ b.edge = l.edge /\ b.inventory = l.inventory /\ b.funding = l.funding + paid
      /\ b.fees = l.fees
  BY <1>1, <1>3, <1>4 DEF LedgerType
<1> HIDE DEF b
<1>6. HourTotal(b) + paid = L!NetOf(b) /\ IsFiniteSet(DOMAIN b.hours)
  <2>1. HourTotal(b) = L!NetOf(l)
    BY <1>5 DEF LedgerOk, HoursKept, HourTotal
  <2> QED BY <1>3, <1>4, <1>5, <2>1 DEF L!NetOf, LedgerOk, HoursKept
<1>7. MarkedAt(b, m)
  BY <1>5 DEF MarkedAt, LedgerOk
<1>8. HoursKept(L!Book(b, ts, paid)) /\ MarkedAt(L!Book(b, ts, paid), m)
      /\ L!Book(b, ts, paid).position = l.position
      /\ L!Book(b, ts, paid).inventory = l.inventory
  BY <1>4, <1>5, <1>6, <1>7, BookKeeps
<1> QED BY <1>2, <1>8 DEF LedgerOk, WithinCap

-----------------------------------------------------------------------------
\* The order machine between two events.
OrderType == [price : Int, size : Nat, active : Int, queue : Int, checked : BOOLEAN, dead : Int]
OrdersType == [Sides -> {None} \cup OrderType]
FillType == [ts : Int, side : Sides, size : Nat \ {0}, price : Int, edge : Int]
Machine(x) == /\ x \in [orders : OrdersType, led : LedgerType, records : Seq(FillType), mid : Int]
              /\ LedgerOk(x.led, x.mid)
QuoteType == [bid : Nat, bidSz : Nat, ask : Nat, askSz : Nat]
TradeType == [sign : {-1, 1}, px : Nat, sz : Nat]
SoundQuote(q) == q \in QuoteType /\ q.bid > 0 /\ q.ask > q.bid

FillInv ==
    /\ variant \in Variants /\ now \in Int /\ at \in Int /\ cancels \in Int
    /\ touch = NoQuote \/ SoundQuote(touch)
    /\ orders \in OrdersType /\ leaked \subseteq Sides /\ records \in Seq(FillType)
    /\ LedgerOk(led, MidOf(touch))
    /\ touch = NoQuote => led = L!NewLedger

(* An order that is held is an order.                                      *)
LEMMA HeldIsOrder ==
    ASSUME NEW os \in OrdersType, NEW s \in Sides, Held(os, s) PROVE os[s] \in OrderType
BY DEF OrdersType, Held

\* What is still held was held before, at its price.
PricesKept(os2, os) ==
    \A s \in Sides : Held(os2, s) => Held(os, s) /\ os2[s].price = os[s].price

(* A fill takes no more than its side's room, and the order with it.       *)
LEMMA FillKeeps ==
    ASSUME NEW x, Machine(x), NEW ts \in Int, NEW s \in Sides, Held(x.orders, s), NEW size \in Int
    PROVE  /\ Machine(Fill(x, ts, s, size)) /\ Fill(x, ts, s, size).mid = x.mid
           /\ PricesKept(Fill(x, ts, s, size).orders, x.orders)
<1> DEFINE o == x.orders[s]
           room == L!Most(0, Cap - Dir(s) * x.led.position)
           got == L!Least(size, room)
           os == [x.orders EXCEPT ![s] = None]
           edge == Dir(s) * (x.mid - o.price) * got
           row == [ts |-> ts, side |-> s, size |-> got, price |-> o.price, edge |-> edge]
           paid == L!Settle(x.led, ts, Dir(s), o.price, got, x.mid)
           y == [x EXCEPT !.orders = os]
           z == [x EXCEPT !.orders = os, !.led = paid, !.records = Append(@, row)]
<1>1. x.orders \in OrdersType /\ x.mid \in Int /\ x.led \in LedgerType /\ x.records \in Seq(FillType)
  BY DEF Machine
<1>2. o.price \in Int
  BY <1>1, HeldIsOrder DEF OrderType
<1>3. x.led.position \in Int /\ Dir(s) \in {-1, 1} /\ Cap \in Nat
  BY <1>1, FillBounds DEF LedgerType, Dir
<1>4. got \in Int /\ (got > 0 => got <= Cap - Dir(s) * x.led.position)
  <2>1. Cap - Dir(s) * x.led.position \in Int
    BY <1>3
  <2> QED BY <2>1 DEF L!Least, L!Most
<1>5. os \in OrdersType
  BY <1>1 DEF OrdersType
<1>6. Fill(x, ts, s, size) = IF got <= 0 THEN y ELSE z
  BY DEF Fill
<1> HIDE DEF os
<1>k. PricesKept(os, x.orders)
  BY <1>1 DEF PricesKept, OrdersType, Held, os
<1>7. Machine(y) /\ y.mid = x.mid /\ y.orders = os
  BY <1>1, <1>5 DEF Machine
<1>8. CASE got > 0
  <2>1. LedgerOk(paid, x.mid)
    <3> HIDE DEF got, o
    <3>1. LedgerOk(x.led, x.mid)
      BY DEF Machine
    <3> QED BY <1>1, <1>2, <1>3, <1>4, <1>8, <3>1, SettleKeeps
  <2>2. edge \in Int
    BY <1>1, <1>2, <1>3, <1>4
  <2> HIDE DEF got, edge, paid
  <2>3. row \in FillType
    BY <1>2, <1>4, <1>8, <2>2 DEF FillType
  <2> HIDE DEF row
  <2>4. Append(x.records, row) \in Seq(FillType)
    BY <1>1, <2>3, Appending
  <2>5. paid \in LedgerType
    BY <2>1 DEF LedgerOk, HoursKept
  <2>6. Machine(z) /\ z.mid = x.mid /\ z.orders = os
    BY <1>1, <1>5, <2>1, <2>4, <2>5 DEF Machine
  <2>7. ~(got <= 0)
    BY <1>4, <1>8
  <2> HIDE DEF z, y
  <2>8. Fill(x, ts, s, size) = z
    BY <1>6, <2>7
  <2> QED BY <1>k, <2>6, <2>8
<1>9. CASE got <= 0
  <2> HIDE DEF got, y, z
  <2> QED BY <1>k, <1>6, <1>7, <1>9
<1> QED BY <1>4, <1>8, <1>9

(* A stale quote that the touch runs over is filled.                       *)
LEMMA CrossingFillKeeps ==
    ASSUME NEW x, Machine(x), NEW ts \in Int, NEW s \in Sides, NEW q
    PROVE  /\ Machine(CrossingFill(x, ts, s, q)) /\ CrossingFill(x, ts, s, q).mid = x.mid
           /\ PricesKept(CrossingFill(x, ts, s, q).orders, x.orders)
<1>1. CASE Held(x.orders, s)
  <2>1. x.orders[s].size \in Int
    BY <1>1, HeldIsOrder DEF Machine, OrderType
  <2>2. /\ Machine(Fill(x, ts, s, x.orders[s].size))
        /\ Fill(x, ts, s, x.orders[s].size).mid = x.mid
        /\ PricesKept(Fill(x, ts, s, x.orders[s].size).orders, x.orders)
    BY <1>1, <2>1, FillKeeps
  <2> QED BY <2>2 DEF CrossingFill, PricesKept
<1>2. CASE ~Held(x.orders, s)
  BY <1>2 DEF CrossingFill, PricesKept
<1> QED BY <1>1, <1>2

(* A print at the price of an order clears the queue before it.            *)
LEMMA SweepKeeps ==
    ASSUME NEW x, Machine(x), NEW ts \in Int, NEW s \in Sides, Held(x.orders, s), NEW sz \in Int
    PROVE  /\ Machine(Sweep(x, ts, s, sz)) /\ Sweep(x, ts, s, sz).mid = x.mid
           /\ PricesKept(Sweep(x, ts, s, sz).orders, x.orders)
<1> DEFINE o == x.orders[s]
           eaten == L!Least(sz, o.queue)
           os == [x.orders EXCEPT ![s] = [o EXCEPT !.queue = @ - eaten]]
           y == [x EXCEPT !.orders = os]
<1>1. x.orders \in OrdersType /\ o \in OrderType
  BY HeldIsOrder DEF Machine
<1>2. eaten \in Int /\ o.queue - eaten \in Int /\ L!Least(sz, o.size) \in Int
      /\ L!Least(sz - eaten, o.size) \in Int
  BY <1>1 DEF OrderType, L!Least
<1>3. [o EXCEPT !.queue = @ - eaten] \in OrderType /\ [o EXCEPT !.queue = @ - eaten] # None
  BY <1>1, <1>2 DEF OrderType, None
<1>4. os \in OrdersType /\ os[s] = [o EXCEPT !.queue = @ - eaten]
  BY <1>1, <1>3 DEF OrdersType
<1>5. y = [x EXCEPT !.orders[s].queue = @ - eaten]
  OBVIOUS
<1>k. PricesKept(os, x.orders)
  <2>1. [o EXCEPT !.queue = @ - eaten].price = o.price
    BY <1>1 DEF OrderType
  <2> HIDE DEF o
  <2> QED BY <1>1, <1>4, <2>1 DEF PricesKept, OrdersType, Held, o
<1> HIDE DEF os
<1>6. Machine(y) /\ Held(y.orders, s) /\ y.mid = x.mid /\ PricesKept(y.orders, x.orders)
  BY <1>k, <1>3, <1>4 DEF Machine, Held
<1> HIDE DEF y, eaten, o
<1>7. /\ Machine(Fill(x, ts, s, L!Least(sz, o.size)))
      /\ Fill(x, ts, s, L!Least(sz, o.size)).mid = x.mid
      /\ PricesKept(Fill(x, ts, s, L!Least(sz, o.size)).orders, x.orders)
  BY <1>2, FillKeeps
<1>8. /\ Machine(Fill(y, ts, s, L!Least(sz - eaten, o.size)))
      /\ Fill(y, ts, s, L!Least(sz - eaten, o.size)).mid = y.mid
      /\ PricesKept(Fill(y, ts, s, L!Least(sz - eaten, o.size)).orders, x.orders)
  <2>1. /\ Machine(Fill(y, ts, s, L!Least(sz - eaten, o.size)))
        /\ Fill(y, ts, s, L!Least(sz - eaten, o.size)).mid = y.mid
        /\ PricesKept(Fill(y, ts, s, L!Least(sz - eaten, o.size)).orders, y.orders)
    BY <1>2, <1>6, FillKeeps
  <2> QED BY <1>6, <2>1 DEF PricesKept
<1>9. Sweep(x, ts, s, sz) \in {x, y, Fill(x, ts, s, L!Least(sz, o.size)),
                              Fill(y, ts, s, L!Least(sz - eaten, o.size))}
  BY <1>5 DEF Sweep, o, eaten
<1>10. PricesKept(x.orders, x.orders)
  BY DEF PricesKept
<1> QED BY <1>6, <1>7, <1>8, <1>9, <1>10

(* Whatever a print does to the order of its side.                         *)
LEMMA TradeFillKeeps ==
    ASSUME NEW x, Machine(x), NEW ts \in Int, NEW s \in Sides, NEW p \in TradeType
    PROVE  /\ Machine(TradeFill(x, ts, s, p)) /\ TradeFill(x, ts, s, p).mid = x.mid
           /\ PricesKept(TradeFill(x, ts, s, p).orders, x.orders)
<1>0. PricesKept(x.orders, x.orders)
  BY DEF PricesKept
<1>1. CASE Held(x.orders, s)
  <2> DEFINE o == x.orders[s]
  <2>1. o \in OrderType /\ p.sz \in Int
    BY <1>1, HeldIsOrder DEF Machine, TradeType
  <2>2. o.size \in Int /\ L!Least(p.sz, o.size) \in Int
    BY <2>1 DEF OrderType, L!Least
  <2> HIDE DEF o
  <2>3. /\ Machine(Fill(x, ts, s, o.size)) /\ Fill(x, ts, s, o.size).mid = x.mid
        /\ Machine(Fill(x, ts, s, L!Least(p.sz, o.size)))
        /\ Fill(x, ts, s, L!Least(p.sz, o.size)).mid = x.mid
        /\ PricesKept(Fill(x, ts, s, o.size).orders, x.orders)
        /\ PricesKept(Fill(x, ts, s, L!Least(p.sz, o.size)).orders, x.orders)
    BY <1>1, <2>2, FillKeeps
  <2>4. /\ Machine(Sweep(x, ts, s, p.sz)) /\ Sweep(x, ts, s, p.sz).mid = x.mid
        /\ PricesKept(Sweep(x, ts, s, p.sz).orders, x.orders)
    BY <1>1, <2>1, SweepKeeps
  <2>5. TradeFill(x, ts, s, p) \in {x, Fill(x, ts, s, o.size), Fill(x, ts, s, L!Least(p.sz, o.size)),
                                   Sweep(x, ts, s, p.sz)}
    BY DEF TradeFill, o
  <2> QED BY <1>0, <2>3, <2>4, <2>5
<1>2. CASE ~Held(x.orders, s)
  <2>1. TradeFill(x, ts, s, p) = x
    BY <1>2 DEF TradeFill
  <2> QED BY <1>0, <2>1
<1> QED BY <1>1, <1>2

(* Orders that arrive, are refused, cancelled, aged or placed are orders.  *)
LEMMA OrdersStayOrders ==
    ASSUME NEW os \in OrdersType, NEW ts \in Int, NEW q \in QuoteType, NEW l, NEW no, NEW x,
           x.orders = os
    PROVE  /\ ProcessTransitions(os, ts, q) \in OrdersType
           /\ CancelStale(x, ts, q) \in OrdersType
           /\ RefreshQueue(os, ts, q) \in OrdersType
           /\ PlaceWanted(os, l, ts, q, no) \in OrdersType
<1>1. ProcessTransitions(os, ts, q) \in OrdersType
  <2>1. \A s \in Sides : Held(os, s) =>
            [os[s] EXCEPT !.checked = @ \/ IsLive(os[s], ts)] \in OrderType
    BY HeldIsOrder DEF OrderType, IsLive
  <2> QED BY <2>1 DEF ProcessTransitions, OrdersType
<1>2. CancelStale(x, ts, q) \in OrdersType
  <2>1. \A s \in Sides : Held(os, s) => [os[s] EXCEPT !.dead = ts + Latency] \in OrderType
    BY HeldIsOrder, FillBounds DEF OrderType
  <2>2. \A s \in StaleSides(x, ts, q) : Held(os, s)
    BY DEF StaleSides
  <2> QED BY <2>1, <2>2 DEF CancelStale, OrdersType
<1>3. RefreshQueue(os, ts, q) \in OrdersType
  <2>1. \A s \in Sides : Size(s, q) \in Int
    BY DEF Size, QuoteType
  <2>2. \A s \in Sides : Held(os, s) =>
            [os[s] EXCEPT !.queue = L!Least(@, Size(s, q))] \in OrderType
    BY <2>1, HeldIsOrder DEF OrderType, L!Least
  <2> QED BY <2>2 DEF RefreshQueue, OrdersType
<1>4. PlaceWanted(os, l, ts, q, no) \in OrdersType
  <2>1. \A s \in Sides : Size(s, q) \in Int /\ Target(s, q) \in Int
    BY FillBounds DEF Size, Target, Face, Dir, QuoteType
  <2>2. \A s \in Sides :
          [price |-> Target(s, q), size |-> QuoteSize, active |-> ts + Latency,
           queue |-> IF Target(s, q) = Face(s, q) THEN Size(s, q) ELSE 0,
           checked |-> FALSE, dead |-> -1] \in OrderType
    BY <2>1, FillBounds DEF OrderType
  <2> QED BY <2>2 DEF PlaceWanted, OrdersType
<1> QED BY <1>1, <1>2, <1>3, <1>4

(* The mid of a quote is a whole number.                                   *)
LEMMA MidIsWhole == \A q : SoundQuote(q) \/ q = NoQuote => MidOf(q) \in Int
BY DEF SoundQuote, QuoteType, NoQuote, MidOf

(* A new quote moves the mark, fills what it runs over, and re-quotes.     *)
LEMMA BboKeepsInv ==
    ASSUME FillInv, NEW ts \in Int, NEW q \in Quotes, OnBbo(ts, q), now' = ts, UNCHANGED variant
    PROVE  FillInv'
<1> DEFINE mid == MidOf(q)
           l == IF touch = NoQuote THEN led
                ELSE L!Drift(L!Credit(led, MidOf(touch), at, ts), ts, MidOf(touch), mid)
           no == Rejected(orders, ts, q)
           po == ProcessTransitions(orders, ts, q)
           x0 == [orders |-> po, led |-> l, records |-> records, mid |-> mid]
           xb == CrossingFill(x0, ts, "bid", q)
           x1 == CrossingFill(xb, ts, "ask", q)
           cs == CancelStale(x1, ts, q)
           os == RefreshQueue(cs, ts, q)
           skip == no \cup (IF variant.alo = "legacy_leak" THEN leaked ELSE {})
           placed == PlaceWanted(os, x1.led, ts, q, skip)
           begun == Cardinality(StaleSides(x1, ts, q))
<1>1. SoundQuote(q) /\ q \in QuoteType /\ mid \in Int /\ MidOf(touch) \in Int
  BY FillBounds, MidIsWhole DEF OnBbo, SoundQuote, QuoteType, FillInv
<1>2. LedgerOk(l, mid)
  <2>1. CASE touch = NoQuote
    <3>1. led = L!NewLedger /\ led.position = 0 /\ MidOf(touch) = 0
      BY <2>1 DEF FillInv, L!NewLedger, NoQuote, MidOf
    <3>2. LedgerOk(led, 0)
      BY <3>1 DEF FillInv
    <3>3. led.position * 0 = 0 /\ led.position * mid = 0
      BY <1>1, <3>1
    <3> QED BY <2>1, <3>2, <3>3 DEF LedgerOk, MarkedAt
  <2>2. CASE touch # NoQuote
    <3> DEFINE c == L!Credit(led, MidOf(touch), at, ts)
    <3>1. LedgerOk(c, MidOf(touch))
      BY <1>1, CreditKeeps DEF FillInv
    <3> HIDE DEF c
    <3>2. LedgerOk(L!Drift(c, ts, MidOf(touch), mid), mid)
      BY <1>1, <3>1, DriftKeeps
    <3> QED BY <2>2, <3>2 DEF c
  <2> QED BY <2>1, <2>2
<1>3. po \in OrdersType
  <2>1. [orders |-> orders].orders = orders /\ orders \in OrdersType
    BY DEF FillInv
  <2> QED BY <1>1, <2>1, OrdersStayOrders
<1> HIDE DEF mid, l, po
<1>4. Machine(x0) /\ x0.mid = mid
  BY <1>1, <1>2, <1>3 DEF Machine, FillInv, LedgerOk, HoursKept
<1> HIDE DEF x0
<1>5. Machine(xb) /\ xb.mid = mid
  BY <1>4, CrossingFillKeeps DEF Sides
<1> HIDE DEF xb
<1>6. Machine(x1) /\ x1.mid = mid
  BY <1>5, CrossingFillKeeps DEF Sides
<1> HIDE DEF x1
<1>7. x1.orders \in OrdersType /\ LedgerOk(x1.led, mid) /\ x1.records \in Seq(FillType)
  BY <1>6 DEF Machine
<1>8. cs \in OrdersType
  BY <1>1, <1>7, OrdersStayOrders
<1> HIDE DEF cs
<1>9. os \in OrdersType
  <2>1. [orders |-> cs].orders = cs
    OBVIOUS
  <2> QED BY <1>1, <1>8, <2>1, OrdersStayOrders
<1> HIDE DEF os
<1>10. placed \in OrdersType
  <2>1. [orders |-> os].orders = os
    OBVIOUS
  <2> QED BY <1>1, <1>9, <2>1, OrdersStayOrders
<1>11. begun \in Int
  <2>1. StaleSides(x1, ts, q) \subseteq Sides
    BY DEF StaleSides
  <2>2. IsFiniteSet(Sides)
    <3>1. IsFiniteSet({} \cup {"bid"})
      BY FS_AddElement, FS_EmptySet
    <3>2. IsFiniteSet(({} \cup {"bid"}) \cup {"ask"})
      BY <3>1, FS_AddElement
    <3>3. Sides = ({} \cup {"bid"}) \cup {"ask"}
      BY DEF Sides
    <3> QED BY <3>2, <3>3
  <2>3. IsFiniteSet(StaleSides(x1, ts, q))
    BY <2>1, <2>2, FS_Subset
  <2> QED BY <2>3, FS_CardinalityType
<1> HIDE DEF placed, begun, skip, no
<1>12. /\ touch' = q /\ at' = ts
       /\ IF Generous THEN led' = l /\ UNCHANGED <<orders, records, cancels, leaked>>
          ELSE /\ led' = x1.led /\ records' = x1.records /\ orders' = placed
               /\ cancels' = cancels + begun /\ leaked' = {}
  BY DEF OnBbo, placed, os, cs, x1, xb, x0, po, l, no, mid, begun, skip
<1>13. MidOf(touch)' = mid
  BY <1>12 DEF mid, MidOf
<1>14. /\ orders' \in OrdersType /\ records' \in Seq(FillType) /\ LedgerOk(led', mid)
       /\ cancels' \in Int /\ leaked' \subseteq Sides
  BY <1>2, <1>7, <1>10, <1>11, <1>12 DEF FillInv
<1>15. touch' # NoQuote
  BY <1>1, <1>12 DEF SoundQuote, NoQuote
<1>16. LedgerOk(led, MidOf(touch))'
  BY <1>13, <1>14
<1> QED BY <1>1, <1>12, <1>14, <1>15, <1>16 DEF FillInv

(* A print credits the time and fills what it reaches.                     *)
LEMMA TradeKeepsInv ==
    ASSUME FillInv, NEW ts \in Int, NEW p \in Prints, OnTrade(ts, p), now' = ts, UNCHANGED variant
    PROVE  FillInv'
<1> DEFINE mid == MidOf(touch)
           l == L!Credit(led, mid, at, ts)
           po == ProcessTransitions(orders, ts, touch)
           x0 == [orders |-> po, led |-> l, records |-> records, mid |-> mid]
           side == IF p.sign > 0 THEN "ask" ELSE "bid"
           x == TradeFill(x0, ts, side, p)
           sz == L!Allowed(l, -p.sign, L!Least(p.sz, QuoteSize))
           px == IF p.sign > 0 THEN touch.ask ELSE touch.bid
           g == L!Settle(l, ts, -p.sign, px, sz, mid)
<1>1. SoundQuote(touch) /\ touch \in QuoteType /\ mid \in Int /\ p \in TradeType /\ side \in Sides
  BY FillBounds, MidIsWhole DEF OnTrade, FillInv, SoundQuote, TradeType, Sides
<1>2. LedgerOk(l, mid)
  BY <1>1, CreditKeeps DEF FillInv
<1>3. po \in OrdersType
  <2>1. [orders |-> orders].orders = orders /\ orders \in OrdersType
    BY DEF FillInv
  <2> QED BY <1>1, <2>1, OrdersStayOrders
<1> HIDE DEF mid, po, side
<1>4. CASE Generous
  <2>1. led' = l \/ (led' = g /\ sz > 0)
    <3>1. led' = IF sz > 0 THEN g ELSE l
      BY <1>4 DEF OnTrade, GenerousFill, mid
    <3> QED BY <3>1
  <2>2. ASSUME sz > 0 PROVE LedgerOk(g, mid)
    <3>1. l.position \in Int
      BY <1>2 DEF LedgerOk, HoursKept, LedgerType
    <3>2. -p.sign \in {-1, 1} /\ L!Least(p.sz, QuoteSize) \in Int /\ Cap \in Nat
      BY <1>1, FillBounds DEF TradeType, L!Least
    <3> HIDE DEF l
    <3>3. Cap - (-p.sign) * l.position \in Int
      BY <3>1, <3>2
    <3>4. sz \in Int /\ sz >= 0 /\ sz <= Cap - (-p.sign) * l.position
      BY <2>2, <3>2, <3>3 DEF L!Allowed, L!Most, L!Least
    <3>5. px \in Int
      BY <1>1 DEF QuoteType
    <3> HIDE DEF sz, px
    <3> QED BY <1>1, <1>2, <3>2, <3>4, <3>5, SettleKeeps
  <2> HIDE DEF l, g, sz
  <2>3. LedgerOk(led', mid)
    BY <1>2, <2>1, <2>2
  <2>4. UNCHANGED <<orders, records, leaked, touch, cancels>> /\ at' = ts
    BY <1>4 DEF OnTrade
  <2>5. LedgerOk(led, MidOf(touch))'
    BY <2>3, <2>4 DEF mid, MidOf
  <2>6. touch # NoQuote
    BY DEF OnTrade
  <2> QED BY <1>1, <2>4, <2>5, <2>6 DEF FillInv
<1>5. CASE ~Generous
  <2> HIDE DEF l
  <2>1. Machine(x0) /\ x0.mid = mid
    BY <1>1, <1>2, <1>3 DEF Machine, FillInv, LedgerOk, HoursKept
  <2> HIDE DEF x0
  <2>2. Machine(x) /\ x.mid = mid
    BY <1>1, <2>1, TradeFillKeeps
  <2> HIDE DEF x
  <2>3. /\ x.orders \in OrdersType /\ LedgerOk(x.led, mid) /\ x.records \in Seq(FillType)
    BY <2>2 DEF Machine
  <2>4. /\ led' = x.led /\ records' = x.records /\ orders' = x.orders
        /\ leaked' \subseteq Sides /\ UNCHANGED <<touch, cancels>> /\ at' = ts
    <3>1. led' = x.led /\ records' = x.records /\ orders' = x.orders
      BY <1>5 DEF OnTrade, x, x0, l, po, mid, side
    <3>2. Rejected(orders, ts, touch) \subseteq Sides /\ leaked \subseteq Sides
      BY DEF Rejected, FillInv
    <3>3. leaked' \subseteq Sides /\ UNCHANGED <<touch, cancels>> /\ at' = ts
      BY <1>5, <3>2 DEF OnTrade
    <3> QED BY <3>1, <3>3
  <2>5. LedgerOk(led, MidOf(touch))'
    BY <2>3, <2>4 DEF mid, MidOf
  <2>6. touch # NoQuote
    BY DEF OnTrade
  <2> QED BY <1>1, <2>3, <2>4, <2>5, <2>6 DEF FillInv
<1> QED BY <1>4, <1>5

(* Funding is charged on what is held.                                     *)
LEMMA FundingKeepsInv ==
    ASSUME FillInv, NEW ts \in Int, NEW r \in Rates, OnFunding(ts, r), now' = ts, UNCHANGED variant
    PROVE  FillInv'
<1>1. r \in Int /\ MidOf(touch) \in Int
  BY FillBounds, MidIsWhole DEF FillInv
<1>2. LedgerOk(led', MidOf(touch))
  BY <1>1, ChargeKeeps DEF FillInv, OnFunding
<1>3. UNCHANGED <<touch, at, orders, leaked, records, cancels>> /\ touch # NoQuote
  BY DEF OnFunding
<1>4. LedgerOk(led, MidOf(touch))'
  BY <1>2, <1>3 DEF MidOf
<1> QED BY <1>3, <1>4 DEF FillInv

(* The invariant of the fill replay holds from the start and at each step. *)
LEMMA FillInvBegins == Init => FillInv
<1> SUFFICES ASSUME Init PROVE FillInv
  OBVIOUS
<1> DEFINE nl == L!NewLedger
           none == [h \in {} |-> 0]
<1>1. /\ nl.position = 0 /\ nl.cash = 0 /\ nl.edge = 0 /\ nl.inventory = 0 /\ nl.funding = 0
      /\ nl.fees = 0 /\ nl.peak = 0 /\ nl.drawdown = 0 /\ nl.hours = none
  BY DEF L!NewLedger
<1>2. none \in [{} -> Int] /\ DOMAIN none = {} /\ {} \in SUBSET Int
  OBVIOUS
<1> HIDE DEF none
<1>3. nl \in LedgerType
  <2>1. none \in UNION {[H -> Int] : H \in SUBSET Int}
    BY <1>2
  <2> QED BY <2>1 DEF LedgerType, L!NewLedger, none
<1> HIDE DEF nl
<1>4. SumOver(none, {}) = 0 /\ IsFiniteSet({})
  BY SumOfNothing, FS_EmptySet
<1>5. HourTotal(nl) = 0 /\ L!NetOf(nl) = 0
  BY <1>1, <1>2, <1>4 DEF HourTotal, L!NetOf
<1>6. LedgerOk(nl, 0)
  BY <1>1, <1>2, <1>3, <1>4, <1>5, FillBounds DEF LedgerOk, HoursKept, MarkedAt, WithinCap
<1>7. MidOf(touch) = 0 /\ led = nl
  BY DEF Init, MidOf, NoQuote, nl
<1>8. orders \in OrdersType /\ records \in Seq(FillType)
  BY DEF Init, OrdersType
<1> QED BY <1>6, <1>7, <1>8 DEF Init, FillInv, nl

(* Every step of the fill replay keeps its invariant.                      *)
LEMMA FillInvStep == FillInv /\ [Next]_vars => FillInv'
<1> SUFFICES ASSUME FillInv, [Next]_vars PROVE FillInv'
  OBVIOUS
<1>1. CASE Next
  <2>1. PICK d \in Steps : /\ now' = now + d
                            /\ \/ \E q \in Quotes : OnBbo(now + d, q)
                               \/ \E p \in Prints : OnTrade(now + d, p)
                               \/ \E r \in Rates : OnFunding(now + d, r)
    BY <1>1 DEF Next
  <2>2. now + d \in Int /\ UNCHANGED variant
    BY <1>1, FillBounds DEF FillInv, Next
  <2>3. CASE \E q \in Quotes : OnBbo(now + d, q)
    BY <2>1, <2>2, <2>3, BboKeepsInv
  <2>4. CASE \E p \in Prints : OnTrade(now + d, p)
    BY <2>1, <2>2, <2>4, TradeKeepsInv
  <2>5. CASE \E r \in Rates : OnFunding(now + d, r)
    BY <2>1, <2>2, <2>5, FundingKeepsInv
  <2> QED BY <2>1, <2>3, <2>4, <2>5
<1>2. CASE UNCHANGED vars
  BY <1>2 DEF vars, FillInv, MidOf
<1> QED BY <1>1, <1>2

-----------------------------------------------------------------------------
(* In the other modes the simulator is shown a standstill.                 *)
LEMMA OthersStandStill ==
    ASSUME ~Generous, UNCHANGED variant PROVE UNCHANGED L!vars
<1>1. ~(Generous')
  BY DEF Generous
<1> QED BY <1>1 DEF L!vars

(* In generous mode a step of the replay is one of the simulator.          *)
LEMMA GenerousIsInventory ==
    ASSUME FillInv, Generous, Next PROVE L!Next
<1>1. PICK d \in Steps : /\ now' = now + d
                          /\ \/ \E q \in Quotes : OnBbo(now + d, q)
                             \/ \E p \in Prints : OnTrade(now + d, p)
                             \/ \E r \in Rates : OnFunding(now + d, r)
  BY DEF Next
<1> DEFINE ts == now + d
<1>2. Generous' /\ ts \in Int
  BY FillBounds DEF Next, Generous, FillInv
<1>3. touch # NoQuote => SoundQuote(touch) /\ touch.bid \in Int /\ touch.bid > 0
  BY DEF FillInv, SoundQuote, QuoteType
<1>4. ASSUME NEW q \in Quotes, OnBbo(ts, q) PROVE L!OnQuote(ts, q)
  <2>1. touch' = q /\ at' = ts /\ q.bid > 0 /\ q.ask > q.bid /\ q # NoQuote
    BY <1>4 DEF OnBbo, NoQuote
  <2>2. led' = IF touch = NoQuote THEN led
               ELSE L!Drift(L!Credit(led, MidOf(touch), at, ts), ts, MidOf(touch), MidOf(q))
    BY <1>4 DEF OnBbo
  <2>3. CASE touch = NoQuote
    BY <1>1, <1>2, <2>1, <2>2, <2>3 DEF L!OnQuote, MidOf, L!NoMark
  <2>4. CASE touch # NoQuote
    <3>1. [mid |-> MidOf(touch), bid |-> touch.bid, ask |-> touch.ask, at |-> at] # L!NoMark
      BY <1>3, <2>4 DEF L!NoMark
    <3> QED BY <1>1, <1>2, <2>1, <2>2, <2>4, <3>1 DEF L!OnQuote, MidOf
  <2> QED BY <2>3, <2>4
<1>5. ASSUME NEW p \in Prints, OnTrade(ts, p) PROVE L!OnTrade(ts, p)
  <2> DEFINE l == L!Credit(led, MidOf(touch), at, ts)
             sz == L!Allowed(l, -p.sign, L!Least(p.sz, QuoteSize))
  <2>1. touch # NoQuote /\ at' = ts /\ touch' = touch
    BY <1>5 DEF OnTrade
  <2>2. led' = IF sz > 0 THEN L!Settle(l, ts, -p.sign, IF p.sign > 0 THEN touch.ask ELSE touch.bid, sz,
                                       MidOf(touch))
               ELSE l
    BY <1>5 DEF OnTrade, GenerousFill
  <2>3. p.sign \in {-1, 1} /\ p.sz \in Int /\ QuoteSize \in Int /\ Cap \in Int
    BY FillBounds
  <2>4. sz \in Int /\ sz >= 0
    <3>1. MidOf(touch) \in Int /\ LedgerOk(led, MidOf(touch)) /\ at \in Int
      BY MidIsWhole DEF FillInv
    <3>2. LedgerOk(l, MidOf(touch))
      BY <1>2, <3>1, CreditKeeps
    <3> HIDE DEF l
    <3>3. l.position \in Int
      BY <3>2 DEF LedgerOk, HoursKept, LedgerType
    <3>4. Cap - (-p.sign) * l.position \in Int /\ L!Least(p.sz, QuoteSize) \in Int
      BY <2>3, <3>3 DEF L!Least
    <3> QED BY <3>4 DEF L!Allowed, L!Most, L!Least
  <2>5. (sz > 0 <=> ~(sz = 0)) /\ (p.sign > 0 <=> -p.sign < 0)
    BY <2>3, <2>4
  <2> DEFINE mk == [mid |-> MidOf(touch), bid |-> touch.bid, ask |-> touch.ask, at |-> at]
  <2>6. mk # L!NoMark
    BY <1>3, <2>1 DEF L!NoMark
  <2>7. led' = IF sz = 0 THEN l
               ELSE L!Settle(l, ts, -p.sign, IF -p.sign < 0 THEN touch.ask ELSE touch.bid, sz, MidOf(touch))
    BY <2>2, <2>5
  <2>8. [mid |-> MidOf(touch'), bid |-> touch'.bid, ask |-> touch'.ask, at |-> at'] = [mk EXCEPT !.at = ts]
    BY <2>1
  <2>9. mk.mid = MidOf(touch) /\ mk.bid = touch.bid /\ mk.ask = touch.ask /\ mk.at = at
    OBVIOUS
  <2>10. touch' # NoQuote
    BY <2>1
  <2> HIDE DEF mk
  <2>11. (IF Generous /\ touch # NoQuote
          THEN [mid |-> MidOf(touch), bid |-> touch.bid, ask |-> touch.ask, at |-> at]
          ELSE [mid |-> 0, bid |-> 0, ask |-> 0, at |-> 0]) = mk
    BY <2>1 DEF mk
  <2> QED BY <1>1, <1>2, <2>1, <2>6, <2>7, <2>8, <2>9, <2>10, <2>11 DEF L!OnTrade, MidOf
<1>6. ASSUME NEW r \in Rates, OnFunding(ts, r) PROVE L!OnFunding(ts, r)
  <2>1. touch # NoQuote /\ touch' = touch /\ at' = at /\ led' = L!Charge(led, ts, r, MidOf(touch))
    BY <1>6 DEF OnFunding
  <2>2. [mid |-> MidOf(touch), bid |-> touch.bid, ask |-> touch.ask, at |-> at] # L!NoMark
    BY <1>3, <2>1 DEF L!NoMark
  <2> QED BY <1>1, <1>2, <2>1, <2>2 DEF L!OnFunding, MidOf
<1> QED BY <1>1, <1>2, <1>4, <1>5, <1>6 DEF L!Next

-----------------------------------------------------------------------------
\* The orders and fills of the replay as the restated policy shows them.
RefOf(s, o) == [side |-> s, price |-> o.price, size |-> o.size, active |-> o.active,
                queue |-> o.queue, checked |-> o.checked, dead |-> o.dead]
HeldSides(os) == {s \in Sides : Held(os, s)}
RefOrders(os) == {RefOf(s, os[s]) : s \in HeldSides(os)}
BlotType == [ts : Int, side : Sides, price : Int, size : Int, mark : Int]
Blotted(rs) == [i \in 1..Len(rs) |-> Blot(rs[i])]
AccType == [rows : Seq(BlotType), pos : Int]
\* The machine is at the position and has made the fills that are booked.
Matches(x, acc, base) ==
    /\ acc \in AccType /\ base \in Seq(BlotType)
    /\ acc.pos = x.led.position /\ Blotted(x.records) = base \o acc.rows

(* The same orders are buried, refused and checked on arrival.             *)
LEMMA TransitionsMatch ==
    ASSUME NEW os \in OrdersType, NEW ts \in Int, NEW q, q.bid \in Int, q.ask \in Int
    PROVE  /\ Restated!Transitions(RefOrders(os), ts, q) = RefOrders(ProcessTransitions(os, ts, q))
           /\ {o.side : o \in Restated!Refused(RefOrders(os), ts, q)} = Rejected(os, ts, q)
<1> DEFINE R == RefOrders(os)
           po == ProcessTransitions(os, ts, q)
<1>1. \A s \in HeldSides(os) : os[s] \in OrderType /\ s \in Sides
  BY HeldIsOrder DEF HeldSides
<1>2. ASSUME NEW s \in HeldSides(os)
      PROVE  /\ RefOf(s, os[s]) \in R
             /\ RefOf(s, os[s]) \in Restated!Landed(R, ts) <=> Buried(os, s, ts)
             /\ RefOf(s, os[s]) \in Restated!Refused(R, ts, q) <=> s \in Rejected(os, ts, q)
  <2>1. RefOf(s, os[s]) \in R /\ Held(os, s) /\ s \in Sides /\ os[s].price \in Int
    BY <1>1 DEF RefOrders, HeldSides, OrderType
  <2>2. RefOf(s, os[s]) \in Restated!Landed(R, ts) <=> Buried(os, s, ts)
    BY <2>1 DEF Restated!Landed, Buried, RefOf
  <2>3. Restated!Meets(s, os[s].price, q) <=> Crosses(s, os[s], q)
    BY <2>1 DEF Restated!Meets, Crosses
  <2>4. RefOf(s, os[s]) \in Restated!Refused(R, ts, q) <=> s \in Rejected(os, ts, q)
    BY <2>1, <2>2, <2>3 DEF Restated!Refused, Rejected, RefOf, Restated!Live, IsLive
  <2> QED BY <2>1, <2>2, <2>4
<1>3. \A s \in Sides : po[s] = IF s \notin HeldSides(os) \/ Buried(os, s, ts) \/ s \in Rejected(os, ts, q)
                             THEN None ELSE [os[s] EXCEPT !.checked = @ \/ IsLive(os[s], ts)]
  BY DEF ProcessTransitions, HeldSides
<1>4. \A s \in HeldSides(os) :
         LET o == RefOf(s, os[s]) IN
         [o EXCEPT !.checked = @ \/ Restated!Live(o, ts)]
            = RefOf(s, [os[s] EXCEPT !.checked = @ \/ IsLive(os[s], ts)])
  BY <1>1 DEF RefOf, Restated!Live, IsLive, OrderType
<1>5. \A s \in HeldSides(os) : [os[s] EXCEPT !.checked = @ \/ IsLive(os[s], ts)] # None
  BY <1>1 DEF OrderType, None
<1>6. HeldSides(po) = {s \in HeldSides(os) : ~Buried(os, s, ts) /\ s \notin Rejected(os, ts, q)}
  BY <1>3, <1>5 DEF HeldSides, Held
<1> DEFINE K == Restated!Landed(R, ts) \cup Restated!Refused(R, ts, q)
<1>7. Restated!Transitions(R, ts, q) = {[o EXCEPT !.checked = @ \/ Restated!Live(o, ts)] : o \in R \ K}
  BY DEF Restated!Transitions
<1>8. R \ K = {RefOf(s, os[s]) : s \in HeldSides(po)}
  BY <1>2, <1>6 DEF RefOrders
<1>9. Restated!Transitions(R, ts, q) = RefOrders(po)
  <2> DEFINE F(o) == [o EXCEPT !.checked = @ \/ Restated!Live(o, ts)]
  <2>1. ASSUME NEW s \in HeldSides(po)
        PROVE  F(RefOf(s, os[s])) = RefOf(s, po[s])
    <3>1. s \in HeldSides(os) /\ s \in Sides /\ ~Buried(os, s, ts) /\ s \notin Rejected(os, ts, q)
      BY <1>1, <1>6
    <3>2. po[s] = [os[s] EXCEPT !.checked = @ \/ IsLive(os[s], ts)]
      BY <1>3, <3>1
    <3> QED BY <1>4, <3>1, <3>2
  <2>2. Restated!Transitions(R, ts, q) = {F(o) : o \in R \ K}
    BY <1>7
  <2>3. RefOrders(po) = {RefOf(s, po[s]) : s \in HeldSides(po)}
    BY DEF RefOrders
  <2> HIDE DEF K, R, po, F
  <2>4. ASSUME NEW o \in R \ K PROVE F(o) \in RefOrders(po)
    BY <1>8, <2>1, <2>3
  <2>5. ASSUME NEW s \in HeldSides(po) PROVE RefOf(s, po[s]) \in Restated!Transitions(R, ts, q)
    BY <1>8, <2>1, <2>2
  <2> QED BY <2>2, <2>3, <2>4, <2>5
<1>10. {o.side : o \in Restated!Refused(R, ts, q)} = Rejected(os, ts, q)
  <2>1. \A o \in Restated!Refused(R, ts, q) : \E s \in HeldSides(os) : o = RefOf(s, os[s])
    BY DEF Restated!Refused, RefOrders
  <2>2. \A s \in Rejected(os, ts, q) : s \in HeldSides(os)
    BY DEF Rejected, HeldSides
  <2>3. \A s \in HeldSides(os) : RefOf(s, os[s]).side = s
    BY DEF RefOf
  <2> QED BY <1>2, <2>1, <2>2, <2>3
<1> QED BY <1>9, <1>10

(* A row appended to the fills is appended to the blotter.                 *)
LEMMA BlottedAppend ==
    ASSUME NEW rs \in Seq(FillType), NEW r \in FillType
    PROVE  Blotted(Append(rs, r)) = Append(Blotted(rs), Blot(r))
<1> DEFINE n == Len(rs)
           B == Blotted(rs)
           S == {Blot(rs[i]) : i \in 1..n} \cup {Blot(r)}
           T == Append(rs, r)
<1>1. n \in Nat /\ Len(T) = n + 1 /\ T[n + 1] = r /\ \A i \in 1..n : T[i] = rs[i]
  OBVIOUS
<1>2. B = [i \in 1..n |-> Blot(rs[i])]
  BY DEF Blotted
<1>3. B \in [1..n -> S] /\ Blot(r) \in S
  BY <1>2
<1>4. Blotted(T) = [i \in 1..n + 1 |-> Blot(T[i])]
  BY <1>1 DEF Blotted
<1> HIDE DEF n, B, S, T
<1>5. /\ Append(B, Blot(r)) \in [1..n + 1 -> S] /\ Append(B, Blot(r))[n + 1] = Blot(r)
      /\ \A i \in 1..n : Append(B, Blot(r))[i] = B[i]
  <2> DEFINE e == Blot(r)
  <2>1. n \in Nat /\ B \in [1..n -> S] /\ e \in S
    BY <1>1, <1>3
  <2> HIDE DEF e
  <2>2. Append(B, e) \in [1..n + 1 -> S]
    BY ONLY <2>1, Appending
  <2>3. Append(B, e)[n + 1] = e
    BY ONLY <2>1, Appending
  <2>4. \A i \in 1..n : Append(B, e)[i] = B[i]
    BY ONLY <2>1, Appending
  <2> QED BY <2>2, <2>3, <2>4 DEF e
<1>6. \A i \in 1..n + 1 : i = n + 1 \/ i \in 1..n
  BY <1>1
<1>7. \A i \in 1..n + 1 : Append(B, Blot(r))[i] = Blot(T[i])
  BY <1>1, <1>2, <1>5, <1>6
<1>8. Append(B, Blot(r)) = Blotted(T)
  BY <1>4, <1>5, <1>7
<1> QED BY <1>8 DEF B, T

(* The mark a fill is booked at is read back from its edge.                *)
LEMMA MarkReadsBack ==
    ASSUME NEW mid \in Int, NEW px \in Int, NEW got \in Int, got > 0, NEW dir \in {-1, 1}
    PROVE  px + dir * ((dir * (mid - px) * got) \div got) = mid
<1> DEFINE d == dir * (mid - px)
<1>1. d \in Int /\ dir * d = mid - px
  OBVIOUS
<1> HIDE DEF d
<1>2. (d * got) \div got = d
  BY <1>1
<1>3. (dir * (mid - px) * got) \div got = d
  BY <1>2 DEF d
<1> QED BY <1>1, <1>3

(* A fill of the replay is a fill of the restated policy.                  *)
LEMMA FillMatches ==
    ASSUME NEW x, Machine(x), NEW ts \in Int, NEW s \in Sides, Held(x.orders, s), NEW size \in Int,
           NEW acc, NEW base, Matches(x, acc, base)
    PROVE  /\ Matches(Fill(x, ts, s, size),
                       Restated!BookFill(acc, RefOf(s, x.orders[s]), size, x.mid, ts), base)
           /\ Fill(x, ts, s, size).orders = [x.orders EXCEPT ![s] = None]
           /\ Fill(x, ts, s, size).led.inventory = x.led.inventory
<1> DEFINE o == x.orders[s]
           dir == Dir(s)
           room == L!Most(0, Cap - dir * x.led.position)
           got == L!Least(size, room)
           os == [x.orders EXCEPT ![s] = None]
           edge == dir * (x.mid - o.price) * got
           row == [ts |-> ts, side |-> s, size |-> got, price |-> o.price, edge |-> edge]
           paid == L!Settle(x.led, ts, dir, o.price, got, x.mid)
           y == [x EXCEPT !.orders = os]
           z == [x EXCEPT !.orders = os, !.led = paid, !.records = Append(@, row)]
           blot == [ts |-> ts, side |-> s, price |-> o.price, size |-> got, mark |-> x.mid]
           more == [rows |-> Append(acc.rows, blot), pos |-> acc.pos + dir * got]
<1>1. x.orders \in OrdersType /\ x.mid \in Int /\ x.led \in LedgerType /\ x.records \in Seq(FillType)
  BY DEF Machine
<1>2. o.price \in Int
  BY <1>1, HeldIsOrder DEF OrderType
<1>3. x.led.position \in Int /\ dir \in {-1, 1} /\ Cap \in Nat
  BY <1>1, FillBounds DEF LedgerType, Dir
<1>r. room \in Int /\ room = Restated!Headroom(s, x.led.position)
  <2>1. Cap - dir * x.led.position \in Int /\ dir = Restated!Signed(s)
    BY <1>3 DEF Dir, Restated!Signed
  <2> QED BY <2>1 DEF L!Most, Restated!Headroom
<1>4. got \in Int /\ (got > 0 => got <= Cap - dir * x.led.position)
  <2>1. Cap - dir * x.led.position \in Int
    BY <1>3
  <2> QED BY <2>1 DEF L!Least, L!Most
<1>5. Fill(x, ts, s, size) = IF got <= 0 THEN y ELSE z
  BY DEF Fill
<1>6. Restated!BookFill(acc, RefOf(s, o), size, x.mid, ts) = IF got <= 0 THEN acc ELSE more
  <2>1. RefOf(s, o).side = s /\ RefOf(s, o).price = o.price
    BY DEF RefOf
  <2>2. got = Restated!Lesser(size, Restated!Headroom(s, acc.pos)) /\ dir = Restated!Signed(s)
    BY <1>r DEF Matches, L!Least, Restated!Lesser, Dir, Restated!Signed
  <2> HIDE DEF got, dir, o
  <2> QED BY <2>1, <2>2 DEF Restated!BookFill
<1>7. y.orders = os /\ y.led = x.led /\ y.records = x.records
  BY DEF Machine
<1>8. CASE got > 0
  <2>1. /\ paid.position = x.led.position + dir * got
        /\ paid.inventory = x.led.inventory
    <3>1. LedgerOk(x.led, x.mid)
      BY DEF Machine
    <3> HIDE DEF got, o, dir, room
    <3>2. got >= 0
      BY <1>4, <1>8
    <3>3. got <= Cap - dir * x.led.position
      BY <1>4, <1>8
    <3> DEFINE l == x.led
               m == x.mid
               px == o.price
    <3>4. /\ LedgerOk(l, m) /\ m \in Int /\ px \in Int /\ got \in Int /\ dir \in {-1, 1}
          /\ got >= 0 /\ got <= Cap - dir * l.position
      BY <1>1, <1>2, <1>3, <1>4, <3>1, <3>2, <3>3
    <3> HIDE DEF l, m, px
    <3>5. /\ L!Settle(l, ts, dir, px, got, m).position = l.position + dir * got
          /\ L!Settle(l, ts, dir, px, got, m).inventory = l.inventory
      BY <3>4, SettleKeeps
    <3> QED BY <3>5 DEF l, m, px
  <2>2. edge \in Int /\ dir * got \in Int
    BY <1>1, <1>2, <1>3, <1>4
  <2>3. Blot(row) = blot
    <3>1. o.price + dir * (edge \div got) = x.mid
      <4> HIDE DEF got, o, dir, room
      <4>1. x.mid \in Int /\ o.price \in Int /\ got \in Int /\ got > 0 /\ dir \in {-1, 1}
        BY <1>1, <1>2, <1>3, <1>4, <1>8
      <4> QED BY ONLY <4>1, MarkReadsBack
    <3> HIDE DEF got, o, edge
    <3> QED BY <3>1 DEF Blot
  <2> HIDE DEF got, edge, paid, dir, o
  <2>4. row \in FillType /\ blot \in BlotType
    BY <1>1, <1>2, <1>4, <1>8, <2>2 DEF FillType, BlotType
  <2> HIDE DEF row, blot
  <2>5. Blotted(Append(x.records, row)) = Append(Blotted(x.records), blot)
    BY <1>1, <2>3, <2>4, BlottedAppend
  <2>6. acc.rows \in Seq(BlotType) /\ base \in Seq(BlotType) /\ acc.pos \in Int
        /\ Blotted(x.records) = base \o acc.rows /\ acc.pos = x.led.position
    BY DEF Matches, AccType
  <2>7. Append(base \o acc.rows, blot) = base \o Append(acc.rows, blot)
    <3>1. <<blot>> \in Seq(BlotType) /\ base \o acc.rows \in Seq(BlotType)
      BY <2>4, <2>6
    <3>2. Append(acc.rows, blot) = acc.rows \o <<blot>>
      BY <2>4, <2>6
    <3>3. Append(base \o acc.rows, blot) = (base \o acc.rows) \o <<blot>>
      BY <2>4, <3>1
    <3>4. (base \o acc.rows) \o <<blot>> = base \o (acc.rows \o <<blot>>)
      <4> DEFINE a == acc.rows
                 b == <<blot>>
      <4>1. base \in Seq(BlotType) /\ a \in Seq(BlotType) /\ b \in Seq(BlotType)
        BY <2>6, <3>1
      <4> HIDE DEF a, b
      <4>2. (base \o a) \o b = base \o (a \o b)
        BY <4>1, ConcatAssociative
      <4> QED BY <4>2 DEF a, b
    <3> QED BY ONLY <3>2, <3>3, <3>4
  <2>8. Append(acc.rows, blot) \in Seq(BlotType)
    BY <2>4, <2>6
  <2>9. more \in AccType /\ more.rows = Append(acc.rows, blot) /\ more.pos = acc.pos + dir * got
    BY <2>2, <2>6, <2>8 DEF AccType
  <2>10. z.led = paid /\ z.records = Append(x.records, row) /\ z.orders = os
    BY DEF Machine
  <2> HIDE DEF z, y, more
  <2>11. Matches(z, more, base)
    BY <2>1, <2>5, <2>6, <2>7, <2>9, <2>10 DEF Matches
  <2>12. ~(got <= 0)
    BY <1>4, <1>8
  <2> QED BY <1>5, <1>6, <2>1, <2>10, <2>11, <2>12 DEF o
<1>9. CASE got <= 0
  <2> HIDE DEF got, y, z, more, o
  <2>1. Matches(y, acc, base)
    BY <1>7 DEF Matches
  <2> QED BY <1>5, <1>6, <1>7, <1>9, <2>1 DEF o
<1> QED BY <1>4, <1>8, <1>9
(* Orders that change one by one change as a set.                          *)
LEMMA OneByOne ==
    ASSUME NEW os, NEW os2, NEW F, HeldSides(os2) = HeldSides(os), NEW R, R = RefOrders(os),
           \A s \in HeldSides(os) : F[RefOf(s, os[s])] = RefOf(s, os2[s])
    PROVE  {F[o] : o \in R} = RefOrders(os2)
<1>1. ASSUME NEW o \in R PROVE F[o] \in RefOrders(os2)
  BY DEF RefOrders
<1>2. ASSUME NEW r \in RefOrders(os2) PROVE \E o \in R : r = F[o]
  <2>1. PICK s \in HeldSides(os) : r = RefOf(s, os2[s])
    BY DEF RefOrders
  <2>2. RefOf(s, os[s]) \in R
    BY DEF RefOrders
  <2> QED BY <2>1, <2>2
<1> QED BY <1>1, <1>2

\* The touch runs over the order of a side.
RunsOver(x, ts, s, q) ==
    Held(x.orders, s) /\ IsLive(x.orders[s], ts) /\ Crosses(s, x.orders[s], q)

\* H is what the restated policy has to fill of a side, for want of each.
IsHit(H, want, x, ts, s, q) ==
    /\ H = IF RunsOver(x, ts, s, q) THEN {RefOf(s, x.orders[s])} ELSE {}
    /\ RunsOver(x, ts, s, q) => want[RefOf(s, x.orders[s])] = x.orders[s].size

(* A stale quote the touch runs over is filled by both alike.              *)
LEMMA CrossingMatches ==
    ASSUME NEW x, Machine(x), NEW ts \in Int, NEW s \in Sides, NEW q,
           NEW acc, NEW base, Matches(x, acc, base), NEW mark, mark = x.mid, NEW want, NEW H,
           IsHit(H, want, x, ts, s, q)
    PROVE  /\ Matches(CrossingFill(x, ts, s, q), Restated!BookSide(acc, H, want, mark, ts), base)
           /\ CrossingFill(x, ts, s, q).orders =
                 IF RunsOver(x, ts, s, q) THEN [x.orders EXCEPT ![s] = None] ELSE x.orders
           /\ CrossingFill(x, ts, s, q).led.inventory = x.led.inventory
<1> DEFINE r == RefOf(s, x.orders[s])
<1>1. CASE RunsOver(x, ts, s, q)
  <2>1. Held(x.orders, s) /\ x.orders[s].size \in Int
    BY <1>1, HeldIsOrder DEF RunsOver, Machine, OrderType
  <2>2. CrossingFill(x, ts, s, q) = Fill(x, ts, s, x.orders[s].size)
    BY <1>1 DEF CrossingFill, RunsOver
  <2>3. Restated!BookSide(acc, H, want, mark, ts) = Restated!BookFill(acc, r, x.orders[s].size, mark, ts)
    <3>1. H = {r} /\ want[r] = x.orders[s].size
      BY <1>1 DEF IsHit
    <3> HIDE DEF r
    <3>2. (CHOOSE o \in H : TRUE) = r /\ H # {}
      BY <3>1
    <3> QED BY <3>1, <3>2 DEF Restated!BookSide
  <2>4. /\ Matches(Fill(x, ts, s, x.orders[s].size), Restated!BookFill(acc, r, x.orders[s].size, mark, ts), base)
        /\ Fill(x, ts, s, x.orders[s].size).orders = [x.orders EXCEPT ![s] = None]
        /\ Fill(x, ts, s, x.orders[s].size).led.inventory = x.led.inventory
    <3> DEFINE size == x.orders[s].size
    <3>1. size \in Int
      BY <2>1
    <3> HIDE DEF size
    <3>2. /\ Matches(Fill(x, ts, s, size), Restated!BookFill(acc, r, size, x.mid, ts), base)
          /\ Fill(x, ts, s, size).orders = [x.orders EXCEPT ![s] = None]
          /\ Fill(x, ts, s, size).led.inventory = x.led.inventory
      BY <2>1, <3>1, FillMatches
    <3> QED BY <3>2 DEF size
  <2> HIDE DEF r
  <2> QED BY <1>1, <2>2, <2>3, <2>4
<1>2. CASE ~RunsOver(x, ts, s, q)
  <2>1. CrossingFill(x, ts, s, q) = x
    BY <1>2 DEF CrossingFill, RunsOver
  <2>2. Restated!BookSide(acc, H, want, mark, ts) = acc
    BY <1>2 DEF Restated!BookSide, IsHit
  <2> QED BY <1>2, <2>1, <2>2
<1> QED BY <1>1, <1>2

\* What the policy fills of an update, and how much of each.
PolicyHits(kept, ts, q) ==
    {o \in kept : Restated!Live(o, ts) /\ Restated!Meets(o.side, o.price, q)}
InFull(hit) == [o \in hit |-> o.size]
NothingYet(pos) == [rows |-> <<>>, pos |-> pos]

(* Both sides of an update net, the bid first.                             *)
LEMMA UpdateFillsMatch ==
    ASSUME NEW x, Machine(x), NEW ts \in Int, NEW q, q.bid \in Int, q.ask \in Int, NEW base,
           NEW pos, NEW mark, mark = x.mid, Matches(x, NothingYet(pos), base), NEW kept,
           kept = RefOrders(x.orders)
    PROVE  LET y == CrossingFill(CrossingFill(x, ts, "bid", q), ts, "ask", q)
               hit == PolicyHits(kept, ts, q)
           IN  /\ Matches(y, Restated!Fills(hit, InFull(hit), mark, ts, pos), base)
               /\ RefOrders(y.orders) = kept \ hit
               /\ \A s \in Sides : y.orders[s] \in {None, x.orders[s]}
               /\ y.led.inventory = x.led.inventory /\ Machine(y)
<1> DEFINE os == x.orders
           hit == PolicyHits(kept, ts, q)
           want == InFull(hit)
           acc == [rows |-> <<>>, pos |-> pos]
           xb == CrossingFill(x, ts, "bid", q)
           y == CrossingFill(xb, ts, "ask", q)
           HB == {o \in hit : o.side = "bid"}
           HA == {o \in hit : o.side = "ask"}
           fb == Restated!BookSide(acc, HB, want, mark, ts)
           fa == Restated!BookSide(fb, HA, want, mark, ts)
           out == {s \in Sides : RunsOver(x, ts, s, q)}
<1>1. os \in OrdersType
  BY DEF Machine
<1>2. \A s \in HeldSides(os) : os[s] \in OrderType /\ s \in Sides /\ RefOf(s, os[s]).side = s
                              /\ RefOf(s, os[s]).size = os[s].size
  BY <1>1, HeldIsOrder DEF HeldSides, RefOf
<1>3. \A s \in HeldSides(os) : RefOf(s, os[s]) \in hit <=> s \in out
  <2>1. \A s \in HeldSides(os) : Restated!Meets(s, os[s].price, q) <=> Crosses(s, os[s], q)
    BY <1>2 DEF Restated!Meets, Crosses, OrderType
  <2> QED BY <1>2, <2>1 DEF PolicyHits, RefOrders, RefOf, RunsOver, Restated!Live, IsLive, HeldSides
<1>4. \A s \in out : s \in HeldSides(os)
  BY DEF RunsOver, HeldSides
<1>5. \A o \in kept : \E s \in HeldSides(os) : o = RefOf(s, os[s])
  BY DEF RefOrders
<1>6. \A s \in Sides : {o \in hit : o.side = s} = IF s \in out THEN {RefOf(s, os[s])} ELSE {}
  <2>0. \A o \in hit : o \in kept
    BY DEF PolicyHits
  <2> HIDE DEF out, os, hit
  <2> TAKE s \in Sides
  <2>1. CASE s \in out
    <3>1. RefOf(s, os[s]) \in hit /\ RefOf(s, os[s]).side = s
      BY <1>2, <1>3, <1>4, <2>1
    <3>2. ASSUME NEW o \in hit, o.side = s PROVE o = RefOf(s, os[s])
      BY <1>2, <1>5, <2>0, <3>2
    <3> QED BY <2>1, <3>1, <3>2
  <2>2. CASE s \notin out
    <3>1. ASSUME NEW o \in hit, o.side = s PROVE FALSE
      BY <1>2, <1>3, <1>5, <2>0, <2>2, <3>1
    <3> QED BY <2>2, <3>1
  <2> QED BY <2>1, <2>2
<1>7. \A s \in out : want[RefOf(s, os[s])] = os[s].size
  <2> HIDE DEF hit, out
  <2> QED BY <1>2, <1>3, <1>4 DEF InFull
<1>8. /\ Matches(xb, fb, base) /\ xb.led.inventory = x.led.inventory
      /\ xb.orders = IF "bid" \in out THEN [os EXCEPT !["bid"] = None] ELSE os
  <2>1. "bid" \in Sides /\ ("bid" \in out <=> RunsOver(x, ts, "bid", q))
    BY DEF Sides
  <2> HIDE DEF want, out
  <2>2. HB = IF RunsOver(x, ts, "bid", q) THEN {RefOf("bid", x.orders["bid"])} ELSE {}
    BY <1>6, <2>1
  <2>3. RunsOver(x, ts, "bid", q) => want[RefOf("bid", x.orders["bid"])] = x.orders["bid"].size
    BY <1>7, <2>1
  <2> HIDE DEF HB, acc
  <2>4. Matches(x, acc, base)
    BY DEF acc, NothingYet
  <2>5. /\ Matches(CrossingFill(x, ts, "bid", q), Restated!BookSide(acc, HB, want, mark, ts), base)
        /\ CrossingFill(x, ts, "bid", q).orders =
             IF RunsOver(x, ts, "bid", q) THEN [x.orders EXCEPT !["bid"] = None] ELSE x.orders
        /\ CrossingFill(x, ts, "bid", q).led.inventory = x.led.inventory
    <3>1. IsHit(HB, want, x, ts, "bid", q)
      BY <2>2, <2>3 DEF IsHit
    <3> QED BY <2>1, <2>4, <3>1, CrossingMatches
  <2> QED BY <2>1, <2>5
<1>9. Machine(xb) /\ xb.mid = x.mid
  BY CrossingFillKeeps DEF Sides
<1>10. xb.orders["ask"] = os["ask"] /\ (RunsOver(xb, ts, "ask", q) <=> "ask" \in out)
  <2>1. xb.orders["ask"] = os["ask"]
    BY <1>1, <1>8 DEF OrdersType, Sides
  <2> QED BY <2>1 DEF RunsOver, Held, Sides
<1>11. /\ Matches(y, fa, base) /\ y.led.inventory = x.led.inventory
       /\ y.orders = IF "ask" \in out THEN [xb.orders EXCEPT !["ask"] = None] ELSE xb.orders
  <2>1. "ask" \in Sides
    BY DEF Sides
  <2> HIDE DEF want, out, xb, fb
  <2>2. HA = IF RunsOver(xb, ts, "ask", q) THEN {RefOf("ask", xb.orders["ask"])} ELSE {}
    BY <1>6, <1>10, <2>1
  <2>3. RunsOver(xb, ts, "ask", q) => want[RefOf("ask", xb.orders["ask"])] = xb.orders["ask"].size
    BY <1>7, <1>10
  <2> HIDE DEF HA
  <2>4. Matches(xb, fb, base) /\ Machine(xb) /\ mark = xb.mid
    BY <1>8, <1>9
  <2>5. /\ Matches(CrossingFill(xb, ts, "ask", q), Restated!BookSide(fb, HA, want, mark, ts), base)
        /\ CrossingFill(xb, ts, "ask", q).orders =
             IF RunsOver(xb, ts, "ask", q) THEN [xb.orders EXCEPT !["ask"] = None] ELSE xb.orders
        /\ CrossingFill(xb, ts, "ask", q).led.inventory = xb.led.inventory
    <3>1. IsHit(HA, want, xb, ts, "ask", q)
      BY <2>2, <2>3 DEF IsHit
    <3> QED BY <2>1, <2>4, <3>1, CrossingMatches
  <2> QED BY <1>8, <1>10, <2>5
<1>12. fa = Restated!Fills(hit, want, mark, ts, pos)
  BY DEF Restated!Fills, NothingYet
<1>13. Machine(y)
  BY <1>9, CrossingFillKeeps DEF Sides
<1>14. \A s \in Sides : y.orders[s] = IF s \in out THEN None ELSE os[s]
  <2> HIDE DEF out, y, xb
  <2> QED BY <1>1, <1>8, <1>10, <1>11 DEF OrdersType, Sides
<1>15. RefOrders(y.orders) = kept \ hit
  <2> HIDE DEF out, y, os
  <2>1. HeldSides(y.orders) = HeldSides(os) \ out
    BY <1>14 DEF HeldSides, Held
  <2>2. \A s \in HeldSides(y.orders) : y.orders[s] = os[s]
    BY <1>14, <2>1 DEF HeldSides
  <2>3. ASSUME NEW o \in kept \ hit PROVE o \in RefOrders(y.orders)
    BY <1>3, <1>5, <2>1, <2>2 DEF RefOrders
  <2>4. ASSUME NEW o \in RefOrders(y.orders) PROVE o \in kept \ hit
    <3>1. PICK s \in HeldSides(y.orders) : o = RefOf(s, os[s])
      BY <2>2 DEF RefOrders
    <3>2. RefOf(s, os[s]) \in kept /\ s \in HeldSides(os) /\ s \notin out
      BY <2>1 DEF RefOrders, os
    <3> QED BY <1>3, <3>1, <3>2
  <2> QED BY <2>3, <2>4
<1> HIDE DEF y, fa, out
<1> QED BY <1>11, <1>12, <1>13, <1>14, <1>15 DEF y
(* No headroom is the cap reached.                                         *)
LEMMA CappedHasNoRoom ==
    ASSUME NEW l \in LedgerType, NEW s \in Sides
    PROVE  /\ Restated!Headroom(s, l.position) = 0 <=> Capped(l, s)
           /\ Restated!Headroom(s, l.position) > 0 <=> ~Capped(l, s)
<1>1. l.position \in Int /\ Cap \in Nat /\ Dir(s) \in {-1, 1} /\ Dir(s) = Restated!Signed(s)
  BY FillBounds DEF LedgerType, Dir, Restated!Signed
<1> DEFINE taken == Dir(s) * l.position
<1>2. taken \in Int
  BY <1>1
<1>3. Restated!Headroom(s, l.position) = IF Cap - taken > 0 THEN Cap - taken ELSE 0
  BY <1>1 DEF Restated!Headroom
<1> HIDE DEF taken
<1>4. Capped(l, s) <=> taken >= Cap
  BY DEF Capped, taken
<1> QED BY <1>1, <1>2, <1>3, <1>4

\* An order the touch left or the cap withdrew, as the restated policy says it.
Outdated(o, ts, q, pos) ==
    /\ Restated!Live(o, ts) /\ o.dead = -1
    /\ o.price # Restated!Touching(o.side, q) \/ Restated!Headroom(o.side, pos) = 0

(* The same orders are outdated, and their cancels begin together.         *)
LEMMA StaleMatch ==
    ASSUME Described, NEW x, x.orders \in OrdersType, x.led \in LedgerType, NEW ts \in Int, NEW q,
           NEW left, left = RefOrders(x.orders), NEW pos, pos = x.led.position
    PROVE  /\ {[o EXCEPT !.dead = IF Outdated(o, ts, q, pos) THEN ts + Latency ELSE @] : o \in left}
                  = RefOrders(CancelStale(x, ts, q))
           /\ Restated!Cardinality({o \in left : Outdated(o, ts, q, pos)})
                  = Cardinality(StaleSides(x, ts, q))
<1> DEFINE os == x.orders
           cs == CancelStale(x, ts, q)
           stale == StaleSides(x, ts, q)
           F == [o \in left |->
                   [o EXCEPT !.dead = IF Outdated(o, ts, q, pos) THEN ts + Latency ELSE @]]
           old == {o \in left : Outdated(o, ts, q, pos)}
<1>1. \A s \in HeldSides(os) : os[s] \in OrderType /\ s \in Sides
  BY HeldIsOrder DEF HeldSides
<1>2. \A s \in HeldSides(os) : Outdated(RefOf(s, os[s]), ts, q, pos) <=> s \in stale
  <2> TAKE s \in HeldSides(os)
  <2>1. Target(s, q) = Restated!Touching(s, q)
    BY DEF Described, Target, Face, Restated!Touching
  <2>2. Restated!Headroom(s, pos) = 0 <=> Capped(x.led, s)
    BY <1>1, CappedHasNoRoom
  <2>3. s \in Sides /\ Held(os, s)
    BY <1>1 DEF HeldSides
  <2>4. /\ RefOf(s, os[s]).side = s /\ RefOf(s, os[s]).price = os[s].price
        /\ RefOf(s, os[s]).dead = os[s].dead /\ RefOf(s, os[s]).active = os[s].active
    BY DEF RefOf
  <2> QED BY <2>1, <2>2, <2>3, <2>4 DEF Outdated, StaleSides, Restated!Live, IsLive
<1>3. stale \subseteq HeldSides(os)
  BY DEF StaleSides, HeldSides
<1>4. \A s \in Sides : cs[s] = IF s \in stale THEN [os[s] EXCEPT !.dead = ts + Latency] ELSE os[s]
  BY DEF CancelStale
<1>5. HeldSides(cs) = HeldSides(os)
  <2>1. \A s \in stale : [os[s] EXCEPT !.dead = ts + Latency] # None
    BY <1>1, <1>3 DEF OrderType, None
  <2> HIDE DEF stale, cs
  <2> QED BY <1>3, <1>4, <2>1 DEF HeldSides, Held
<1>6. \A s \in HeldSides(os) : F[RefOf(s, os[s])] = RefOf(s, cs[s])
  <2> TAKE s \in HeldSides(os)
  <2>1. F[RefOf(s, os[s])] = [RefOf(s, os[s]) EXCEPT !.dead = IF s \in stale THEN ts + Latency ELSE @]
    BY <1>2 DEF RefOrders
  <2>2. os[s] \in OrderType /\ cs[s] = IF s \in stale THEN [os[s] EXCEPT !.dead = ts + Latency] ELSE os[s]
    BY <1>1, <1>4
  <2> HIDE DEF F, stale, cs, os
  <2>3. CASE s \in stale
    BY <2>1, <2>2, <2>3 DEF RefOf, OrderType
  <2>4. CASE s \notin stale
    BY <2>1, <2>2, <2>4 DEF RefOf, OrderType
  <2> QED BY <2>3, <2>4
<1>7. {F[o] : o \in left} = RefOrders(cs)
  <2>1. left = RefOrders(os)
    OBVIOUS
  <2> HIDE DEF F, os, cs
  <2> QED BY <1>5, <1>6, <2>1, OneByOne
<1>8. {[o EXCEPT !.dead = IF Outdated(o, ts, q, pos) THEN ts + Latency ELSE @] : o \in left}
        = {F[o] : o \in left}
  OBVIOUS
<1>9. Cardinality(old) = Cardinality(stale)
  <2> DEFINE B == [s \in stale |-> RefOf(s, os[s])]
  <2>1. B \in [stale -> old]
    BY <1>2, <1>3 DEF RefOrders
  <2>2. \A s \in stale : B[s].side = s
    BY DEF RefOf
  <2>3. \A o \in old : \E s \in stale : B[s] = o
    BY <1>2 DEF RefOrders
  <2> HIDE DEF B, stale, old
  <2>4. ExistsBijection(stale, old)
    <3>1. B \in Bijection(stale, old)
      BY <2>1, <2>2, <2>3 DEF Bijection, Injection, Surjection, IsInjective
    <3> QED BY <3>1 DEF ExistsBijection
  <2>5. IsFiniteSet(stale)
    <3>1. IsFiniteSet({} \cup {"bid"})
      BY FS_AddElement, FS_EmptySet
    <3>2. IsFiniteSet(({} \cup {"bid"}) \cup {"ask"})
      BY <3>1, FS_AddElement
    <3>3. stale \subseteq ({} \cup {"bid"}) \cup {"ask"}
      BY DEF stale, StaleSides, Sides
    <3> QED BY <3>2, <3>3, FS_Subset
  <2> QED BY <2>4, <2>5, FS_Bijection
<1>10. Restated!Cardinality(old) = Cardinality(old)
  BY DEF Restated!Cardinality, Cardinality, Restated!IsFiniteSet, IsFiniteSet
<1> HIDE DEF F, old, stale, cs
<1> QED BY <1>7, <1>8, <1>9, <1>10 DEF old, stale, cs

(* Other people's cancels shrink the same queues.                          *)
LEMMA RefreshMatch ==
    ASSUME NEW os \in OrdersType, NEW ts \in Int, NEW q, NEW aged, aged = RefOrders(os)
    PROVE  {[o EXCEPT !.queue = IF variant.queue = "own_level_cancels" /\ Restated!Live(o, ts)
                                   /\ o.price = Restated!Touching(o.side, q)
                                THEN Restated!Lesser(@, Restated!DepthAt(o.side, q)) ELSE @] :
              o \in aged} = RefOrders(RefreshQueue(os, ts, q))
<1> DEFINE rs == RefreshQueue(os, ts, q)
           F == [o \in aged |->
                   [o EXCEPT !.queue = IF variant.queue = "own_level_cancels" /\ Restated!Live(o, ts)
                                          /\ o.price = Restated!Touching(o.side, q)
                                       THEN Restated!Lesser(@, Restated!DepthAt(o.side, q)) ELSE @]]
           at2 == {s \in HeldSides(os) : /\ variant.queue = "own_level_cancels" /\ IsLive(os[s], ts)
                                         /\ os[s].price = Face(s, q)}
<1>1. \A s \in HeldSides(os) : os[s] \in OrderType /\ s \in Sides
  BY HeldIsOrder DEF HeldSides
<1>2. \A s \in Sides : rs[s] = IF s \in at2 THEN [os[s] EXCEPT !.queue = L!Least(@, Size(s, q))] ELSE os[s]
  BY DEF RefreshQueue, HeldSides
<1>3. HeldSides(rs) = HeldSides(os)
  <2>1. \A s \in at2 : [os[s] EXCEPT !.queue = L!Least(@, Size(s, q))] # None
    BY <1>1 DEF OrderType, None
  <2>2. \A s \in at2 : s \in HeldSides(os)
    OBVIOUS
  <2> HIDE DEF at2, rs
  <2> QED BY <1>2, <2>1, <2>2 DEF HeldSides, Held
<1>4. \A s \in HeldSides(os) : F[RefOf(s, os[s])] = RefOf(s, rs[s])
  <2> TAKE s \in HeldSides(os)
  <2>1. /\ Restated!Touching(s, q) = Face(s, q) /\ Restated!DepthAt(s, q) = Size(s, q)
        /\ Restated!Lesser(os[s].queue, Size(s, q)) = L!Least(os[s].queue, Size(s, q))
    BY DEF Restated!Touching, Face, Restated!DepthAt, Size, Restated!Lesser, L!Least
  <2>2. /\ RefOf(s, os[s]).side = s /\ RefOf(s, os[s]).price = os[s].price
        /\ RefOf(s, os[s]).queue = os[s].queue /\ RefOf(s, os[s]).active = os[s].active
    BY DEF RefOf
  <2>3. F[RefOf(s, os[s])] = [RefOf(s, os[s]) EXCEPT !.queue =
                                 IF s \in at2 THEN L!Least(os[s].queue, Size(s, q)) ELSE os[s].queue]
    BY <2>1, <2>2 DEF RefOrders, Restated!Live, IsLive
  <2>4. os[s] \in OrderType
        /\ rs[s] = IF s \in at2 THEN [os[s] EXCEPT !.queue = L!Least(@, Size(s, q))] ELSE os[s]
    BY <1>1, <1>2
  <2> HIDE DEF F, at2, rs
  <2>5. CASE s \in at2
    BY <2>3, <2>4, <2>5 DEF RefOf, OrderType
  <2>6. CASE s \notin at2
    BY <2>3, <2>4, <2>6 DEF RefOf, OrderType
  <2> QED BY <2>5, <2>6
<1>5. {F[o] : o \in aged} = RefOrders(rs)
  <2> HIDE DEF F, rs
  <2> QED BY <1>3, <1>4, OneByOne
<1>6. {[o EXCEPT !.queue = IF variant.queue = "own_level_cancels" /\ Restated!Live(o, ts)
                              /\ o.price = Restated!Touching(o.side, q)
                           THEN Restated!Lesser(@, Restated!DepthAt(o.side, q)) ELSE @] :
         o \in aged} = {F[o] : o \in aged}
  OBVIOUS
<1> HIDE DEF F, rs
<1> QED BY <1>5, <1>6 DEF rs

(* The empty sides that may quote are quoted alike.                        *)
LEMMA PlacedMatch ==
    ASSUME Described, NEW os \in OrdersType, NEW l \in LedgerType, NEW ts \in Int, NEW q \in QuoteType,
           NEW no, NEW looked, looked = RefOrders(os), NEW pos, pos = l.position
    PROVE  LET want == {s \in Restated!Sides : /\ s \notin {o.side : o \in looked} /\ s \notin no
                                              /\ Restated!Headroom(s, pos) > 0}
           IN  looked \cup {[side |-> s, price |-> Restated!Touching(s, q), size |-> QuoteSize,
                            active |-> ts + Latency, queue |-> Restated!DepthAt(s, q),
                            checked |-> FALSE, dead |-> -1] : s \in want}
                  = RefOrders(PlaceWanted(os, l, ts, q, no))
<1> DEFINE ps == PlaceWanted(os, l, ts, q, no)
           want == {s \in Restated!Sides : /\ s \notin {o.side : o \in looked} /\ s \notin no
                                           /\ Restated!Headroom(s, pos) > 0}
           new(s) == [side |-> s, price |-> Restated!Touching(s, q), size |-> QuoteSize,
                      active |-> ts + Latency, queue |-> Restated!DepthAt(s, q),
                      checked |-> FALSE, dead |-> -1]
           order(s) == [price |-> Face(s, q), size |-> QuoteSize, active |-> ts + Latency,
                        queue |-> Size(s, q), checked |-> FALSE, dead |-> -1]
<1>1. {o.side : o \in looked} = HeldSides(os)
  <2>1. \A s \in HeldSides(os) : RefOf(s, os[s]).side = s
    BY DEF RefOf
  <2> QED BY <2>1 DEF RefOrders
<1>2. \A s \in Sides : s \in want <=> ~(Held(os, s) \/ s \in no \/ Capped(l, s))
  BY <1>1, CappedHasNoRoom DEF HeldSides, Sides, Restated!Sides
<1>3. \A s \in Sides : ps[s] = IF s \in want THEN order(s) ELSE os[s]
  BY <1>2 DEF PlaceWanted, Target, Described
<1>4. \A s \in Sides : order(s) # None /\ RefOf(s, order(s)) = new(s)
  BY DEF None, RefOf, Restated!Touching, Face, Restated!DepthAt, Size
<1>5. \A s \in want : s \in Sides /\ s \notin HeldSides(os)
  BY <1>1 DEF Sides, Restated!Sides
<1> HIDE DEF ps, want, new, order
<1>6. HeldSides(ps) = HeldSides(os) \cup want
  BY <1>3, <1>4, <1>5 DEF HeldSides, Held
<1>7. /\ \A s \in want : RefOf(s, ps[s]) = new(s)
      /\ \A s \in HeldSides(os) : ps[s] = os[s]
  BY <1>3, <1>4, <1>5 DEF HeldSides
<1>8. RefOrders(ps) = RefOrders(os) \cup {new(s) : s \in want}
  <2>1. ASSUME NEW r \in RefOrders(ps) PROVE r \in RefOrders(os) \cup {new(s) : s \in want}
    <3>1. PICK s \in HeldSides(ps) : r = RefOf(s, ps[s])
      BY DEF RefOrders
    <3> QED BY <1>6, <1>7, <3>1 DEF RefOrders
  <2>2. ASSUME NEW r \in RefOrders(os) PROVE r \in RefOrders(ps)
    BY <1>6, <1>7 DEF RefOrders
  <2>3. ASSUME NEW s \in want PROVE new(s) \in RefOrders(ps)
    BY <1>6, <1>7 DEF RefOrders
  <2> QED BY <2>1, <2>2, <2>3
<1>9. looked \cup {new(s) : s \in want} = RefOrders(ps)
  BY <1>8
<1> QED BY <1>9 DEF ps, want, new
(* The fills are a blotter.                                                *)
LEMMA BlotterType == ASSUME NEW rs \in Seq(FillType) PROVE Blotted(rs) \in Seq(BlotType)
<1>1. ASSUME NEW i \in 1..Len(rs) PROVE Blot(rs[i]) \in BlotType
  <2>1. rs[i] \in FillType
    OBVIOUS
  <2> DEFINE r == rs[i]
             k == r.edge \div r.size
  <2>0. r.edge \in Int /\ r.size \in Int /\ r.size > 0
    BY <2>1 DEF FillType
  <2>2. k \in Int
    <3> HIDE DEF r
    <3> QED BY ONLY <2>0
  <2>3. /\ r.ts \in Int /\ r.side \in Sides /\ r.price \in Int /\ r.size \in Int
        /\ Dir(r.side) \in {-1, 1}
    BY <2>1 DEF FillType, Dir
  <2>4. Blot(r) = [ts |-> r.ts, side |-> r.side, price |-> r.price, size |-> r.size,
                   mark |-> r.price + Dir(r.side) * k]
    BY DEF Blot
  <2> HIDE DEF k, r
  <2>5. r.price + Dir(r.side) * k \in Int
    BY <2>2, <2>3
  <2>6. Blot(r) \in BlotType
    BY <2>3, <2>4, <2>5 DEF BlotType
  <2> QED BY <2>6 DEF r
<1>2. Len(rs) \in Nat /\ Blotted(rs) \in [1..Len(rs) -> BlotType]
  BY <1>1 DEF Blotted
<1> QED BY <1>2

\* What a substitution shows of the replay while the policy describes it.
Shown == IF Described THEN {RefOrder(s) : s \in {t \in Sides : Held(orders, t)}} ELSE {}
ShownFills == IF Described THEN [i \in 1..Len(records) |-> Blot(records[i])] ELSE <<>>
ShownTouch == IF Described THEN [bid |-> touch.bid, ask |-> touch.ask] ELSE [bid |-> 0, ask |-> 0]

(* They are its orders, its fills and its touch.                           *)
LEMMA ShownIsTheReplay ==
    ASSUME Described
    PROVE  /\ Shown = RefOrders(orders) /\ ShownFills = Blotted(records)
           /\ ShownTouch = [bid |-> touch.bid, ask |-> touch.ask]
<1>1. {RefOrder(s) : s \in {t \in Sides : Held(orders, t)}} = RefOrders(orders)
  BY DEF RefOrder, RefOrders, RefOf, HeldSides
<1> QED BY <1>1 DEF Shown, ShownFills, ShownTouch, Blotted

(* A new quote of the replay is one of the restated policy.                *)
LEMMA BboIsThePolicys ==
    ASSUME FillInv, Described, NEW ts \in Int, NEW q \in Quotes, OnBbo(ts, q), now' = ts,
           UNCHANGED variant
    PROVE  Restated!Bbo(ts, q)
<1> DEFINE rp == IF Described THEN led.position ELSE 0
           ri == IF Described THEN led.inventory ELSE 0
           rc == IF Described THEN cancels ELSE 0
           mark == Restated!MidOf(q)
           no == {o.side : o \in Restated!Refused(Shown, ts, q)}
           kept == Restated!Transitions(Shown, ts, q)
           hit == PolicyHits(kept, ts, q)
           f == Restated!Fills(hit, InFull(hit), mark, ts, rp)
           left == kept \ hit
           aged == {[o EXCEPT !.dead = IF Outdated(o, ts, q, f.pos) THEN ts + Latency ELSE @] : o \in left}
           looked == {[o EXCEPT !.queue = IF variant.queue = "own_level_cancels" /\ Restated!Live(o, ts)
                                             /\ o.price = Restated!Touching(o.side, q)
                                          THEN Restated!Lesser(@, Restated!DepthAt(o.side, q)) ELSE @] :
                        o \in aged}
           want == {s \in Restated!Sides : /\ s \notin {o.side : o \in looked} /\ s \notin no
                                           /\ Restated!Headroom(s, f.pos) > 0}
           put == looked \cup {[side |-> s, price |-> Restated!Touching(s, q), size |-> QuoteSize,
                                active |-> ts + Latency, queue |-> Restated!DepthAt(s, q),
                                checked |-> FALSE, dead |-> -1] : s \in want}
           going == Restated!Cardinality({o \in left : Outdated(o, ts, q, f.pos)})
           mid == MidOf(q)
           l == IF touch = NoQuote THEN led
                ELSE L!Drift(L!Credit(led, MidOf(touch), at, ts), ts, MidOf(touch), mid)
           po == ProcessTransitions(orders, ts, q)
           x0 == [orders |-> po, led |-> l, records |-> records, mid |-> mid]
           x1 == CrossingFill(CrossingFill(x0, ts, "bid", q), ts, "ask", q)
           cs == CancelStale(x1, ts, q)
           os == RefreshQueue(cs, ts, q)
           skip == Rejected(orders, ts, q) \cup (IF variant.alo = "legacy_leak" THEN leaked ELSE {})
           placed == PlaceWanted(os, x1.led, ts, q, skip)
           base == Blotted(records)
<1>1. /\ SoundQuote(q) /\ q \in QuoteType /\ mid \in Int /\ MidOf(touch) \in Int /\ mark = mid
      /\ orders \in OrdersType /\ records \in Seq(FillType) /\ q.bid \in Int /\ q.ask \in Int
  BY FillBounds, MidIsWhole DEF OnBbo, SoundQuote, QuoteType, FillInv, MidOf, Restated!MidOf
<1>2. /\ LedgerOk(l, mid) /\ l.position = led.position
      /\ l.inventory = IF touch = NoQuote THEN led.inventory
                       ELSE led.inventory + led.position * (mid - MidOf(touch))
  <2>1. CASE touch = NoQuote
    <3>1. led = L!NewLedger /\ led.position = 0 /\ MidOf(touch) = 0
      BY <2>1 DEF FillInv, L!NewLedger, NoQuote, MidOf
    <3>2. LedgerOk(led, 0)
      BY <3>1 DEF FillInv
    <3>3. led.position * 0 = 0 /\ led.position * mid = 0
      BY <1>1, <3>1
    <3> QED BY <2>1, <3>2, <3>3 DEF LedgerOk, MarkedAt
  <2>2. CASE touch # NoQuote
    <3> DEFINE c == L!Credit(led, MidOf(touch), at, ts)
    <3>1. LedgerOk(c, MidOf(touch)) /\ c.position = led.position /\ c.inventory = led.inventory
      BY <1>1, CreditKeeps DEF FillInv
    <3> HIDE DEF c
    <3> DEFINE from == MidOf(touch)
    <3>2. from \in Int /\ mid \in Int /\ LedgerOk(c, from)
      BY <1>1, <3>1
    <3> HIDE DEF from, mid
    <3>3. LedgerOk(L!Drift(c, ts, from, mid), mid) /\ L!Drift(c, ts, from, mid).position = c.position
      BY <3>2, DriftKeeps
    <3>4. L!Drift(c, ts, from, mid).inventory = c.inventory + c.position * (mid - from)
      BY <3>2, DriftKeeps
    <3> QED BY <2>2, <3>1, <3>3, <3>4 DEF c, from
  <2> QED BY <2>1, <2>2
<1>3. Shown = RefOrders(orders) /\ ShownFills = base /\ rp = led.position
  BY ShownIsTheReplay
<1>4. kept = RefOrders(po) /\ no = Rejected(orders, ts, q)
  BY <1>1, <1>3, TransitionsMatch
<1>5. po \in OrdersType
  <2>1. [orders |-> orders].orders = orders
    OBVIOUS
  <2> QED BY <1>1, <2>1, OrdersStayOrders
<1> HIDE DEF mid, l, po, mark, kept, no, rp, base
<1>6. Machine(x0) /\ x0.mid = mark /\ x0.orders = po /\ x0.led = l /\ x0.records = records
  BY <1>1, <1>2, <1>5 DEF Machine, LedgerOk, HoursKept
<1>7. Matches(x0, NothingYet(rp), base)
  <2>1. base \in Seq(BlotType) /\ base \o <<>> = base
    BY <1>1, BlotterType DEF base
  <2>2. rp \in Int /\ rp = l.position
    BY <1>2, <1>3 DEF LedgerOk, HoursKept, LedgerType
  <2>3. NothingYet(rp) \in AccType /\ NothingYet(rp).pos = rp /\ NothingYet(rp).rows = <<>>
    BY <2>2 DEF AccType, NothingYet
  <2> HIDE DEF x0
  <2> QED BY <1>6, <2>1, <2>2, <2>3 DEF Matches, base
<1> HIDE DEF x0
<1>8. /\ Matches(x1, f, base) /\ RefOrders(x1.orders) = left /\ x1.led.inventory = x0.led.inventory
      /\ Machine(x1)
  <2>1. kept = RefOrders(x0.orders)
    BY <1>4, <1>6
  <2>2. /\ Machine(x0) /\ ts \in Int /\ q.bid \in Int /\ q.ask \in Int /\ mark = x0.mid
        /\ Matches(x0, NothingYet(rp), base) /\ kept = RefOrders(x0.orders)
    BY <1>1, <1>6, <1>7, <2>1
  <2>3. Matches(x1, f, base)
    BY ONLY <2>2, UpdateFillsMatch
  <2>4. RefOrders(x1.orders) = left
    BY ONLY <2>2, UpdateFillsMatch
  <2>5. x1.led.inventory = x0.led.inventory
    BY ONLY <2>2, UpdateFillsMatch
  <2>6. Machine(x1)
    BY ONLY <2>2, UpdateFillsMatch
  <2> QED BY <2>3, <2>4, <2>5, <2>6
<1> HIDE DEF x1, f, left
<1>9. /\ x1.orders \in OrdersType /\ x1.led \in LedgerType /\ x1.led.position = f.pos
      /\ Blotted(x1.records) = base \o f.rows
  BY <1>8 DEF Machine, Matches
<1>10. aged = RefOrders(cs) /\ going = Cardinality(StaleSides(x1, ts, q))
  BY <1>8, <1>9, StaleMatch
<1>11. cs \in OrdersType
  BY <1>1, <1>9, OrdersStayOrders
<1> HIDE DEF cs, aged, going
<1>12. looked = RefOrders(os)
  BY <1>10, <1>11, RefreshMatch
<1>13. os \in OrdersType
  <2>1. [orders |-> cs].orders = cs
    OBVIOUS
  <2> QED BY <1>1, <1>11, <2>1, OrdersStayOrders
<1>14. skip = no
  BY <1>4 DEF Described
<1> HIDE DEF os, looked, skip
<1>15. put = RefOrders(placed)
  <2>1. x1.led \in LedgerType /\ f.pos = x1.led.position /\ looked = RefOrders(os)
    BY <1>9, <1>12
  <2> QED BY <1>1, <1>13, <1>14, <2>1, PlacedMatch
<1> HIDE DEF put, placed
<1>16. /\ touch' = q /\ led' = x1.led /\ records' = x1.records /\ orders' = placed
       /\ cancels' = cancels + Cardinality(StaleSides(x1, ts, q)) /\ q.bid > 0 /\ q.ask > q.bid
  <2>1. ~Generous
    BY DEF Described, Generous
  <2> QED BY <2>1 DEF OnBbo, placed, os, cs, x1, x0, po, l, mid, skip
<1>17. Described' /\ UNCHANGED (variant.queue = "own_level_cancels")
  BY DEF Described
<1>18. Shown' = put
  <2>1. ({RefOrder(s) : s \in {t \in Sides : Held(orders, t)}})' = RefOrders(orders')
    BY DEF RefOrder, RefOrders, RefOf, HeldSides, Held
  <2> QED BY <1>15, <1>16, <1>17, <2>1 DEF Shown
<1>19. ShownFills' = ShownFills \o f.rows
  <2>1. ShownFills' = Blotted(x1.records)
    BY <1>16, <1>17 DEF ShownFills, Blotted
  <2> QED BY <1>3, <1>9, <2>1
<1>20. rp' = f.pos /\ rc' = rc + going
  BY <1>9, <1>10, <1>16, <1>17 DEF rp
<1>21. ShownTouch' = [bid |-> q.bid, ask |-> q.ask]
  BY <1>16, <1>17 DEF ShownTouch
<1>22. /\ ShownTouch = Restated!NoTouch <=> touch = NoQuote
       /\ Restated!MidOf(ShownTouch) = MidOf(touch)
  BY ShownIsTheReplay DEF Restated!NoTouch, NoQuote, FillInv, SoundQuote, Restated!MidOf, MidOf
<1>23. ri' = IF ShownTouch = Restated!NoTouch THEN ri ELSE ri + rp * (mark - Restated!MidOf(ShownTouch))
  <2>1. ri = led.inventory /\ ri' = x1.led.inventory
    BY <1>16, <1>17
  <2> QED BY <1>1, <1>2, <1>3, <1>6, <1>8, <1>22, <2>1
<1>24. (IF Described THEN now ELSE 0)' = ts /\ Restated!Sound(q)
  BY <1>16, <1>17 DEF Restated!Sound
<1>25. Restated!Bbo(ts, q) =
         (/\ Restated!Sound(q) /\ Shown' = put /\ rc' = rc + going /\ ShownFills' = ShownFills \o f.rows
          /\ rp' = f.pos
          /\ ri' = IF ShownTouch = Restated!NoTouch THEN ri
                   ELSE ri + rp * (mark - Restated!MidOf(ShownTouch))
          /\ ShownTouch' = [bid |-> q.bid, ask |-> q.ask]
          /\ (IF Described THEN now ELSE 0)' = ts /\ UNCHANGED (variant.queue = "own_level_cancels"))
  BY DEF Restated!Bbo, Shown, ShownFills, ShownTouch, rp, put, looked, aged, going, f, left, kept,
         no, mark, Outdated, PolicyHits, InFull
<1> HIDE DEF ri, rc
<1> QED BY <1>17, <1>18, <1>19, <1>20, <1>21, <1>23, <1>24, <1>25
-----------------------------------------------------------------------------
(* Nothing and one order are filled as such.                               *)
LEMMA FillsOfOneOrNone ==
    ASSUME NEW want, NEW mark, NEW ts, NEW pos, NEW r, r.side \in Sides
    PROVE  /\ Restated!Fills({}, want, mark, ts, pos) = NothingYet(pos)
           /\ Restated!Fills({r}, want, mark, ts, pos)
                = Restated!BookFill(NothingYet(pos), r, want[r], mark, ts)
<1>1. \A acc : Restated!BookSide(acc, {}, want, mark, ts) = acc
  BY DEF Restated!BookSide
<1>2. \A acc : Restated!BookSide(acc, {r}, want, mark, ts) = Restated!BookFill(acc, r, want[r], mark, ts)
  <2>1. (CHOOSE o \in {r} : TRUE) = r /\ {r} # {}
    OBVIOUS
  <2> QED BY <2>1 DEF Restated!BookSide
<1> DEFINE B(H) == {o \in H : o.side = "bid"}
           A(H) == {o \in H : o.side = "ask"}
<1>3. \A H : Restated!Fills(H, want, mark, ts, pos) =
                Restated!BookSide(Restated!BookSide(NothingYet(pos), B(H), want, mark, ts), A(H), want, mark, ts)
  BY DEF Restated!Fills, NothingYet
<1>4. B({}) = {} /\ A({}) = {}
  OBVIOUS
<1>5. \/ B({r}) = {r} /\ A({r}) = {}
      \/ B({r}) = {} /\ A({r}) = {r}
  BY DEF Sides
<1> HIDE DEF A, B
<1> QED BY <1>1, <1>2, <1>3, <1>4, <1>5

(* One order goes, or changes, and the others stay.                        *)
LEMMA OneSide ==
    ASSUME NEW os \in OrdersType, NEW s \in Sides, Held(os, s), NEW o2 \in OrderType
    PROVE  /\ RefOrders([os EXCEPT ![s] = None]) = RefOrders(os) \ {RefOf(s, os[s])}
           /\ RefOrders([os EXCEPT ![s] = o2]) =
                 (RefOrders(os) \ {RefOf(s, os[s])}) \cup {RefOf(s, o2)}
<1> DEFINE gone2 == [os EXCEPT ![s] = None]
           new == [os EXCEPT ![s] = o2]
<1>1. \A t \in Sides : gone2[t] = (IF t = s THEN None ELSE os[t]) /\ new[t] = (IF t = s THEN o2 ELSE os[t])
  BY DEF OrdersType
<1>2. o2 # None
  BY DEF OrderType, None
<1> HIDE DEF gone2, new
<1>3. /\ HeldSides(gone2) = HeldSides(os) \ {s} /\ HeldSides(new) = HeldSides(os)
      /\ s \in HeldSides(os)
  BY <1>1, <1>2 DEF HeldSides, Held
<1>4. \A t \in HeldSides(os) \ {s} : gone2[t] = os[t] /\ new[t] = os[t]
  BY <1>1 DEF HeldSides
<1>5. \A t \in HeldSides(os) : RefOf(t, os[t]) = RefOf(s, os[s]) => t = s
  BY DEF RefOf
<1>6. RefOrders(gone2) = RefOrders(os) \ {RefOf(s, os[s])}
  <2>1. ASSUME NEW r \in RefOrders(gone2) PROVE r \in RefOrders(os) \ {RefOf(s, os[s])}
    <3>1. PICK t \in HeldSides(os) \ {s} : r = RefOf(t, os[t])
      BY <1>3, <1>4 DEF RefOrders
    <3> QED BY <1>5, <3>1 DEF RefOrders
  <2>2. ASSUME NEW r \in RefOrders(os) \ {RefOf(s, os[s])} PROVE r \in RefOrders(gone2)
    <3>1. PICK t \in HeldSides(os) : r = RefOf(t, os[t])
      BY DEF RefOrders
    <3>2. t \in HeldSides(os) \ {s}
      BY <3>1
    <3> QED BY <1>3, <1>4, <3>1, <3>2 DEF RefOrders
  <2> QED BY <2>1, <2>2
<1>7. new[s] = o2
  BY <1>1
<1>8. RefOrders(new) = RefOrders(gone2) \cup {RefOf(s, o2)}
  <2>1. ASSUME NEW r \in RefOrders(new) PROVE r \in RefOrders(gone2) \cup {RefOf(s, o2)}
    <3>1. PICK t \in HeldSides(os) : r = RefOf(t, new[t])
      BY <1>3 DEF RefOrders
    <3>2. CASE t = s
      BY <1>7, <3>1, <3>2
    <3>3. CASE t # s
      BY <1>3, <1>4, <3>1, <3>3 DEF RefOrders
    <3> QED BY <3>2, <3>3
  <2>2. ASSUME NEW r \in RefOrders(gone2) PROVE r \in RefOrders(new)
    BY <1>3, <1>4 DEF RefOrders
  <2>3. RefOf(s, o2) \in RefOrders(new)
    BY <1>3, <1>7 DEF RefOrders
  <2> QED BY <2>1, <2>2, <2>3
<1> QED BY <1>6, <1>8 DEF gone2, new

\* What the restated policy makes of a print.
Through(side, p, o) == IF side = "ask" THEN p.px > o.price + Tick \div 2 ELSE p.px < o.price - Tick \div 2
AtPrice(p, o) == p.px \in o.price - Tick \div 2..o.price + Tick \div 2
Beyond(p, o) == p.sz - Restated!Lesser(p.sz, o.queue)
MineOf(kept, side, ts) == {o \in kept : o.side = side /\ Restated!Live(o, ts)}
PrintHits(mine, side, p) == {o \in mine : Through(side, p, o) \/ (AtPrice(p, o) /\ Beyond(p, o) > 0)}
PrintWants(hit, side, p) ==
    [o \in hit |-> IF Through(side, p, o) THEN o.size ELSE Restated!Lesser(Beyond(p, o), o.size)]
Shrunk(os, p) == {[o EXCEPT !.queue = IF AtPrice(p, o) THEN @ - Restated!Lesser(p.sz, @) ELSE @] : o \in os}

\* An order's price is on the tape's grid: the price itself, or a tick away.
OnGrid(px, price2) == px = price2 \/ px >= price2 + Tick \/ price2 >= px + Tick

(* Within half a tick is at the price, beyond it is through.               *)
LEMMA HalfATick ==
    ASSUME NEW p \in TradeType, NEW o, o.price \in Int, OnGrid(p.px, o.price), NEW side
    PROVE  /\ AtPrice(p, o) <=> p.px = o.price
           /\ Through(side, p, o) <=> IF side = "ask" THEN p.px > o.price ELSE p.px < o.price
<1> DEFINE half == Tick \div 2
<1>1. half \in Int /\ 0 < half /\ half < Tick /\ p.px \in Int /\ Tick \in Int
  BY FillBounds DEF TradeType
<1> HIDE DEF half
<1>2. AtPrice(p, o) <=> p.px >= o.price - half /\ p.px <= o.price + half
  BY <1>1 DEF AtPrice, half
<1>3. Through(side, p, o) <=> IF side = "ask" THEN p.px > o.price + half ELSE p.px < o.price - half
  BY DEF Through, half
<1> QED BY <1>1, <1>2, <1>3 DEF OnGrid
(* What a print does to the order of its side, both do alike.              *)
LEMMA PrintMatches ==
    ASSUME Described, NEW x, Machine(x), NEW ts \in Int, NEW p \in TradeType, NEW s \in Sides,
           Held(x.orders, s) => OnGrid(p.px, x.orders[s].price),
           NEW base, NEW pos, NEW mark, mark = x.mid, Matches(x, NothingYet(pos), base),
           NEW kept, kept = RefOrders(x.orders)
    PROVE  LET mine == MineOf(kept, s, ts)
               hit == PrintHits(mine, s, p)
               y == TradeFill(x, ts, s, p)
           IN  /\ Matches(y, Restated!Fills(hit, PrintWants(hit, s, p), mark, ts, pos), base)
               /\ RefOrders(y.orders) = (kept \ mine) \cup Shrunk(mine \ hit, p)
               /\ y.led.inventory = x.led.inventory
<1> DEFINE os == x.orders
           o == os[s]
           r == RefOf(s, o)
           mine == MineOf(kept, s, ts)
           hit == PrintHits(mine, s, p)
           want == PrintWants(hit, s, p)
           y == TradeFill(x, ts, s, p)
           acc == NothingYet(pos)
           f == Restated!Fills(hit, want, mark, ts, pos)
           left == Shrunk(mine \ hit, p)
<1> SUFFICES /\ Matches(y, f, base) /\ RefOrders(y.orders) = (kept \ mine) \cup left
             /\ y.led.inventory = x.led.inventory
  OBVIOUS
<1>0. Matches(x, acc, base)
  OBVIOUS
<1>1. os \in OrdersType
  BY DEF Machine
<1>2. \A t \in HeldSides(os) : RefOf(t, os[t]).side = t /\ t \in Sides
  BY DEF RefOf, HeldSides
<1>3. r.side = s /\ r.price = o.price /\ r.queue = o.queue /\ r.active = o.active /\ r.size = o.size
  BY DEF RefOf
<1>4. mine = IF Held(os, s) /\ IsLive(o, ts) THEN {r} ELSE {}
  <2>1. ASSUME NEW a \in mine PROVE a = r /\ Held(os, s) /\ IsLive(o, ts)
    <3>1. PICK t \in HeldSides(os) : a = RefOf(t, os[t])
      BY DEF MineOf, RefOrders
    <3>2. t = s
      BY <1>2, <3>1 DEF MineOf
    <3> QED BY <1>3, <3>1, <3>2 DEF MineOf, HeldSides, Restated!Live, IsLive
  <2>2. ASSUME Held(os, s), IsLive(o, ts) PROVE r \in mine
    <3>1. r \in kept
      BY <2>2 DEF RefOrders, HeldSides
    <3> QED BY <1>3, <2>2, <3>1 DEF MineOf, Restated!Live, IsLive
  <2> HIDE DEF mine, r, o, os
  <2> QED BY <2>1, <2>2
<1> HIDE DEF mine
<1>5. hit \subseteq mine /\ \A w : Shrunk({}, w) = {}
  BY DEF PrintHits, Shrunk
<1>6. Restated!Fills({}, want, mark, ts, pos) = acc
      /\ Restated!Fills({r}, want, mark, ts, pos) = Restated!BookFill(acc, r, want[r], mark, ts)
  <2> HIDE DEF r, want
  <2> QED BY <1>3, FillsOfOneOrNone
<1>7. CASE ~(Held(os, s) /\ IsLive(o, ts))
  <2>1. y = x
    BY <1>7 DEF TradeFill
  <2>2. mine = {} /\ hit = {} /\ mine \ hit = {}
    BY <1>4, <1>5, <1>7
  <2> HIDE DEF hit, want, y, acc
  <2>3. f = acc /\ left = {}
    BY <1>5, <1>6, <2>2
  <2>4. RefOrders(x.orders) = kept
    OBVIOUS
  <2> HIDE DEF f, left
  <2> QED BY <1>0, <2>1, <2>2, <2>3, <2>4
<1>8. CASE Held(os, s) /\ IsLive(o, ts)
  <2>1. o \in OrderType /\ mine = {r} /\ p.px \in Int /\ p.sz \in Int /\ r \in kept
    BY <1>1, <1>4, <1>8, HeldIsOrder DEF TradeType, RefOrders, HeldSides
  <2>2. o.price \in Int /\ o.size \in Int /\ o.queue \in Int
    BY <2>1 DEF OrderType
  <2>3. /\ AtPrice(p, r) <=> p.px = o.price
        /\ Through(s, p, r) <=> IF s = "ask" THEN p.px > o.price ELSE p.px < o.price
    BY <1>3, <1>8, <2>2, HalfATick
  <2> DEFINE eaten == L!Least(p.sz, o.queue)
             z == [x EXCEPT !.orders[s].queue = @ - eaten]
             o2 == [o EXCEPT !.queue = @ - eaten]
  <2>4. eaten \in Int /\ eaten = Restated!Lesser(p.sz, o.queue) /\ Beyond(p, r) = p.sz - eaten
    BY <1>3, <2>1, <2>2 DEF L!Least, Restated!Lesser, Beyond
  <2>5. r \in hit <=> Through(s, p, r) \/ (AtPrice(p, r) /\ p.sz - eaten > 0)
    BY <2>1, <2>4 DEF PrintHits
  <2>6. r \in hit => want[r] = IF Through(s, p, r) THEN o.size ELSE Restated!Lesser(p.sz - eaten, o.size)
    <3>1. Restated!Lesser(Beyond(p, r), r.size) = Restated!Lesser(p.sz - eaten, o.size)
      BY <1>3, <2>4
    <3> HIDE DEF hit, r
    <3> QED BY <1>3, <3>1 DEF PrintWants
  <2>7. /\ r \in hit => hit = {r} /\ mine \ hit = {}
        /\ r \notin hit => hit = {} /\ mine \ hit = {r}
    BY <1>5, <2>1
  <2>8. RefOrders([os EXCEPT ![s] = None]) = kept \ {r}
        /\ \A o3 \in OrderType : RefOrders([os EXCEPT ![s] = o3]) = (kept \ {r}) \cup {RefOf(s, o3)}
    <3>1. RefOrders([os EXCEPT ![s] = None]) = kept \ {r}
      BY <1>1, <1>8, <2>1, OneSide
    <3>2. ASSUME NEW o3 \in OrderType PROVE RefOrders([os EXCEPT ![s] = o3]) = (kept \ {r}) \cup {RefOf(s, o3)}
      BY <1>1, <1>8, OneSide
    <3> QED BY <3>1, <3>2
  <2>9. Shrunk({r}, p) = {[r EXCEPT !.queue = IF AtPrice(p, r) THEN @ - Restated!Lesser(p.sz, @) ELSE @]}
    BY DEF Shrunk
  <2>10. z.orders = [os EXCEPT ![s] = o2] /\ z.led = x.led /\ z.records = x.records /\ z.mid = x.mid
         /\ o2 \in OrderType /\ Machine(z) /\ Held(z.orders, s) /\ z.orders[s] = o2
    <3>1. o2 \in OrderType /\ o2 # None
      <4> HIDE DEF o, eaten
      <4>1. o.queue - eaten \in Int
        BY <2>2, <2>4
      <4> QED BY <2>1, <4>1 DEF OrderType, None
    <3>2. z.orders = [os EXCEPT ![s] = o2] /\ z.led = x.led /\ z.records = x.records /\ z.mid = x.mid
          /\ z = [x EXCEPT !.orders = [os EXCEPT ![s] = o2]]
      BY DEF Machine
    <3> HIDE DEF z, o2
    <3>3. z.orders \in OrdersType /\ z.orders[s] = o2
      BY <1>1, <3>1, <3>2 DEF OrdersType
    <3>4. Machine(z)
      BY <3>2, <3>3 DEF Machine
    <3> QED BY <3>1, <3>2, <3>3, <3>4 DEF Held
  <2>11. CASE Through(s, p, r)
    <3>1. y = Fill(x, ts, s, o.size)
      BY <1>8, <2>1, <2>2, <2>3, <2>11 DEF TradeFill, Described
    <3>2. f = Restated!BookFill(acc, r, o.size, x.mid, ts) /\ left = {}
      <4> HIDE DEF hit, want, r
      <4> QED BY <1>5, <1>6, <2>5, <2>6, <2>7, <2>11
    <3>3. /\ Matches(Fill(x, ts, s, o.size), Restated!BookFill(acc, r, o.size, x.mid, ts), base)
          /\ Fill(x, ts, s, o.size).orders = [os EXCEPT ![s] = None]
          /\ Fill(x, ts, s, o.size).led.inventory = x.led.inventory
      <4> DEFINE size == o.size
      <4>1. size \in Int
        BY <2>2
      <4> HIDE DEF size, acc
      <4>2. Held(x.orders, s) /\ r = RefOf(s, x.orders[s])
        BY <1>8
      <4> HIDE DEF z, hit, want, y, f, left, eaten, o2, o, os, r
      <4>3. /\ Matches(Fill(x, ts, s, size), Restated!BookFill(acc, RefOf(s, x.orders[s]), size, x.mid, ts), base)
            /\ Fill(x, ts, s, size).orders = [x.orders EXCEPT ![s] = None]
            /\ Fill(x, ts, s, size).led.inventory = x.led.inventory
        BY <1>0, <4>1, <4>2, FillMatches
      <4> QED BY <4>2, <4>3 DEF size, os
    <3> HIDE DEF y, f, left
    <3>4. RefOrders(y.orders) = (kept \ mine) \cup left
      BY <2>1, <2>8, <3>1, <3>2, <3>3
    <3> QED BY <3>1, <3>2, <3>3, <3>4
  <2>12. CASE AtPrice(p, r) /\ p.sz - eaten > 0
    <3> DEFINE size == L!Least(p.sz - eaten, o.size)
    <3>1. ~Through(s, p, r) /\ size \in Int /\ size = Restated!Lesser(p.sz - eaten, o.size)
      BY <2>1, <2>2, <2>3, <2>4, <2>12 DEF L!Least, Restated!Lesser
    <3>2. p.sz > eaten /\ p.px = o.price
      <4> HIDE DEF eaten
      <4> QED BY <2>1, <2>3, <2>4, <2>12
    <3>3. y = Fill(z, ts, s, size)
      <4>1. y = Sweep(x, ts, s, p.sz)
        BY <1>8, <2>1, <2>2, <3>2 DEF TradeFill, Described
      <4> QED BY <3>2, <4>1 DEF Sweep, Described
    <3>4. f = Restated!BookFill(acc, r, size, x.mid, ts) /\ left = {}
      <4> HIDE DEF hit, want, r, size
      <4> QED BY <1>5, <1>6, <2>5, <2>6, <2>7, <2>12, <3>1
    <3>5. Restated!BookFill(acc, RefOf(s, z.orders[s]), size, x.mid, ts) = Restated!BookFill(acc, r, size, x.mid, ts)
      <4>1. RefOf(s, z.orders[s]).side = r.side /\ RefOf(s, z.orders[s]).price = r.price
        BY <2>2, <2>10, <2>1 DEF RefOf, OrderType
      <4> HIDE DEF z, r, size, acc
      <4> QED BY <4>1 DEF Restated!BookFill
    <3>6. Matches(z, acc, base)
      <4> HIDE DEF z, acc
      <4> QED BY <1>0, <2>10 DEF Matches
    <3>7. /\ Matches(Fill(z, ts, s, size), Restated!BookFill(acc, RefOf(s, z.orders[s]), size, z.mid, ts), base)
          /\ Fill(z, ts, s, size).orders = [z.orders EXCEPT ![s] = None]
          /\ Fill(z, ts, s, size).led.inventory = z.led.inventory
      <4> HIDE DEF z, size, acc
      <4>1. Matches(Fill(z, ts, s, size), Restated!BookFill(acc, RefOf(s, z.orders[s]), size, z.mid, ts), base)
        BY <2>10, <3>1, <3>6, FillMatches
      <4>2. /\ Fill(z, ts, s, size).orders = [z.orders EXCEPT ![s] = None]
            /\ Fill(z, ts, s, size).led.inventory = z.led.inventory
        BY <2>10, <3>1, <3>6, FillMatches
      <4> QED BY <4>1, <4>2
    <3>8. [z.orders EXCEPT ![s] = None] = [os EXCEPT ![s] = None]
      <4> HIDE DEF z, o2
      <4> QED BY <1>1, <2>10 DEF OrdersType
    <3> HIDE DEF y, f, left, z, size
    <3>9. RefOrders(y.orders) = (kept \ mine) \cup left
      BY <2>1, <2>8, <3>3, <3>4, <3>7, <3>8
    <3>10. Matches(y, f, base)
      BY <2>10, <3>3, <3>4, <3>5, <3>7
    <3> QED BY <2>10, <3>3, <3>7, <3>9, <3>10
  <2>13. CASE AtPrice(p, r) /\ ~(p.sz - eaten > 0)
    <3>1. ~Through(s, p, r) /\ p.px = o.price
      BY <2>1, <2>2, <2>3, <2>13
    <3>2. y = z
      <4>1. y = Sweep(x, ts, s, p.sz)
        BY <1>8, <2>1, <2>2, <3>1 DEF TradeFill, Described
      <4>2. ~(p.sz > eaten)
        <5> HIDE DEF eaten
        <5> QED BY <2>1, <2>4, <2>13
      <4> QED BY <4>1, <4>2 DEF Sweep, Described
    <3>3. hit = {} /\ mine \ hit = {r}
      <4> HIDE DEF hit, r, eaten
      <4> QED BY <2>5, <2>7, <2>13, <3>1
    <3>4. f = acc /\ left = {[r EXCEPT !.queue = @ - eaten]}
      <4> HIDE DEF hit, want, r, eaten
      <4> QED BY <1>3, <1>6, <2>4, <2>9, <2>13, <3>3
    <3>5. [r EXCEPT !.queue = @ - eaten] = RefOf(s, o2)
      <4> HIDE DEF eaten
      <4> QED BY <2>1 DEF RefOf, OrderType
    <3>6. Matches(z, acc, base)
      <4> HIDE DEF z, acc
      <4> QED BY <1>0, <2>10 DEF Matches
    <3> HIDE DEF y, f, left, z, r, o2, eaten
    <3>7. RefOrders(y.orders) = (kept \ mine) \cup left
      BY <2>1, <2>8, <2>10, <3>2, <3>4, <3>5
    <3> QED BY <2>10, <3>2, <3>4, <3>6, <3>7
  <2>14. CASE ~Through(s, p, r) /\ ~AtPrice(p, r)
    <3>1. y = x
      BY <1>8, <2>1, <2>2, <2>3, <2>14 DEF TradeFill
    <3>2. hit = {} /\ mine \ hit = {r}
      <4> HIDE DEF hit, r, eaten
      <4> QED BY <2>5, <2>7, <2>14
    <3>3. f = acc /\ left = {r}
      <4>1. [r EXCEPT !.queue = @] = r
        BY DEF RefOf
      <4> HIDE DEF hit, want, r, eaten
      <4> QED BY <1>6, <2>9, <2>14, <3>2, <4>1
    <3> HIDE DEF y, f, left, r
    <3>4. RefOrders(y.orders) = (kept \ mine) \cup left
      BY <2>1, <3>1, <3>3
    <3> QED BY <1>0, <3>1, <3>3, <3>4
  <2> QED BY <2>11, <2>12, <2>13, <2>14
<1> QED BY <1>7, <1>8
(* A print of the replay is one of the restated policy.                    *)
LEMMA TradeIsThePolicys ==
    ASSUME FillInv, Described, NEW ts \in Int, NEW p \in Prints, OnTrade(ts, p), now' = ts,
           UNCHANGED variant,
           \A s \in HeldSides(orders) : OnGrid(p.px, orders[s].price)
    PROVE  Restated!Trade(ts, p)
<1> DEFINE rp == IF Described THEN led.position ELSE 0
           ri == IF Described THEN led.inventory ELSE 0
           rc == IF Described THEN cancels ELSE 0
           side == IF p.sign > 0 THEN "ask" ELSE "bid"
           mark == Restated!MidOf(ShownTouch)
           kept == Restated!Transitions(Shown, ts, ShownTouch)
           mine == MineOf(kept, side, ts)
           hit == PrintHits(mine, side, p)
           f == Restated!Fills(hit, PrintWants(hit, side, p), mark, ts, rp)
           put == (kept \ mine) \cup Shrunk(mine \ hit, p)
           mid == MidOf(touch)
           l == L!Credit(led, mid, at, ts)
           po == ProcessTransitions(orders, ts, touch)
           x0 == [orders |-> po, led |-> l, records |-> records, mid |-> mid]
           x == TradeFill(x0, ts, side, p)
           base == Blotted(records)
<1>1. /\ touch # NoQuote /\ SoundQuote(touch) /\ touch \in QuoteType /\ mid \in Int
      /\ orders \in OrdersType /\ records \in Seq(FillType) /\ p \in TradeType /\ side \in Sides
  BY FillBounds, MidIsWhole DEF OnTrade, SoundQuote, FillInv, TradeType, Sides
<1>2. /\ LedgerOk(l, mid) /\ l.position = led.position /\ l.inventory = led.inventory
  BY <1>1, CreditKeeps DEF FillInv
<1>3. Shown = RefOrders(orders) /\ ShownFills = base /\ rp = led.position
      /\ ShownTouch = [bid |-> touch.bid, ask |-> touch.ask] /\ mark = mid
  BY ShownIsTheReplay DEF Restated!MidOf, MidOf
<1>4. kept = RefOrders(po)
  <2> DEFINE q == [bid |-> touch.bid, ask |-> touch.ask]
  <2>1. q.bid \in Int /\ q.ask \in Int /\ ShownTouch = q
    BY <1>1, <1>3 DEF QuoteType
  <2>2. ProcessTransitions(orders, ts, q) = po
    BY DEF ProcessTransitions, Rejected, Crosses
  <2> HIDE DEF q, po
  <2> QED BY <1>1, <1>3, <2>1, <2>2, TransitionsMatch
<1>5. po \in OrdersType
  <2>1. [orders |-> orders].orders = orders
    OBVIOUS
  <2> QED BY <1>1, <2>1, OrdersStayOrders
<1>6. Held(po, side) => OnGrid(p.px, po[side].price)
  <2>1. \A s \in Sides : Held(po, s) => Held(orders, s) /\ po[s].price = orders[s].price
    <3>1. \A s \in Sides : Held(orders, s) =>
            [orders[s] EXCEPT !.checked = @ \/ IsLive(orders[s], ts)].price = orders[s].price
      BY <1>1, HeldIsOrder DEF OrderType
    <3> QED BY <3>1 DEF ProcessTransitions, Held
  <2> HIDE DEF po, side
  <2> QED BY <1>1, <2>1 DEF HeldSides
<1> HIDE DEF mid, l, po, mark, kept, rp, base, side
<1>7. Machine(x0) /\ x0.mid = mark /\ x0.orders = po /\ x0.led = l /\ x0.records = records
  BY <1>1, <1>2, <1>3, <1>5 DEF Machine, LedgerOk, HoursKept
<1>8. Matches(x0, NothingYet(rp), base)
  <2>1. base \in Seq(BlotType) /\ base \o <<>> = base
    BY <1>1, BlotterType DEF base
  <2>2. rp \in Int /\ rp = l.position
    BY <1>2, <1>3 DEF LedgerOk, HoursKept, LedgerType
  <2>3. NothingYet(rp) \in AccType /\ NothingYet(rp).pos = rp /\ NothingYet(rp).rows = <<>>
    BY <2>2 DEF AccType, NothingYet
  <2> HIDE DEF x0
  <2> QED BY <1>7, <2>1, <2>2, <2>3 DEF Matches, base
<1> HIDE DEF x0
<1>9. /\ Matches(x, f, base) /\ RefOrders(x.orders) = put /\ x.led.inventory = x0.led.inventory
  <2>1. /\ Machine(x0) /\ mark = x0.mid /\ Matches(x0, NothingYet(rp), base) /\ kept = RefOrders(x0.orders)
        /\ Held(x0.orders, side) => OnGrid(p.px, x0.orders[side].price)
        /\ Described /\ ts \in Int /\ p \in TradeType /\ side \in Sides
    BY <1>1, <1>4, <1>6, <1>7, <1>8
  <2>2. Matches(x, f, base)
    BY ONLY <2>1, PrintMatches
  <2>3. Matches(x, f, base) /\ RefOrders(x.orders) = put
    BY ONLY <2>1, PrintMatches
  <2>4. x.led.inventory = x0.led.inventory
    BY ONLY <2>1, PrintMatches
  <2> QED BY <2>2, <2>3, <2>4
<1> HIDE DEF x, f, put
<1>10. /\ led' = x.led /\ records' = x.records /\ orders' = x.orders /\ UNCHANGED <<touch, cancels>>
  <2>1. ~Generous
    BY DEF Described, Generous
  <2> QED BY <2>1 DEF OnTrade, x, x0, l, po, mid, side
<1>11. Described' /\ UNCHANGED (variant.queue = "own_level_cancels")
  BY DEF Described
<1>12. Shown' = put
  <2>1. ({RefOrder(s) : s \in {t \in Sides : Held(orders, t)}})' = RefOrders(orders')
    BY DEF RefOrder, RefOrders, RefOf, HeldSides, Held
  <2> QED BY <1>9, <1>10, <1>11, <2>1 DEF Shown
<1>13. ShownFills' = ShownFills \o f.rows
  <2>1. ShownFills' = Blotted(x.records)
    BY <1>10, <1>11 DEF ShownFills, Blotted
  <2> QED BY <1>3, <1>9, <2>1 DEF Matches
<1>14. rp' = f.pos
  <2>1. rp' = x.led.position
    BY <1>10, <1>11 DEF rp
  <2> QED BY <1>9, <2>1 DEF Matches
<1>15. UNCHANGED <<ShownTouch, rc>>
  BY <1>10, <1>11 DEF ShownTouch
<1>16. UNCHANGED ri
  BY <1>2, <1>7, <1>9, <1>10, <1>11
<1>17. ShownTouch # Restated!NoTouch
  BY <1>1, <1>3 DEF Restated!NoTouch, SoundQuote
<1>18. (IF Described THEN now ELSE 0)' = ts
  BY <1>11
<1>19. Restated!Trade(ts, p) =
         (/\ ShownTouch # Restated!NoTouch /\ Shown' = put /\ ShownFills' = ShownFills \o f.rows
          /\ rp' = f.pos /\ (IF Described THEN now ELSE 0)' = ts
          /\ UNCHANGED <<ShownTouch, ri, rc, variant.queue = "own_level_cancels">>)
  BY DEF Restated!Trade, Shown, ShownFills, ShownTouch, rp, put, f, kept, mark, side,
         MineOf, PrintHits, PrintWants, Shrunk, Through, AtPrice, Beyond
<1> HIDE DEF ri, rc
<1> QED BY <1>11, <1>12, <1>13, <1>14, <1>15, <1>16, <1>17, <1>18, <1>19
(* Arriving, ageing and refreshing leave the price of an order alone.      *)
LEMMA PricesStay ==
    ASSUME NEW os \in OrdersType, NEW ts \in Int, NEW q, NEW x, x.orders = os
    PROVE  /\ PricesKept(ProcessTransitions(os, ts, q), os)
           /\ PricesKept(CancelStale(x, ts, q), os)
           /\ PricesKept(RefreshQueue(os, ts, q), os)
<1>1. \A s \in Sides : Held(os, s) => os[s] \in OrderType
  BY HeldIsOrder
<1>2. PricesKept(ProcessTransitions(os, ts, q), os)
  <2>1. \A s \in Sides : Held(os, s) =>
          [os[s] EXCEPT !.checked = @ \/ IsLive(os[s], ts)].price = os[s].price
    BY <1>1 DEF OrderType
  <2> QED BY <2>1 DEF PricesKept, ProcessTransitions, Held
<1>3. PricesKept(CancelStale(x, ts, q), os)
  <2>1. \A s \in Sides : Held(os, s) => [os[s] EXCEPT !.dead = ts + Latency].price = os[s].price
    BY <1>1 DEF OrderType
  <2>2. \A s \in StaleSides(x, ts, q) : Held(os, s)
    BY DEF StaleSides
  <2> QED BY <2>1, <2>2 DEF PricesKept, CancelStale, Held
<1>4. PricesKept(RefreshQueue(os, ts, q), os)
  <2>1. \A s \in Sides : Held(os, s) =>
          [os[s] EXCEPT !.queue = L!Least(@, Size(s, q))].price = os[s].price
    BY <1>1 DEF OrderType
  <2> QED BY <2>1 DEF PricesKept, RefreshQueue, Held
<1> QED BY <1>2, <1>3, <1>4

\* Where the policy is described, an order rests at the touch of some quote.
PricedAtTheTouch ==
    Described => \A s \in HeldSides(orders) : \E q \in Quotes : orders[s].price \in {q.bid, q.ask}

(* A new quote leaves orders at their price or places them at its touch.   *)
LEMMA BboPrices ==
    ASSUME FillInv, Described, PricedAtTheTouch, NEW ts \in Int, NEW q \in Quotes, OnBbo(ts, q),
           UNCHANGED variant
    PROVE  PricedAtTheTouch'
<1> DEFINE mid == MidOf(q)
           l == IF touch = NoQuote THEN led
                ELSE L!Drift(L!Credit(led, MidOf(touch), at, ts), ts, MidOf(touch), mid)
           po == ProcessTransitions(orders, ts, q)
           x0 == [orders |-> po, led |-> l, records |-> records, mid |-> mid]
           xb == CrossingFill(x0, ts, "bid", q)
           x1 == CrossingFill(xb, ts, "ask", q)
           cs == CancelStale(x1, ts, q)
           os == RefreshQueue(cs, ts, q)
           skip == Rejected(orders, ts, q) \cup (IF variant.alo = "legacy_leak" THEN leaked ELSE {})
           placed == PlaceWanted(os, x1.led, ts, q, skip)
<1>1. /\ SoundQuote(q) /\ q \in QuoteType /\ mid \in Int /\ MidOf(touch) \in Int
      /\ orders \in OrdersType /\ records \in Seq(FillType)
  BY FillBounds, MidIsWhole DEF OnBbo, SoundQuote, QuoteType, FillInv
<1>2. LedgerOk(l, mid)
  <2>1. CASE touch = NoQuote
    <3>1. led = L!NewLedger /\ led.position = 0 /\ MidOf(touch) = 0
      BY <2>1 DEF FillInv, L!NewLedger, NoQuote, MidOf
    <3>2. LedgerOk(led, 0)
      BY <3>1 DEF FillInv
    <3>3. led.position * 0 = 0 /\ led.position * mid = 0
      BY <1>1, <3>1
    <3> QED BY <2>1, <3>2, <3>3 DEF LedgerOk, MarkedAt
  <2>2. CASE touch # NoQuote
    <3> DEFINE c == L!Credit(led, MidOf(touch), at, ts)
    <3>1. LedgerOk(c, MidOf(touch))
      BY <1>1, CreditKeeps DEF FillInv
    <3> HIDE DEF c
    <3>2. LedgerOk(L!Drift(c, ts, MidOf(touch), mid), mid)
      BY <1>1, <3>1, DriftKeeps
    <3> QED BY <2>2, <3>2 DEF c
  <2> QED BY <2>1, <2>2
<1>3. po \in OrdersType /\ PricesKept(po, orders)
  <2>1. [orders |-> orders].orders = orders /\ orders \in OrdersType
    BY DEF FillInv
  <2> QED BY <1>1, <2>1, OrdersStayOrders, PricesStay
<1> HIDE DEF mid, l, po
<1>4. Machine(x0) /\ x0.orders = po
  BY <1>1, <1>2, <1>3 DEF Machine, FillInv, LedgerOk, HoursKept
<1> HIDE DEF x0
<1>5. Machine(xb) /\ PricesKept(xb.orders, po)
  BY <1>4, CrossingFillKeeps DEF Sides
<1> HIDE DEF xb
<1>6. Machine(x1) /\ PricesKept(x1.orders, xb.orders)
  BY <1>5, CrossingFillKeeps DEF Sides
<1> HIDE DEF x1
<1>7. x1.orders \in OrdersType
  BY <1>6 DEF Machine
<1>8. cs \in OrdersType /\ PricesKept(cs, x1.orders)
  BY <1>1, <1>7, OrdersStayOrders, PricesStay
<1> HIDE DEF cs
<1>9. PricesKept(os, cs)
  <2>1. [orders |-> cs].orders = cs
    OBVIOUS
  <2> QED BY <1>1, <1>8, <2>1, PricesStay
<1>10. PricesKept(os, orders)
  BY <1>3, <1>5, <1>6, <1>8, <1>9 DEF PricesKept
<1> HIDE DEF os, skip
<1>11. \A s \in Sides : placed[s] = os[s] \/ placed[s].price = Face(s, q)
  BY DEF PlaceWanted, Target, Described
<1> HIDE DEF placed
<1>12. orders' = placed /\ Described'
  <2>1. ~Generous
    BY DEF Described, Generous
  <2> QED BY <2>1 DEF OnBbo, Described, placed, os, cs, x1, xb, x0, po, l, mid, skip
<1>13. ASSUME NEW s \in Sides, Held(placed, s) PROVE \E r \in Quotes : placed[s].price \in {r.bid, r.ask}
  <2>1. CASE placed[s] = os[s]
    <3>1. Held(orders, s) /\ placed[s].price = orders[s].price
      BY <1>10, <1>13, <2>1 DEF PricesKept, Held
    <3> QED BY <3>1 DEF PricedAtTheTouch, HeldSides
  <2>2. CASE placed[s].price = Face(s, q)
    BY <2>2 DEF Face
  <2> QED BY <1>11, <2>1, <2>2
<1> QED BY <1>12, <1>13 DEF PricedAtTheTouch, HeldSides, Held

(* A print leaves the orders it does not take at their price.              *)
LEMMA TradePrices ==
    ASSUME FillInv, Described, PricedAtTheTouch, NEW ts \in Int, NEW p \in Prints, OnTrade(ts, p),
           UNCHANGED variant
    PROVE  PricedAtTheTouch'
<1> DEFINE mid == MidOf(touch)
           l == L!Credit(led, mid, at, ts)
           po == ProcessTransitions(orders, ts, touch)
           x0 == [orders |-> po, led |-> l, records |-> records, mid |-> mid]
           side == IF p.sign > 0 THEN "ask" ELSE "bid"
           x == TradeFill(x0, ts, side, p)
<1>1. /\ SoundQuote(touch) /\ touch \in QuoteType /\ mid \in Int /\ p \in TradeType /\ side \in Sides
      /\ orders \in OrdersType
  BY FillBounds, MidIsWhole DEF OnTrade, FillInv, SoundQuote, TradeType, Sides
<1>2. LedgerOk(l, mid)
  BY <1>1, CreditKeeps DEF FillInv
<1>3. po \in OrdersType /\ PricesKept(po, orders)
  <2>1. [orders |-> orders].orders = orders /\ orders \in OrdersType
    BY DEF FillInv
  <2> QED BY <1>1, <2>1, OrdersStayOrders, PricesStay
<1> HIDE DEF mid, po, side, l
<1>4. Machine(x0) /\ x0.orders = po
  BY <1>1, <1>2, <1>3 DEF Machine, FillInv, LedgerOk, HoursKept
<1> HIDE DEF x0
<1>5. PricesKept(x.orders, po)
  BY <1>1, <1>4, TradeFillKeeps
<1> HIDE DEF x
<1>6. PricesKept(x.orders, orders)
  BY <1>3, <1>5 DEF PricesKept
<1>7. orders' = x.orders /\ Described'
  <2>1. ~Generous
    BY DEF Described, Generous
  <2> QED BY <2>1 DEF OnTrade, Described, x, x0, l, po, mid, side
<1> QED BY <1>6, <1>7 DEF PricedAtTheTouch, PricesKept, HeldSides, Held

(* Every order of the described policy rests at the touch of a quote.      *)
LEMMA PricesStep == FillInv /\ PricedAtTheTouch /\ [Next]_vars => PricedAtTheTouch'
<1> SUFFICES ASSUME FillInv, PricedAtTheTouch, [Next]_vars, Described' PROVE PricedAtTheTouch'
  BY DEF PricedAtTheTouch
<1>0. UNCHANGED variant /\ Described
  <2>1. UNCHANGED variant
    BY DEF Next, vars
  <2> QED BY <2>1 DEF Described
<1>1. CASE Next
  <2>1. PICK d \in Steps : /\ now' = now + d
                            /\ \/ \E q \in Quotes : OnBbo(now + d, q)
                               \/ \E p \in Prints : OnTrade(now + d, p)
                               \/ \E r \in Rates : OnFunding(now + d, r)
    BY <1>1 DEF Next
  <2>2. now + d \in Int
    BY FillBounds DEF FillInv
  <2>3. CASE \E q \in Quotes : OnBbo(now + d, q)
    BY <1>0, <2>2, <2>3, BboPrices
  <2>4. CASE \E p \in Prints : OnTrade(now + d, p)
    BY <1>0, <2>2, <2>4, TradePrices
  <2>5. CASE \E r \in Rates : OnFunding(now + d, r)
    <3>1. UNCHANGED orders
      BY <2>5 DEF OnFunding
    <3> QED BY <1>0, <3>1 DEF PricedAtTheTouch, HeldSides, Held
  <2> QED BY <2>1, <2>3, <2>4, <2>5
<1>2. CASE UNCHANGED vars
  BY <1>0, <1>2 DEF vars, PricedAtTheTouch, HeldSides, Held
<1> QED BY <1>1, <1>2

(* Where the policy is described, a step of the replay is one of its.      *)
LEMMA DescribedIsPolicy ==
    ASSUME FillInv, PricedAtTheTouch, Described, Next PROVE Restated!Next
<1>1. PICK d \in Steps : /\ now' = now + d
                          /\ \/ \E q \in Quotes : OnBbo(now + d, q)
                             \/ \E p \in Prints : OnTrade(now + d, p)
                             \/ \E r \in Rates : OnFunding(now + d, r)
  BY DEF Next
<1> DEFINE ts == now + d
<1>2. ts \in Int /\ UNCHANGED variant /\ Described' /\ now' = ts /\ ts = (IF Described THEN now ELSE 0) + d
  BY <1>1, FillBounds DEF FillInv, Next, Described
<1> HIDE DEF ts
<1>3. ASSUME NEW q \in Quotes, OnBbo(ts, q) PROVE Restated!Bbo(ts, q)
  BY <1>2, <1>3, BboIsThePolicys
<1>4. ASSUME NEW p \in Prints, OnTrade(ts, p) PROVE Restated!Trade(ts, p)
  <2>1. ASSUME NEW s \in HeldSides(orders) PROVE OnGrid(p.px, orders[s].price)
    <3>1. PICK q \in Quotes : orders[s].price \in {q.bid, q.ask}
      BY DEF PricedAtTheTouch
    <3>2. \A face \in {q.bid, q.ask} : OnGrid(p.px, face)
      BY FillBounds DEF OnGrid
    <3> QED BY <3>1, <3>2
  <2> QED BY <1>2, <1>4, <2>1, TradeIsThePolicys
<1>5. ASSUME NEW r \in Rates, OnFunding(ts, r) PROVE Restated!Ignore(ts)
  <2>1. led' = L!Charge(led, ts, r, MidOf(touch)) /\ UNCHANGED <<touch, at, orders, leaked, records, cancels>>
    BY <1>5 DEF OnFunding
  <2>2. r \in Int /\ MidOf(touch) \in Int /\ LedgerOk(led, MidOf(touch))
    BY FillBounds, MidIsWhole DEF FillInv
  <2>3. led'.position = led.position /\ led'.inventory = led.inventory
    BY <1>2, <2>1, <2>2, ChargeKeeps
  <2>4. ({RefOrder(s) : s \in {t \in Sides : Held(orders, t)}})'
           = {RefOrder(s) : s \in {t \in Sides : Held(orders, t)}}
    BY <2>1 DEF RefOrder, Held
  <2>5. ([i \in 1..Len(records) |-> Blot(records[i])])' = [i \in 1..Len(records) |-> Blot(records[i])]
    BY <2>1
  <2>6. (IF Described THEN now ELSE 0)' = ts
    BY <1>2
  <2>7. UNCHANGED (variant.queue = "own_level_cancels")
    BY <1>2
  <2> QED BY <1>2, <2>1, <2>3, <2>4, <2>5, <2>6, <2>7 DEF Restated!Ignore
<1> QED BY <1>1, <1>2, <1>3, <1>4, <1>5 DEF Restated!Next, ts

(* Elsewhere the restated policy is shown a standstill.                    *)
LEMMA UndescribedStandsStill ==
    ASSUME ~Described, UNCHANGED variant PROVE UNCHANGED Restated!vars
<1>1. ~(Described')
  BY DEF Described
<1>2. UNCHANGED (variant.queue = "own_level_cancels")
  OBVIOUS
<1> QED BY <1>1, <1>2 DEF Restated!vars
-----------------------------------------------------------------------------
\* What the simulated trading keeps.
TradingInv == FillInv /\ PricedAtTheTouch

(* A step of the trading is one of its parts, or leaves them alone.        *)
LEMMA TradingParts ==
    ASSUME [TradingNext]_tradingVars
    PROVE  /\ [Next]_vars /\ [Desks!Next]_deskVars /\ [Desks!SweepNext]_riskVars /\ UNCHANGED part
BY DEF TradingNext, tradingVars

(* The invariants of the fill replay hold throughout.                      *)
THEOREM TradingKeepsInvariants == TradingSpec => []TradingInv
<1>1. TradingInit => TradingInv
  <2>1. Init => PricedAtTheTouch
    BY DEF Init, PricedAtTheTouch, HeldSides, Held
  <2> QED BY <2>1, FillInvBegins DEF TradingInit, TradingInv
<1>2. TradingInv /\ [TradingNext]_tradingVars => TradingInv'
  BY TradingParts, FillInvStep, PricesStep DEF TradingInv
<1> QED BY <1>1, <1>2, PTL DEF TradingSpec

(* What was paid and is held at the mark is edge plus drift, every change  *)
(* of the net is in one hour, and no order of stale fills leaves the cap,  *)
(* for every feed, latency and cap (fill_replay.py, inventory.py).         *)
THEOREM InventoryIsAccounted == TradingSpec => []InventoryAddsUp
<1>1. TradingInv => InventoryAddsUp
  <2> SUFFICES ASSUME TradingInv PROVE MarkToMarket /\ HoursAddUp /\ PositionWithinCap
    BY DEF InventoryAddsUp
  <2>1. HoursKept(led) /\ MarkedAt(led, MidOf(touch)) /\ WithinCap(led)
    BY DEF TradingInv, FillInv, LedgerOk
  <2>2. MapThenSumSet(LAMBDA h : led.hours[h], DOMAIN led.hours) = HourTotal(led)
    BY DEF HourTotal, MapThenSumSet, MapThenFoldSet, Pick, SumTable, SumOver
  <2>3. HoursAddUp
    <3>1. HourTotal(led) = L!NetOf(led) /\ L!NetOf(led) <= led.peak
          /\ led.peak - L!NetOf(led) <= led.drawdown
      BY <2>1 DEF HoursKept
    <3> QED BY <2>2, <3>1 DEF HoursAddUp
  <2> QED BY <2>1, <2>3 DEF MarkToMarket, MarkedAt, PositionWithinCap, WithinCap
<1> QED BY <1>1, TradingKeepsInvariants, PTL

(* The streaming replay implements the restated policy, order for order    *)
(* and fill for fill, and in generous mode it is the inventory simulator,  *)
(* for every tape on the grid (fill_replay.py, reference_replay.py).       *)
THEOREM RestatementsAreMet == TradingSpec => RestatementsHold
<1>1. TradingInit => Restated!Init /\ L!Init
  <2> SUFFICES ASSUME Init PROVE Restated!Init /\ L!Init
    BY DEF TradingInit
  <2>1. HeldSides(orders) = {} /\ records = <<>> /\ touch = NoQuote /\ led = L!NewLedger /\ now = 0
        /\ cancels = 0
    BY DEF Init, HeldSides, Held
  <2>2. led.position = 0 /\ led.inventory = 0
    BY <2>1 DEF L!NewLedger
  <2>3. {RefOrder(s) : s \in {t \in Sides : Held(orders, t)}} = {}
    BY <2>1 DEF HeldSides
  <2>4. [i \in 1..Len(records) |-> Blot(records[i])] = <<>>
    BY <2>1
  <2>5. [bid |-> touch.bid, ask |-> touch.ask] = Restated!NoTouch
    BY <2>1 DEF NoQuote, Restated!NoTouch
  <2>6. Restated!Init
    BY <2>1, <2>2, <2>3, <2>4, <2>5 DEF Restated!Init, Restated!NoTouch
  <2>7. L!Init
    BY <2>1 DEF L!Init, L!NoMark, L!NewLedger
  <2> QED BY <2>6, <2>7
<1>2. TradingInv /\ [TradingNext]_tradingVars => [Restated!Next]_(Restated!vars) /\ [L!Next]_(L!vars)
  <2> SUFFICES ASSUME TradingInv, [Next]_vars
               PROVE  [Restated!Next]_(Restated!vars) /\ [L!Next]_(L!vars)
    BY TradingParts
  <2>1. CASE Next
    <3>1. UNCHANGED variant
      BY <2>1 DEF Next
    <3>2. [Restated!Next]_(Restated!vars)
      <4>1. CASE Described
        BY <2>1, <4>1, DescribedIsPolicy DEF TradingInv
      <4>2. CASE ~Described
        BY <3>1, <4>2, UndescribedStandsStill
      <4> QED BY <4>1, <4>2
    <3>3. [L!Next]_(L!vars)
      <4>1. CASE Generous
        BY <2>1, <4>1, GenerousIsInventory DEF TradingInv
      <4>2. CASE ~Generous
        BY <3>1, <4>2, OthersStandStill
      <4> QED BY <4>1, <4>2
    <3> QED BY <3>2, <3>3
  <2>2. CASE UNCHANGED vars
    <3>1. UNCHANGED <<variant, now, touch, at, orders, led, records, cancels>>
      BY <2>2 DEF vars
    <3>2. UNCHANGED L!vars
      BY <3>1 DEF L!vars, Generous
    <3>3. ({RefOrder(s) : s \in {t \in Sides : Held(orders, t)}})'
             = {RefOrder(s) : s \in {t \in Sides : Held(orders, t)}}
      BY <3>1 DEF RefOrder, Held
    <3>4. UNCHANGED Restated!vars
      BY <3>1, <3>3 DEF Restated!vars, Described
    <3> QED BY <3>2, <3>4
  <2> QED BY <2>1, <2>2
<1>3. TradingSpec => Restated!Spec
  BY <1>1, <1>2, TradingKeepsInvariants, PTL DEF TradingSpec, Restated!Spec
<1>4. TradingSpec => L!Spec
  BY <1>1, <1>2, TradingKeepsInvariants, PTL DEF TradingSpec, L!Spec
<1> QED BY <1>3, <1>4 DEF RestatementsHold, ImplementsPolicy, ImplementsInventory
=============================================================================
