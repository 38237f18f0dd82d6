----------------------------- MODULE MCTrading -----------------------------
(***************************************************************************)
(* The simulated trading, one part per behaviour: the fill replay and its  *)
(* two restatements, the daily portfolios, and the liquidation scans.      *)
(***************************************************************************)
EXTENDS FillReplay

Touch(b, bs, a, as) == [bid |-> b, bidSz |-> bs, ask |-> a, askSz |-> as]
Trade(s, px, sz) == [sign |-> s, px |-> px, sz |-> sz]
Policy(f, q, a) == [fill |-> f, queue |-> q, alo |-> a]
MCQuotes == {Touch(10, 1, 12, 2), Touch(10, 2, 14, 1), Touch(12, 1, 14, 1), Touch(8, 1, 10, 2)}
MCPrints == {Trade(1, 12, 1), Trade(1, 14, 3), Trade(-1, 10, 2), Trade(-1, 8, 1)}
MCVariants == {Policy("always_last", "own_level", "update_scoped"),
               Policy("always_last", "own_level_cancels", "update_scoped"),
               Policy("always_last", "touch", "legacy_leak"),
               Policy("improved", "own_level", "update_scoped"),
               Policy("generous", "own_level", "update_scoped")}

P(px, rate) == [px |-> px, rate |-> rate]
MCMenu == << {P(0, 0), P(1, -1), P(2, 1)}, {P(0, 0), P(1, 1), P(2, 0)}, {P(1, 0)} >>
MCDesks == {[desk |-> "cross", lookback |-> 1, every |-> 2],
            [desk |-> "cross", lookback |-> 2, every |-> 1],
            [desk |-> "momentum", lookback |-> 1, every |-> 2],
            [desk |-> "carry", lookback |-> 0, every |-> 1]}

CONSTANTS Schedules, Coins, Menu, Fee, LastDay, NamesPerSide, MinCrossSection, HalfGross, MinNames,
          Gross, Spot, Perp, EntryNotional, Band, Prices, Margins, MaxDrift, MaxSteps

VARIABLES
    part,
    plan, tape, gone, book, path,
    steps, price, rising, entry, breaches, excursion

Desks == INSTANCE Portfolios WITH Desks <- Schedules, Drift <- MaxDrift

ASSUME PartsAssumption == Restated!ReplayBounds /\ Desks!ScheduleAssumption

deskVars == <<plan, tape, gone, book, path>>
riskVars == <<steps, price, rising, entry, breaches, excursion>>
tradingVars == <<part, vars, deskVars, riskVars>>

TradingInit ==
    /\ part \in {"fills", "desks", "risk"}
    /\ Init /\ Desks!Init /\ Desks!SweepInit
    /\ part # "fills" => variant = Policy("generous", "own_level", "update_scoped")
    /\ part # "desks" => plan.desk = "carry"
    /\ part # "risk" => price = 4
TradingNext ==
    /\ UNCHANGED part
    /\ \/ part = "fills" /\ Next /\ UNCHANGED <<deskVars, riskVars>>
       \/ part = "desks" /\ Desks!Next /\ UNCHANGED <<vars, riskVars>>
       \/ part = "risk" /\ Desks!SweepNext /\ UNCHANGED <<vars, deskVars>>
TradingSpec == TradingInit /\ [][TradingNext]_tradingVars

(* What was paid and is held at the mark is edge plus drift, every change  *)
(* of the net is in one hour, and no order of stale fills leaves the cap.  *)
InventoryAddsUp ==
    part = "fills" => MarkToMarket /\ HoursAddUp /\ PositionWithinCap

(* The streaming replay implements the restated policy, and in generous    *)
(* mode it is the inventory simulator (FillReplay).                        *)
RestatementsHold == ImplementsPolicy /\ ImplementsInventory

(* Every desk's P&L is its holdings times the moves of the last prints,    *)
(* and every change of a long-short book is paid once and funded on what   *)
(* it carried, through holes, delistings and the unwind.  Breaches and     *)
(* excursion of the leverage sweep say the same, and less margin never     *)
(* liquidates less often, as far as the band allows.                       *)
DeskAccountsExact ==
    /\ part = "desks" => Desks!PriceIsMarkToMarket /\ Desks!LongShortAccountsExact
    /\ part = "risk" => Desks!SweepIsConsistent

(* A rebalance leaves the book its desk promises: equal dollars a side,    *)
(* the cheaper funding held long, or exactly the gross.                    *)
RebalancesBalance == Desks!RebalancesBalance
=============================================================================
