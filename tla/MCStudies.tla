----------------------------- MODULE MCStudies -----------------------------
(***************************************************************************)
(* The offline studies, one part per behaviour: the medium-frequency       *)
(* panel, the pairs backtest, the validation folds, the quote census and   *)
(* its verdict, the launch features and the funding study.                 *)
(***************************************************************************)
EXTENDS Integers, Sequences, FiniteSets

CONSTANTS
    Nothing,                                            \* the studies' None
    PanelClasses, Lags, ShortSpan, LongSpan, PastSpan,  \* MediumPanel
    MinWindow, MinMean, WeekDays, WeeksAhead, MinTrain, LastPanelDay, MaxHoles,
    NaN, ZValues, EntryZ, MaxHold, Starts, LastBar,     \* PairsBacktest
    FoldPlans, RowGaps, MaxRows, MaxLost, MinUsable, RowsPerFile,    \* Splits
    Dev, Traders, OpenTime, ReadTime, SoftTime, SlowTime,            \* LaunchWindow
    Share, Amounts, ChainTime, ChainRecords,
    FundedCoins, PaidRates, TicksPerDay, ShortestHistory,            \* FundingStudy
    CreditedMost, CreditedFirst, ThinDay, LastPaid, MaxFunding

PanelLags == [A |-> 1, B |-> 2, C |-> 0, D |-> 0]
PairZs == -2..2
SellShare == <<7, 10>>
MCRates == {-1, 1}

Fold(kind, horizon, embargo, splits, train, test) ==
    [kind |-> kind, horizon |-> horizon, embargo |-> embargo, splits |-> splits,
     train |-> train, test |-> test, stride |-> 1]
MCPlans == {Fold("kfold", 1, 1, 2, 0, 0), Fold("kfold", 2, 2, 3, 0, 0), Fold("forward", 1, 0, 0, 2, 1)}
Stat(lower, p, net) == [lower |-> lower, p |-> p, net |-> net]
CensusStats == {Stat(-2, 60, -1), Stat(-1, 8, 1), Stat(0, 6, 1), Stat(1, 1, 1)}

VARIABLES
    part,
    class, horizon, day, seen,
    start, z, pos, held,
    split, rows, data, stage, fold, model,
    c9, census, net, ticks, accrual, sim, closed, log,
    clock, results, outcome,
    now, txs, sigs, label, prior,
    hour, funding, candles, error

Medium == INSTANCE MediumPanel WITH
    Classes <- PanelClasses, Lag <- Lags, Short <- ShortSpan, Long <- LongSpan, Window <- PastSpan,
    Week <- WeekDays, Horizons <- WeeksAhead, LastDay <- LastPanelDay
Pairs == INSTANCE PairsBacktest WITH Zs <- ZValues
Folds == INSTANCE Splits WITH Plans <- FoldPlans, Gaps <- RowGaps
Quotes == INSTANCE QuoteCensus WITH
    Quotes <- {<<2, 4>>, <<3, 6>>, <<4, 4>>, <<0, 4>>}, Horizons <- {1, 2}, End <- 4,
    Resolution <- 3, Day <- 3, Hour <- 2, Archive <- {4}, Rates <- {"r1", "r2"},
    MaxRecords <- 3, funding <- accrual, None <- Nothing,
    Symbols <- {"x", "y"}, Stats <- CensusStats, Q <- 10, now <- clock, rows <- results
Launch == INSTANCE LaunchWindow WITH
    Creator <- Dev, Others <- Traders, Window <- OpenTime, Cutoff <- ReadTime,
    Soft <- SoftTime, Slow <- SlowTime, Fraction <- Share,
    LastTime <- ChainTime, MaxRecords <- ChainRecords, None <- Nothing
Carry == INSTANCE FundingStudy WITH
    Coins <- FundedCoins, Rates <- PaidRates, DayTicks <- TicksPerDay, MinSpan <- ShortestHistory,
    MaxInterval <- CreditedMost, FirstInterval <- CreditedFirst, MinCross <- ThinDay,
    LastTick <- LastPaid, MaxRecords <- MaxFunding, now <- hour

ASSUME PartsAssumption ==
    /\ Medium!PanelAssumption /\ Pairs!PairAssumption /\ Folds!SplitAssumption
    /\ Launch!LaunchAssumption /\ Quotes!CensusAssumption /\ Quotes!StatsAssumption
    /\ Carry!FundingAssumption

mediumVars == <<class, horizon, day, seen>>
pairVars == <<start, z, pos, held>>
foldVars == <<split, rows, data, stage, fold, model>>
quoteVars == <<c9, census, net, ticks, accrual, sim, closed, log>>
verdictVars == <<clock, results, outcome>>
launchVars == <<now, txs, sigs, label, prior>>
carryVars == <<hour, funding, candles, error>>
vars == <<part, mediumVars, pairVars, foldVars, quoteVars, verdictVars, launchVars, carryVars>>

(* A part that does not run stays in one of its initial states.            *)
Init ==
    /\ part \in {"medium", "pairs", "folds", "quotes", "verdict", "launch", "carry"}
    /\ Medium!Init /\ (part # "medium" => class = "A" /\ horizon = 1)
    /\ Pairs!Init /\ (part # "pairs" => start = 1)
    /\ Folds!Init /\ (part # "folds" => split.kind = "forward")
    /\ Quotes!Init
    /\ IF part = "verdict" THEN Quotes!VerdictInit ELSE clock = 0 /\ results = <<>> /\ outcome = Nothing
    /\ Launch!Init /\ (part # "launch" => ~prior.made)
    /\ Carry!Init
Next ==
    /\ UNCHANGED part
    /\ \/ /\ part = "medium" /\ Medium!Next
          /\ UNCHANGED <<pairVars, foldVars, quoteVars, verdictVars, launchVars, carryVars>>
       \/ /\ part = "pairs" /\ Pairs!Next
          /\ UNCHANGED <<mediumVars, foldVars, quoteVars, verdictVars, launchVars, carryVars>>
       \/ /\ part = "folds" /\ Folds!Next
          /\ UNCHANGED <<mediumVars, pairVars, quoteVars, verdictVars, launchVars, carryVars>>
       \/ /\ part = "quotes" /\ Quotes!Next
          /\ UNCHANGED <<mediumVars, pairVars, foldVars, verdictVars, launchVars, carryVars>>
       \/ /\ part = "verdict" /\ Quotes!Assemble
          /\ UNCHANGED <<mediumVars, pairVars, foldVars, quoteVars, launchVars, carryVars>>
       \/ /\ part = "launch" /\ Launch!Next
          /\ UNCHANGED <<mediumVars, pairVars, foldVars, quoteVars, verdictVars, carryVars>>
       \/ /\ part = "carry" /\ Carry!Next
          /\ UNCHANGED <<mediumVars, pairVars, foldVars, quoteVars, verdictVars, launchVars>>
Spec == Init /\ [][Next]_vars

(* A prediction of the panel reads nothing that was unpublished, or not    *)
(* resolved, when it was made.                                             *)
NothingUnpublished == part = "medium" => Medium!NothingUnpublished

(* Trades of the pairs backtest are bounded and flat in between, and the   *)
(* turns charged are both sides of each, but at the edges of the score.    *)
TradesAddUp == part = "pairs" => Pairs!TradesAreBounded /\ Pairs!TurnsMatchTrades

(* No prediction comes from a model that saw its outcome, and the test     *)
(* blocks partition the rows.                                              *)
FoldsAreApart == part = "folds" => Folds!NoSharedOutcome /\ Folds!BlocksPartition

(* The census accumulators, fed in one pass, say what the whole log says:  *)
(* the price at each deadline, the time at each spread, the hourly rates;  *)
(* and its conclusions agree with each other and the evidence.             *)
CensusReadsTheLog ==
    /\ part = "quotes" =>
          Quotes!OutcomesReadTheDeadline /\ Quotes!SpreadTimeExact /\ Quotes!FundingOnTheHour
    /\ part = "verdict" => Quotes!ConclusionsAgree

(* Once the launch window has closed, nothing later moves a feature.       *)
PastIsClosed == Launch!PastIsClosed

(* The reported negative runs carry all of the negative funding, and the   *)
(* panels hold what the membership of each day says.                       *)
FundingIsWhole ==
    part = "carry" => Carry!RunsCarryTheNegatives /\ Carry!PanelsMatchMembership

(* Who was in the universe on a day that is over does not change by what   *)
(* arrives later ("membership is per day", cross/universe.py).             *)
MembershipIsPerDay == Carry!MembershipIsPerDay
=============================================================================
