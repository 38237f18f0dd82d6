--------------------------- MODULE MCValidation ---------------------------
(***************************************************************************)
(* How a recorded day is judged, one part per behaviour: the anomaly       *)
(* ledger, the score and verdict of a day, the warm start of the books,    *)
(* the rows stored on the way, and a whole run over several venues.        *)
(***************************************************************************)
EXTENDS AnomalyLedger

MCDay == <<1, 5>>
MCGapChoices == {<<0, 1>>, <<0, 2>>, <<2, 2>>, <<3, 4>>, <<4, 6>>}

FeedGap(begin, end) == [kind |-> "feed", window |-> <<begin, end>>]
Down(begin, end) == [kind |-> "downtime", window |-> <<begin, end>>]
MCScoredDay == <<1, 9>>
MCDayGaps == {FeedGap(0, 2), FeedGap(2, 3), FeedGap(3, 3), FeedGap(5, 7), FeedGap(1, 4),
              Down(1, 2), Down(2, 4), Down(6, 10)}

CONSTANTS
    DayGapChoices, ScoredDay, MaxGaps,                \* DayVerdict
    StaleAfter, SilentAfter, Threshold, Scale,
    BookSymbols, Hours, MaxBefore, MaxDay,            \* WarmStart
    Interval, FlushRows, Horizon, MaxEvents, RowRuns, \* DayRows
    Recorders, Vendors, Sources, Replayable,          \* ValidationRun
    Mechanisms, Dates, VendorSymbols, MaxRuns,
    Nothing                                           \* its None

MCMechanisms == [v \in {"kraken", "okx", "cme"} |-> IF v = "kraken" THEN {"checksum"} ELSE {}]

VARIABLES
    part,
    dayGaps, now, valid, lastEvent, covered, daySpan, trusted, stream, known, prevSnap,
    stale, snaps,
    sequenced, hour, log, next, count, full, atMidnight, day, warm, received,
    feed, runs, stage, applied, cursor, buffer, open, tmp, final,
    raw, dbn, run, report, summary

Score == INSTANCE DayVerdict WITH
    GapChoices <- DayGapChoices, Day <- ScoredDay, gaps <- dayGaps, span <- daySpan
Warm == INSTANCE WarmStart WITH Symbols <- BookSymbols
Rows == INSTANCE DayRows WITH MaxRuns <- RowRuns, next <- cursor
Whole == INSTANCE ValidationRun WITH Symbols <- VendorSymbols, None <- Nothing

ASSUME PartsAssumption ==
    /\ Score!ScoreAssumption /\ Score!CadenceAssumption /\ Rows!DayRowsAssumption
    /\ Warm!WarmAssumption /\ Whole!RunAssumption

scoreVars == <<dayGaps, now, valid, lastEvent, covered, daySpan, trusted, stream, known,
               prevSnap, stale, snaps>>
warmVars == <<sequenced, hour, log, next, count, full, atMidnight, day, warm, received>>
rowVars == <<feed, runs, stage, applied, cursor, buffer, open, tmp, final>>
wholeVars == <<raw, dbn, run, report, summary>>
validationVars == <<part, vars, scoreVars, warmVars, rowVars, wholeVars>>

(* A part that does not run stays in one of its initial states.            *)
ValidationInit ==
    /\ part \in {"ledger", "score", "warm", "rows", "whole"}
    /\ IF part = "ledger" THEN Init
       ELSE gaps = {} /\ span = NoSpan /\ marks = {} /\ verdict = Open /\ definite = 0 /\ near = {}
    /\ IF part = "score" THEN Score!DayInit
       ELSE /\ dayGaps = {} /\ now = Begin(ScoredDay) /\ valid = FALSE /\ lastEvent = Score!Never
            /\ covered = 0 /\ daySpan = NoSpan /\ trusted = {} /\ stream = FALSE
            /\ known = FALSE /\ prevSnap = Score!Never /\ stale = {} /\ snaps = {}
    /\ IF part = "rows" THEN Rows!Init
       ELSE /\ feed = <<>> /\ runs = 0 /\ stage = "idle" /\ applied = 0 /\ cursor = Rows!None
            /\ buffer = <<>> /\ open = FALSE /\ tmp = Rows!NoFile /\ final = Rows!NoFile
    /\ Warm!Init /\ (part # "warm" => ~sequenced)
    /\ Whole!Init
ValidationNext ==
    /\ UNCHANGED part
    /\ \/ part = "ledger" /\ Next /\ UNCHANGED <<scoreVars, warmVars, rowVars, wholeVars>>
       \/ part = "score" /\ Score!DayNext /\ UNCHANGED <<vars, warmVars, rowVars, wholeVars>>
       \/ part = "warm" /\ Warm!Next /\ UNCHANGED <<vars, scoreVars, rowVars, wholeVars>>
       \/ part = "rows" /\ Rows!Next /\ UNCHANGED <<vars, scoreVars, warmVars, wholeVars>>
       \/ part = "whole" /\ Whole!Next /\ UNCHANGED <<vars, scoreVars, warmVars, rowVars>>
ValidationSpec == ValidationInit /\ [][ValidationNext]_validationVars

(* A passing day has no long silence that no gap record explains, between  *)
(* snapshots or at an edge of the day: cadence and coverage close every    *)
(* hole between them.                                                      *)
LongSilenceIsLogged == part = "score" => Score!LongSilenceIsLogged

(* The day's accounts are exact to the tick and agree with each other,     *)
(* however the gaps overlap, touch or reach outside the day and the span.  *)
DayAccountsExact ==
    part = "score" =>
        /\ Score!CreditIsExact /\ Score!CoverageAtMostFull
        /\ Score!GapTimeIsExact /\ Score!AccountsAgree

(* Where the replay began never shows in the books of the day, and the day *)
(* is scored on its own messages only.                                     *)
WarmStartInvisible == part = "warm" => Warm!WarmBooksAreFull /\ Warm!DayScoredAlone

(* Rows on disk are those of the events so far, and the final path holds a *)
(* whole day or nothing, wherever a run died.                              *)
RowsAreTheDay == part = "rows" => Rows!RowsSoFar /\ Rows!FinalIsWholeDay

(* Every section of the report answers for all that was asked of its run,  *)
(* and the summary says nothing the report does not.                       *)
ReportsAnswerForAll ==
    part = "whole" => Whole!SectionsAnswerForAll /\ Whole!SummaryIsReported
=============================================================================
