------------------------------ MODULE MCFeeds ------------------------------
(***************************************************************************)
(* What is made of the recorded feeds, one part per behaviour: the books   *)
(* of a numbered connection (BookReplay), and the samples a research day   *)
(* draws from its event stream (SampleStream).                             *)
(***************************************************************************)
EXTENDS BookReplay

CONSTANTS
    Widths, MaxAge, MaxTrades, BinNs, WindowBins, Horizons, TimeLimit, BarrierMult, BpsUnit,
    MakerBps, TakerBps, FeePerContract, Multiplier, IntervalNs, EveryN, Threshold,
    Days, Steps, Lookback, MaxPending, None

(* The events of the sampled days.                                         *)
BookAt(bid, bq, ask, aq, ok) ==
    [bid |-> bid, bq |-> bq, ask |-> ask, aq |-> aq, bdepth |-> bq, adepth |-> 2 * aq, valid |-> ok]
Event(k, b, price, side) == [t |-> 0, k |-> k, b |-> b, price |-> price, qty |-> 2, side |-> side]
Low    == Event("book", BookAt(4, 1, 6, 3, TRUE), 0, None)
High   == Event("book", BookAt(6, 2, 7, 1, TRUE), 0, None)
Cross  == Event("book", BookAt(8, 1, 7, 1, TRUE), 0, None)
Broken == Event("book", BookAt(4, 1, 6, 3, FALSE), 0, None)
Buy    == Event("trade", None, 5, "buy")
Sell   == Event("trade", None, 5, "sell")
Down   == Event("trade", None, 4, None)
Up     == Event("trade", None, 6, None)
Other  == Event("ref", BookAt(5, 1, 6, 1, TRUE), 0, None)
Touch  == Event("bbo", BookAt(5, 1, 7, 2, TRUE), 0, None)
Touch2 == Event("bbo", BookAt(7, 1, 6, 2, TRUE), 0, None)
Half   == Event("bbo", BookAt(5, 1, 0, 0, TRUE), 0, None)
Depth   == [bbo |-> FALSE, depth |-> TRUE, flagged |-> FALSE, perContract |-> TRUE]
TopOnly == [bbo |-> TRUE, depth |-> FALSE, flagged |-> TRUE, perContract |-> FALSE]
DayOf(v, s, g, w, e, n) == [venue |-> v, sampler |-> s, gaps |-> g, warm |-> w, events |-> e, max |-> n]
SampledDays ==
    {DayOf(Depth, "book", {}, 0, {Low, High}, 5),
     DayOf(Depth, "book", {}, 0, {Low, High, Cross}, 4),
     DayOf(Depth, "trade", {}, 0, {Low, High, Up}, 4),
     DayOf(Depth, "time", {<<3, 5>>}, 1, {Low, Broken, High}, 4),
     DayOf(Depth, "imbalance", {}, 1, {High, Other, Up, Down}, 3),
     DayOf(TopOnly, "trade", {}, 0, {Touch, Half, Buy, Sell}, 4),
     DayOf(TopOnly, "book", {<<2, 3>>}, 0, {Low, Touch2, Touch}, 4)}

VARIABLES part, day, stream, eng, sampler, fixed, barrier, queued, file, index, closed

Samples == INSTANCE SampleStream WITH pending <- queued
ASSUME PartsAssumption ==
    Samples!SamplerBounds /\ Samples!LabelBounds /\ Samples!EngineBounds /\ Samples!StreamBounds

sampleVars == <<day, stream, eng, sampler, fixed, barrier, queued, file, index, closed>>
feedVars == <<part, vars, sampleVars>>

FeedInit ==
    /\ part \in {"book", "samples"} /\ Init
    /\ IF part = "samples" THEN Samples!Init
       ELSE /\ day = None /\ stream = <<>> /\ eng = None /\ sampler = None /\ fixed = None
            /\ barrier = None /\ queued = None /\ file = <<>> /\ index = 0 /\ closed = FALSE
FeedNext ==
    /\ UNCHANGED part
    /\ \/ part = "book" /\ Next /\ UNCHANGED sampleVars
       \/ part = "samples" /\ Samples!Next /\ UNCHANGED vars
FeedSpec == FeedInit /\ [][FeedNext]_feedVars

(* Every finished sample carries the labels and cost outcomes that a       *)
(* reader of the whole stream would give it, at every horizon.             *)
LabelsMatchStream == part = "samples" => Samples!LabelsMatchStream

(* Every feature value is what the history up to the sample gives, however *)
(* the rolling state was expired and folded.                               *)
FeaturesMatchHistory == part = "samples" => Samples!FeaturesMatchHistory

(* Each sample is stored once, whole and in order, and a row marked valid  *)
(* keeps its lookback and its horizon clear of gaps.                       *)
RowsAreSound == part = "samples" => Samples!RowsOnceInOrder /\ Samples!ValidRowsAvoidGaps
=============================================================================
