--------------------------- MODULE AnomalyVerdict ---------------------------
(***************************************************************************)
(* What the anomaly counting of a replayed venue-day promises: remember    *)
(* every anomaly (crossed book, sequence gap, checksum failure) of the     *)
(* day, and count at the end those that no gap touching the recorded span  *)
(* explains.  This is the counting of data/validate/replay.py as if memory *)
(* were no concern; AnomalyLedger is how it is done.                       *)
(***************************************************************************)
EXTENDS TimeWindows, FiniteSets

CONSTANTS
    GapChoices,   \* windows that read_gaps and derive_downtime_gaps may give
    Day,          \* the calendar day, a window
    SlackBefore, SlackAfter,   \* how far from a gap an anomaly is explained
    MaxTime,      \* bound: receive times of the day's records
    MaxMarks      \* bound: anomalies of a run

ASSUME VerdictAssumption ==
    /\ Day \in Int \X Int /\ GapChoices \subseteq Int \X Int
    /\ SlackBefore \in Nat /\ SlackAfter \in Nat
    /\ MaxTime \in Nat /\ MaxMarks \in Nat

VARIABLES
    gaps,      \* all_gaps
    span,      \* <<first_ns, last_ns>>, or NoSpan before the first record
    marks,     \* the anomalies so far: <<number, receive time>>
    verdict    \* the unexplained count of the report, or Open

NoSpan == <<0, -1>>
Open == -1
Number == 1..MaxMarks
Mark == Number \X (0..MaxTime)

InitVerdict ==
    /\ gaps \in SUBSET GapChoices
    /\ span = NoSpan /\ marks = {} /\ verdict = Open

(* _explained: a gap of the list comes near enough to the timestamp.       *)
Explained(ts, windows) ==
    \E w \in windows : Begin(w) - SlackBefore <= ts /\ ts <= End(w) + SlackAfter

(* gaps_touching_span: the gaps in scope, overlapping the day and the span.*)
InScope(windows) ==
    IF span = NoSpan THEN {}
    ELSE {w \in windows : /\ Overlaps(w, Begin(Day), End(Day))
                          /\ Overlaps(w, Begin(span), End(span))}

(* A record of the day is replayed: the span grows to it.                  *)
Record(ts) ==
    /\ verdict = Open
    /\ ts >= End(span)
    /\ span' = IF span = NoSpan THEN <<ts, ts>> ELSE <<Begin(span), ts>>

Quiet(ts) ==
    /\ Record(ts)
    /\ UNCHANGED <<gaps, marks, verdict>>

Anomaly(number, ts) ==
    /\ Record(ts)
    /\ \A m \in marks : m[1] # number
    /\ marks' = marks \cup {<<number, ts>>}
    /\ UNCHANGED <<gaps, verdict>>

Judge ==
    /\ verdict = Open
    /\ verdict' = Cardinality({m \in marks : ~Explained(m[2], InScope(gaps))})
    /\ UNCHANGED <<gaps, span, marks>>

NextVerdict ==
    \/ \E ts \in 0..MaxTime : Quiet(ts) \/ \E n \in Number : Anomaly(n, ts)
    \/ Judge

Verdict == InitVerdict /\ [][NextVerdict]_<<gaps, span, marks, verdict>>
=============================================================================
