----------------------------- MODULE TimeWindows -----------------------------
(***************************************************************************)
(* Half-open windows of time [start, end), written <<start, end>>: the     *)
(* one representation that gap records, session downtime, recorded spans   *)
(* and calendar days share (data/recorder/gaps.py, data/validate/replay.py)*)
(* Nanosecond timestamps are abstracted to natural-number ticks; every     *)
(* operator here only compares and subtracts them.                         *)
(***************************************************************************)
EXTENDS Integers, Sequences, SequencesExt, FiniteSets, FiniteSetsExt, TLC

Begin(w) == w[1]
End(w)   == w[2]

(* The ticks a window covers.  Empty for an empty or inverted window.      *)
Ticks(w) == Begin(w) .. (End(w) - 1)
TicksOf(windows) == UNION {Ticks(w) : w \in windows}

Length(w) == End(w) - Begin(w)

(* GapRecord.overlaps_ns: does the gap intersect [start, end)?             *)
Overlaps(w, start, end) == Begin(w) < end /\ End(w) > start

Earlier(v, w) == \/ Begin(v) < Begin(w)
                 \/ Begin(v) = Begin(w) /\ End(v) < End(w)

(* The loop body of merge_windows: extend the last merged window when the  *)
(* next one overlaps or touches it, else start a new one.                  *)
Absorb(merged, w) ==
    IF merged # <<>> /\ Begin(w) <= End(Last(merged))
    THEN LET top == Last(merged)
             end == IF End(w) > End(top) THEN End(w) ELSE End(top)
         IN Append(Front(merged), <<Begin(top), end>>)
    ELSE Append(merged, w)

(* Windows sorted: each at the place the earlier ones leave.               *)
Sorted(windows) ==
    [k \in 1..Cardinality(windows) |->
        CHOOSE w \in windows : Cardinality({v \in windows : Earlier(v, w)}) = k - 1]

(* merge_windows: drop the empty and inverted windows, sort, union.        *)
MergeWindows(windows) ==
    FoldLeft(Absorb, <<>>, Sorted({w \in windows : End(w) > Begin(w)}))

(* replay._clip: intersect with [lo, hi), dropping what becomes empty.     *)
ClipWindow(w, lo, hi) ==
    <<IF Begin(w) > lo THEN Begin(w) ELSE lo, IF End(w) < hi THEN End(w) ELSE hi>>
Clip(windows, lo, hi) ==
    LET clipped(i) == ClipWindow(windows[i], lo, hi)
        kept(i) == End(clipped(i)) > Begin(clipped(i))
    IN FlattenSeq([i \in DOMAIN windows |-> IF kept(i) THEN <<clipped(i)>> ELSE <<>>])

TotalLength(windows) == FoldLeft(LAMBDA sum, w : sum + Length(w), 0, windows)
------------------------------------------------------------------------------
(***************************************************************************)
(* How validation turns the lines of sessions.jsonl into recorder-downtime *)
(* gaps (data/validate/downtime.py).  A marker is [event, ts]; a derived   *)
(* gap is [kind, window].                                                  *)
(***************************************************************************)

Absent == -1      \* Python's None where a timestamp is expected

Marker(event, ts) == [event |-> event, ts |-> ts]
Gap(kind, begin, end) == [kind |-> kind, window |-> <<begin, end>>]

(* _order: by the clock, `end` ahead of `start` on a tie.                  *)
OrderMarkers(m, n) ==
    \/ m.ts < n.ts
    \/ m.ts = n.ts /\ m.event = "end" /\ n.event = "start"

(* A slip: trusting the order of the lines.                                *)
InFileOrder(markers) == markers

(* The markers by the clock, each at the place the ones ahead of it leave; *)
(* Python's sort keeps equal ones in file order.                           *)
Ahead(markers, i) ==
    {j \in DOMAIN markers : IF j < i THEN ~OrderMarkers(markers[i], markers[j])
                            ELSE OrderMarkers(markers[j], markers[i])}
ByTheClock(markers) ==
    LET place == [i \in DOMAIN markers |-> Cardinality(Ahead(markers, i)) + 1]
    IN [k \in DOMAIN markers |-> markers[CHOOSE i \in DOMAIN markers : place[i] = k]]

(* last_activity_ns: the latest message received strictly before an instant*)
LastActivity(raw, before) ==
    LET earlier == {t \in raw : t < before}
    IN IF earlier = {} THEN Absent ELSE Max(earlier)

(* Where the hole left by an unclean termination begins; a slip would      *)
(* begin it at the start of the dead session.                              *)
UncleanFromStart(raw, openStart, start) == openStart
UncleanBegin(raw, openStart, start) ==
    LET activity == LastActivity(raw, start)
    IN IF activity > openStart THEN activity ELSE openStart

AddGap(gaps, kind, begin, end) ==
    IF begin = end THEN gaps ELSE gaps \cup {Gap(kind, begin, end)}

(* The gap a start marker closes, if any.                                  *)
GapsAt(raw, s, start) ==
    IF s.pendingEnd # Absent THEN AddGap(s.gaps, "downtime", s.pendingEnd, start)
    ELSE IF s.openStart # Absent
         THEN AddGap(s.gaps, "unclean", UncleanBegin(raw, s.openStart, start), start)
         ELSE s.gaps

(* A slip: a start is only remembered when it closes nothing.              *)
PairForgetsStart(raw, s, m) ==
    IF m.event = "end" THEN [s EXCEPT !.pendingEnd = m.ts, !.openStart = Absent]
    ELSE [pendingEnd |-> Absent, gaps |-> GapsAt(raw, s, m.ts),
          openStart |-> IF s.pendingEnd # Absent THEN s.openStart ELSE m.ts]

(* One turn of the loop of derive_downtime_gaps.                           *)
Pair(raw, s, m) ==
    IF m.event = "end" THEN [s EXCEPT !.pendingEnd = m.ts, !.openStart = Absent]
    ELSE [pendingEnd |-> Absent, openStart |-> m.ts, gaps |-> GapsAt(raw, s, m.ts)]

(* derive_downtime_gaps over a sidecar and the receive times on disk.      *)
DeriveGaps(markers, raw) ==
    FoldLeft(LAMBDA s, m : Pair(raw, s, m),
             [pendingEnd |-> Absent, openStart |-> Absent, gaps |-> {}],
             ByTheClock(markers)).gaps
==============================================================================
