----------------------------- MODULE DayVerdict ------------------------------
(***************************************************************************)
(* The coverage of one symbol of a venue-day (data/validate/replay.py):    *)
(* valid_ns is credited from event to event, outside the gaps, while the   *)
(* records are replayed; account_gaps attributes the gaps to the day once  *)
(* the span is known.  The numerator and the denominator of coverage meet  *)
(* in this module.                                                         *)
(***************************************************************************)
EXTENDS TimeWindows, FiniteSets, FiniteSetsExt

CONSTANTS
    GapChoices,   \* gap records, of the sidecar or derived, a run may have
    MaxGaps,      \* bound: how many of them it has
    Day           \* the calendar day, a window

Kinds == {"feed", "downtime"}

(* GapRecord: a window that never runs backwards, and its cause.           *)
ScoreAssumption ==
    /\ MaxGaps \in Nat
    /\ Day \in Nat \X Nat /\ Begin(Day) < End(Day)
    /\ GapChoices \subseteq [kind : Kinds, window : Nat \X Nat]
    /\ \A g \in GapChoices : Begin(g.window) <= End(g.window)

VARIABLES
    gaps,       \* all_gaps
    now,        \* recv_ns of the record being replayed
    valid,      \* builder.valid
    lastEvent,  \* last_event_ns[symbol], or Never
    covered,    \* valid_ns[symbol]
    span,       \* <<first_ns, last_ns>>, or NoSpan
    trusted     \* history: ticks between two events with the book valid

vars == <<gaps, now, valid, lastEvent, covered, span, trusted>>

Never == -1
NoSpan == <<0, -1>>

Windows(records) == {g.window : g \in records}
Union == MergeWindows(Windows(gaps))

(* credit_outside_gaps: from the last window starting by `end`, back to    *)
(* the first that ends by `start`.  Two slips: gaps not subtracted, and    *)
(* only the last one subtracted.                                           *)
CreditIgnoresGaps(start, end) == IF end <= start THEN 0 ELSE end - start
CreditNearest(start, end) ==
    LET upto == Cardinality({i \in DOMAIN Union : Begin(Union[i]) <= end})
    IN CreditIgnoresGaps(start, end)
       - TotalLength(Clip([i \in 1..(IF upto > 0 THEN 1 ELSE 0) |-> Union[upto]], start, end))
CreditOutsideGaps(start, end) ==
    LET upto == Cardinality({i \in DOMAIN Union : Begin(Union[i]) <= end})
        passed == Cardinality({i \in 1..upto : End(Union[i]) <= start})
    IN IF end <= start THEN 0
       ELSE (end - start)
            - TotalLength([i \in 1..(upto - passed) |->
                              ClipWindow(Union[passed + i], start, end)])

(* The replay starts at midnight, warmed up or cold.                       *)
Init ==
    /\ gaps \in {g \in SUBSET GapChoices : IsFiniteSet(g) /\ Cardinality(g) <= MaxGaps}
    /\ now = Begin(Day) /\ valid \in BOOLEAN
    /\ lastEvent = (IF valid THEN Begin(Day) ELSE Never)
    /\ covered = 0 /\ span = NoSpan /\ trusted = {}

Received == span' = IF span = NoSpan THEN <<now, now>> ELSE <<Begin(span), now>>

(* A record without an event for this symbol.                              *)
OtherRecord ==
    /\ Received
    /\ UNCHANGED <<gaps, now, valid, lastEvent, covered, trusted>>

(* What an event adds to valid_ns: the time since the last one, if the     *)
(* book was valid over it.                                                 *)
Credit ==
    /\ covered' = IF lastEvent # Never /\ valid
                  THEN covered + CreditOutsideGaps(lastEvent, now) ELSE covered
    /\ trusted' = IF lastEvent # Never /\ valid
                  THEN trusted \cup Ticks(<<lastEvent, now>>) ELSE trusted

(* builder.apply after the credit: a snapshot validates, a sequence gap or *)
(* a checksum failure invalidates, an update leaves the book as it is.     *)
BookEvent ==
    /\ Received /\ Credit
    /\ lastEvent' = now
    /\ valid' \in BOOLEAN
    /\ UNCHANGED <<gaps, now>>

Tick ==
    /\ now + 1 < End(Day)
    /\ now' = now + 1
    /\ UNCHANGED <<gaps, valid, lastEvent, covered, span, trusted>>

Next == OtherRecord \/ BookEvent \/ Tick

Spec == Init /\ [][Next]_vars
-----------------------------------------------------------------------------
(* account_gaps, with the span the replay ended with.                      *)
InDay == {g \in gaps : Overlaps(g.window, Begin(Day), End(Day))}
InSpan == IF span = NoSpan THEN {}
          ELSE {g \in InDay : Overlaps(g.window, Begin(span), End(span))}

SpanWindows(records) == Clip(MergeWindows(Windows(records)), Begin(span), End(span))
GapTimeInSpan == TotalLength(SpanWindows(InSpan))
KindInSpan(kind) == TotalLength(SpanWindows({g \in InSpan : g.kind = kind}))
GapTimeClipped == TotalLength(MergeWindows(Windows(InSpan))) - GapTimeInSpan
PartlyOutside == Cardinality({g \in InSpan : \/ Begin(g.window) < Begin(span)
                                             \/ End(g.window) > End(span)})

(* gap_ns_excluded_from_day and the denominator it leaves.                 *)
ExcludedFromDay == TotalLength(Clip(SpanWindows(InSpan), Begin(Day), End(Day)))
OutsideSpan == InDay \ InSpan
AccountGaps ==
    [gapTime |-> GapTimeInSpan, ofKind |-> [k \in Kinds |-> KindInSpan(k)],
     partly |-> PartlyOutside, clipped |-> GapTimeClipped,
     outside |-> Cardinality(OutsideSpan),
     outsideTime |-> TotalLength(MergeWindows(Windows(OutsideSpan))),
     excluded |-> ExcludedFromDay]
Denominator == IF Length(Day) - ExcludedFromDay > 1
               THEN Length(Day) - ExcludedFromDay ELSE 1
-----------------------------------------------------------------------------
GapTicks(records) == TicksOf(Windows(records))
SpanTicks == Ticks(span)

TypeOK ==
    /\ gaps \subseteq GapChoices /\ now \in Ticks(Day) /\ valid \in BOOLEAN
    /\ lastEvent \in Ticks(Day) \cup {Never} /\ lastEvent <= now
    /\ covered \in Nat /\ trusted \subseteq Ticks(Day)

(* The numerator is exact: valid_ns is the number of ticks between events  *)
(* over which the book was valid and that no gap record covers, however    *)
(* the gaps overlap, touch or repeat each other.                           *)
CreditIsExact == covered = Cardinality(trusted \ GapTicks(gaps))

(* Coverage never exceeds 100%: numerator and denominator agree on what a  *)
(* gap is (the comment on gap_union in validate_venue_day).                *)
CoverageAtMostFull == covered <= Denominator

(* The account is exact: unioned gap time in the span is the ticks of the  *)
(* span inside a gap, counted once; so it never exceeds the span, and      *)
(* GapAccountingError cannot be raised.                                    *)
GapTimeIsExact ==
    span # NoSpan => GapTimeInSpan = Cardinality(GapTicks(gaps) \cap SpanTicks)

(* The reported numbers agree with each other: there is clipped time       *)
(* exactly when some record reaches outside the span, no kind has more gap *)
(* time than the union, the kinds cover the union between them, and the    *)
(* time of every record of the day is somewhere in the account ("never     *)
(* silently dropped"), but none of it in the span twice.                   *)
AccountsAgree ==
    span # NoSpan =>
        LET account == AccountGaps IN
        /\ account.clipped > 0 <=> account.partly > 0
        /\ \A k \in Kinds : account.ofKind[k] <= account.gapTime
        /\ account.gapTime <= account.ofKind["feed"] + account.ofKind["downtime"]
        /\ GapTicks(OutsideSpan) \cap SpanTicks = {}
        /\ Cardinality(GapTicks(InDay)) <=
              account.gapTime + account.clipped + account.outsideTime
        /\ account.excluded <= account.gapTime
        /\ account.outside = 0 => account.outsideTime = 0
------------------------------------------------------------------------------
(***************************************************************************)
(* The verdict on one symbol of a venue-day: the coverage above and,       *)
(* for a snapshot-stream venue (Hyperliquid), whose feed has neither       *)
(* sequence numbers nor checksums, the cadence of its snapshots.  Each     *)
(* book message of such a venue is the whole book.                         *)
(***************************************************************************)

CONSTANTS
    StaleAfter,         \* CADENCE_STALE_MS
    SilentAfter,        \* CADENCE_SILENT_FAIL_MS
    Threshold, Scale    \* FULL_DAY_THRESHOLD is Threshold / Scale

CadenceAssumption ==
    /\ {StaleAfter, SilentAfter, Threshold, Scale} \subseteq Nat
    /\ StaleAfter <= SilentAfter /\ 0 < Threshold /\ Threshold <= Scale

VARIABLES
    stream,      \* vcfg.snapshot_stream
    known,       \* a builder exists, and so a line of the report
    prevSnap,    \* snap_prev_ns, or Never
    stale,       \* snap_stale_windows
    snaps        \* history: when snapshots were received

dayVars == <<vars, stream, known, prevSnap, stale, snaps>>

(* No warm start for a stream: its day begins without a book.              *)
DayInit ==
    /\ Init
    /\ stream \in BOOLEAN /\ (stream => ~valid)
    /\ known = FALSE /\ prevSnap = Never /\ stale = {} /\ snaps = {}

(* A trade, an acknowledgement, or a message the parsers turn down.        *)
DayOther == OtherRecord /\ UNCHANGED <<stream, known, prevSnap, stale, snaps>>

(* A top-of-book update: it is written through and makes sure of a         *)
(* builder, but no book and no cadence comes of it.                        *)
Bbo ==
    /\ stream /\ OtherRecord
    /\ known' = TRUE
    /\ UNCHANGED <<stream, prevSnap, stale, snaps>>

(* Intervals above StaleAfter are kept until the gaps in scope are known.  *)
(* A slip: the previous snapshot moves on only with a fresh interval.      *)
CadenceKeepsStart ==
    /\ prevSnap' = IF prevSnap # Never /\ now - prevSnap > StaleAfter THEN prevSnap ELSE now
    /\ stale' = IF prevSnap # Never /\ now - prevSnap > StaleAfter
                THEN stale \cup {<<prevSnap, now>>} ELSE stale
Cadence ==
    /\ prevSnap' = now
    /\ stale' = IF prevSnap # Never /\ now - prevSnap > StaleAfter
                THEN stale \cup {<<prevSnap, now>>} ELSE stale

Snapshot ==
    /\ stream /\ BookEvent /\ valid'
    /\ known' = TRUE
    /\ Cadence
    /\ snaps' = snaps \cup {now}
    /\ UNCHANGED stream

Incremental ==
    /\ ~stream /\ BookEvent
    /\ known' = TRUE
    /\ UNCHANGED <<stream, prevSnap, stale, snaps>>

DayTick == Tick /\ UNCHANGED <<stream, known, prevSnap, stale, snaps>>

DayNext == DayOther \/ Bbo \/ Snapshot \/ Incremental \/ DayTick

DaySpec == DayInit /\ [][DayNext]_dayVars
-----------------------------------------------------------------------------
(* The report, were the recording to end here.  A stale interval that      *)
(* meets a gap in scope is explained, however short the gap is.            *)
Explains(g, w) == Overlaps(g.window, Begin(w), End(w))
Unexplained == {w \in stale : ~\E g \in InSpan : Explains(g, w)}
Silent == {w \in Unexplained : Length(w) > SilentAfter}

Covered == covered * Scale >= Threshold * Denominator
Passed == known /\ (stream => snaps # {} /\ Silent = {}) /\ Covered
-----------------------------------------------------------------------------
(* Stretches of the day without a snapshot, its edges included.            *)
Marks == snaps \cup {Begin(Day), End(Day)}
Stretches ==
    {w \in Marks \X Marks : Begin(w) < End(w) /\ \A t \in snaps : t <= Begin(w) \/ t >= End(w)}

(* What coverage forgives over a whole day.                                *)
Shortfall == (Length(Day) * (Scale - Threshold)) \div Scale

(* The two criteria close every hole between them: on a day that passes,   *)
(* any stretch without a snapshot that is longer than both the silence     *)
(* limit and what coverage forgives meets a logged gap in scope, whether   *)
(* it lies between snapshots or at an edge of the day, where the cadence   *)
(* sees nothing.                                                           *)
LongSilenceIsLogged ==
    stream /\ Passed => \A w \in Stretches :
        Length(w) > SilentAfter /\ Length(w) > Shortfall =>
            \E g \in InSpan : Overlaps(g.window, Begin(w), End(w))

(* What the comment on CADENCE_SILENT_FAIL_MS says of a day that passes:   *)
(* no silence outside logged gaps is longer than the limit.  The code      *)
(* forgives all of an interval that a gap of any length touches.           *)
NoSilenceOutsideGaps ==
    stream /\ Passed => \A w \in Stretches :
        Begin(w) \in snaps /\ End(w) \in snaps =>
            Cardinality(Ticks(w) \ GapTicks(gaps)) <= SilentAfter
==============================================================================
