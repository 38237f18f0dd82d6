----------------------------- MODULE VendorDays -----------------------------
(* A vendor file of several UTC days, in hours: the exchange's calendar, the  *)
(* routing of its records to one partition per day, the two scorers of a day, *)
(* and the windows that make a sample of the day invalid.                     *)
(* Source: data/databento/session.py, ingest.py, validate.py, rolls.py,       *)
(* exclusions.py                                                              *)
EXTENDS TimeWindows, FiniteSets, FiniteSetsExt

CONSTANTS Starts,     \* weekdays (0 = Monday) the file may begin on
          Offsets,    \* hours Central time may be behind UTC
          Days,       \* the days of the file, 0, 1, ...
          Rolls,      \* days at whose midnight the contract may change
          Steps,      \* hours from one record to the next
          Grace, Quiet, Lookback, Horizon, MinPct,
          MaxRecords  \* bound on the records of the file

\* Central time is behind UTC, and a file has finitely many days.
VendorDaysAssumption ==
  /\ Starts \subseteq 0..6 /\ Offsets \subseteq 1..23 /\ Days \subseteq Nat
  /\ Rolls \subseteq Nat /\ IsFiniteSet(Rolls) /\ Steps \subseteq Int
  /\ {Grace, Quiet, Lookback, Horizon} \subseteq Nat

VARIABLES first, behind, rolls, \* the file's weekday, its offset, its contract changes
          recv, crossed,        \* the records' capture times, and those with a crossed book
          report, prev,         \* report[d] of the range scorer and its last record
          open, done, parts,    \* ingest: open day, closed days, rows per day
          failed                \* a record came for a closed day
vvars == <<first, behind, rolls, recv, crossed, report, prev, open, done, parts, failed>>

None == -1
DayOf(t)   == t \div 24
DayBegin(d) == 24 * d
DayEnd(d)   == 24 * d + 24

-----------------------------------------------------------------------------
\* closed_windows_ns. Local day n begins at hour 24 n + behind.
Weekday(n)  == (first + n + 7) % 7
LocalHour(n, h) == 24 * n + behind + h
HaltOf(n) == IF Weekday(n) = 4 THEN <<LocalHour(n, 16), LocalHour(n + 2, 17)>>
             ELSE <<LocalHour(n, 16), LocalHour(n, 17)>>
\* Mutant: the windows are sorted and not united.
ClosedBare(d) ==
  SetToSortSeq({w \in {ClipWindow(HaltOf(n), DayBegin(d), DayEnd(d)) : n \in {m \in (d - 3)..d : Weekday(m) # 5}} :
                  End(w) > Begin(w)}, Earlier)
Closed(d) ==
  MergeWindows({ClipWindow(HaltOf(n), DayBegin(d), DayEnd(d)) : n \in {m \in (d - 3)..d : Weekday(m) # 5}})
OpenTime(d) == 24 - TotalLength(Closed(d))
NoMatch(d)  == MergeWindows({<<Begin(w), End(w) + Grace>> : w \in ToSet(Closed(d))})
InWindow(t, windows) == \E i \in DOMAIN windows : t \in Ticks(windows[i])
ClosedPart(from, to, d) == TotalLength(Clip(Closed(d), from, to))

\* roll_windows_ns: back by the label horizon, forward by the feature lookback.
RollWindows == MergeWindows({<<DayBegin(r) - Horizon, DayBegin(r) + Lookback>> : r \in rolls})

-----------------------------------------------------------------------------
NewReport == [events |-> 0, disorder |-> 0, covered |-> 0, quiet |-> {}, unexplained |-> 0]

\* One record on its day's report.
Timed(r, before, t, d) ==
  IF before = None THEN r
  ELSE IF t < before THEN [r EXCEPT !.disorder = @ + 1]
  ELSE LET closedPart == ClosedPart(before, t, d)
           span == t - before
       IN  IF span > Quiet /\ closedPart < span
           THEN [r EXCEPT !.quiet = @ \cup {<<before, t>>}]
           ELSE [r EXCEPT !.covered = @ + span - closedPart]
Score(r, before, t, d, cross) ==
  LET counted == [Timed(r, before, t, d) EXCEPT !.events = @ + 1]
  IN  IF cross /\ ~InWindow(t, NoMatch(d)) THEN [counted EXCEPT !.unexplained = @ + 1] ELSE counted

EnoughCovered(d) == 100 * report[d].covered >= MinPct * OpenTime(d)
\* The verdict of validate_vendor_day, and that of validate_vendor_range.
DayPasses(d) == /\ report[d].events > 0 /\ report[d].disorder = 0 /\ report[d].unexplained = 0
                /\ OpenTime(d) > 0 /\ EnoughCovered(d)
RangePasses(d) == /\ report[d].disorder = 0 /\ report[d].unexplained = 0
                  /\ OpenTime(d) > 0 => EnoughCovered(d)

\* ingest_dbn_range: a record of a new day closes the day that is open.
Route(t) == DayOf(t)
Ingest(t) ==
  LET d == Route(t) IN
  IF failed THEN UNCHANGED <<open, done, parts, failed>>
  ELSE IF d # open /\ d \in done
       THEN failed' = TRUE /\ UNCHANGED <<open, done, parts>>
       ELSE /\ open' = d
            /\ done' = done \cup ({open} \ {d, None})
            /\ parts' = [parts EXCEPT ![d] = Append(@, t)]
            /\ UNCHANGED failed

Init == /\ first \in Starts /\ behind \in Offsets /\ rolls \in SUBSET Rolls
        /\ recv = <<>> /\ crossed = {}
        /\ report = [d \in Days |-> NewReport] /\ prev = [d \in Days |-> None]
        /\ open = None /\ done = {} /\ parts = [d \in Days |-> <<>>] /\ failed = FALSE

Record == \E step \in Steps, cross \in BOOLEAN :
  LET t == IF recv = <<>> THEN step ELSE Last(recv) + step
      d == DayOf(t)
  IN  /\ Len(recv) < MaxRecords /\ t >= 0 /\ d \in Days
      /\ cross => crossed = {}
      /\ recv' = Append(recv, t)
      /\ crossed' = crossed \cup IF cross THEN {Len(recv) + 1} ELSE {}
      /\ report' = [report EXCEPT ![d] = Score(@, prev[d], t, d, cross)]
      /\ prev' = [prev EXCEPT ![d] = t]
      /\ Ingest(t)
      /\ UNCHANGED <<first, behind, rolls>>
Next == Record
Spec == Init /\ [][Next]_vvars

-----------------------------------------------------------------------------
\* observed_silences_ns reads the day's partition; exclusion_windows_ns unites.
Silences(d) == {<<parts[d][i], parts[d][i + 1]>> : i \in 1..(Len(parts[d]) - 1)}
LongSilences(d) == {w \in Silences(d) : Length(w) > Quiet}
Excluded(d) == MergeWindows(ToSet(Closed(d)) \cup ToSet(NoMatch(d)) \cup ToSet(RollWindows) \cup LongSilences(d))

RecordsOf(d) ==
  FlattenSeq([i \in DOMAIN recv |-> IF DayOf(recv[i]) = d THEN <<recv[i]>> ELSE <<>>])
\* Hours of the calendar by the exchange's own rule, in local time.
OnHoliday(t) ==
  LET local == t - behind
      h == (local + 168) % 24
      w == Weekday(local \div 24)
  IN  h = 16 \/ w = 5 \/ (w = 4 /\ h >= 16) \/ (w = 6 /\ h < 17)

(* Coverage is fresh open time: on a day in order, exactly the hours that the *)
(* exchange's calendar leaves open and that lie between two consecutive       *)
(* records close together, none of them counted twice.                        *)
CoverageIsFreshTime ==
  \A d \in Days : report[d].disorder = 0 =>
    LET rows == RecordsOf(d) IN
    report[d].covered =
      Cardinality({t \in DayBegin(d)..(DayEnd(d) - 1) :
        /\ ~OnHoliday(t)
        /\ \E i \in 1..(Len(rows) - 1) :
             rows[i] <= t /\ t < rows[i + 1] /\ rows[i + 1] - rows[i] <= Quiet})

(* A sample outside every exclusion window is safe: no contract change lies   *)
(* in what it reads or in what its label waits for, the exchange is open, and *)
(* the scorer called no silence there.                                        *)
UnexcludedIsSafe ==
  ~failed => \A d \in Days : LET windows == Excluded(d) IN
    \A t \in Ticks(<<DayBegin(d), DayEnd(d)>>) : ~InWindow(t, windows) =>
      /\ ~OnHoliday(t) /\ t \notin TicksOf(report[d].quiet)
      /\ \A r \in rolls : ~(t - Lookback < DayBegin(r) /\ DayBegin(r) <= t + Horizon)

(* A file ingested without an error leaves each day exactly its own records.  *)
PartitionsExact == ~failed => \A d \in Days : parts[d] = RecordsOf(d)

(* Stated by validate.py, "a range verdict and a day verdict never disagree", *)
(* and broken on a day the exchange is closed throughout.                     *)
VerdictsAgree == \A d \in Days : report[d].events > 0 => (DayPasses(d) <=> RangePasses(d))
=============================================================================
