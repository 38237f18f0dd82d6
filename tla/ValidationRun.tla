---------------------------- MODULE ValidationRun ----------------------------
(***************************************************************************)
(* One invocation after another of python -m data.validate: the plan read  *)
(* off the disk (scope.py), the days scored one by one, the section        *)
(* appended to report.md and the summary replaced for the desktop          *)
(* (report_writer.py), while the recorder and the vendor purchase add days *)
(* to the disk and the process may die at any step.  A day's score is      *)
(* DayVerdict's and VendorDays' matter: here it is only the number of      *)
(* comparisons each integrity mechanism made, and any other reason to fail.*)
(***************************************************************************)
EXTENDS FiniteSets, Sequences, SequencesExt

CONSTANTS
    Recorders, Vendors, Sources,  \* venues of each kind, and public archives
    Replayable,                   \* recorder venues with a parser
    Mechanisms,                   \* venue -> integrity mechanisms its feed has
    Dates, Symbols,
    MaxRuns,                      \* bound: invocations
    None

Venues == Recorders \cup Vendors

(* Names of the configuration: an archive is not a venue.                  *)
RunAssumption ==
    /\ Recorders \cap Vendors = {} /\ Sources \cap Venues = {} /\ Replayable \subseteq Recorders
    /\ DOMAIN Mechanisms = Venues /\ MaxRuns \in Nat

VARIABLES
    raw,      \* recorded venue-days, as available_dates lists them
    dbn,      \* stored vendor days, <<symbol, date>>
    run,      \* the process, or None: what was asked, its plan, its results
    report,   \* report.md: the sections appended so far
    summary   \* validation_summary.json, or None

vars == <<raw, dbn, run, report, summary>>

(* The days of a venue: of those named on the command line, the ones there *)
(* are; of none named, all.                                                *)
Wanted(dates, there) == IF dates = None THEN there ELSE dates \cap there
RecorderDays(v, dates) == {v} \X Wanted(dates, {d \in Dates : <<v, d>> \in raw})
VendorDays(v, dates) ==
    {<<v, s, d>> : s \in Symbols, d \in Wanted(dates, {e[2] : e \in dbn})} \cap
    {<<v, e[1], e[2]>> : e \in dbn}

Days(v, asked) ==
    IF v \in Recorders THEN RecorderDays(v, asked.dates)
    ELSE IF asked.venues = None THEN {} ELSE VendorDays(v, asked.dates)

Selected(asked) == IF asked.venues = None THEN Venues ELSE asked.venues
(* A slip: venues without a day are left out of the plan altogether.       *)
SkippedQuietly(asked) == IF asked.venues = None THEN Sources ELSE {}
Skipped(asked) ==
    {v \in Selected(asked) : Days(v, asked) = {}}
        \cup (IF asked.venues = None THEN Sources ELSE {})

Misconfigured(asked) ==
    \E v \in Selected(asked) : v \notin Venues \/ v \in Recorders \ Replayable

(* A mechanism the feed has and that compared nothing certifies nothing.   *)
Uncertified(v, checks) == Mechanisms[v] = {} \/ \E m \in Mechanisms[v] : checks[m] = 0
-----------------------------------------------------------------------------
Init ==
    /\ raw = {} /\ dbn = {} /\ run = None /\ report = <<>> /\ summary = None

Record(v, d) == raw' = raw \cup {<<v, d>>} /\ UNCHANGED <<dbn, run, report, summary>>
Purchase(s, d) == dbn' = dbn \cup {<<s, d>>} /\ UNCHANGED <<raw, run, report, summary>>

(* main: a configuration error or an empty plan ends it, nothing written.  *)
Start(venues, dates) ==
    LET asked == [venues |-> venues, dates |-> dates]
        days == UNION {Days(v, asked) : v \in Selected(asked) \cap Venues}
    IN  /\ run = None /\ Len(report) < MaxRuns
        /\ ~Misconfigured(asked) /\ days # {}
        /\ run' = [asked |-> asked, skipped |-> Skipped(asked), todo |-> days,
                   runs |-> {}, vendor |-> {}, reported |-> FALSE]
        /\ UNCHANGED <<raw, dbn, report, summary>>

(* Recorder days first.  A day passes when it is certified and nothing     *)
(* else is wrong with it; its bytes may also raise, which ends the run.    *)
ScoreRecorder(day, checks, sound) ==
    /\ run # None /\ day \in run.todo /\ day[1] \in Recorders
    /\ run' = [run EXCEPT !.todo = @ \ {day},
           !.runs = @ \cup {[day |-> day, checks |-> checks,
                             passed |-> sound /\ ~Uncertified(day[1], checks)]}]
    /\ UNCHANGED <<raw, dbn, report, summary>>
ScoreVendor(day) ==
    /\ run # None /\ day \in run.todo
    /\ \A other \in run.todo : other[1] \in Vendors
    /\ run' = [run EXCEPT !.todo = @ \ {day}, !.vendor = @ \cup {day}]
    /\ UNCHANGED <<raw, dbn, report, summary>>

(* A section has an entry for each day scored, with its verdict and what   *)
(* its mechanisms compared, and a line for each venue that was skipped.    *)
RecorderEntries == {[day |-> r.day, passed |-> r.passed, checks |-> r.checks] : r \in run.runs}
VendorEntries == run.vendor
Section == [asked |-> run.asked, runs |-> RecorderEntries, vendor |-> VendorEntries,
            skipped |-> run.skipped]
AppendReport ==
    /\ run # None /\ run.todo = {} /\ ~run.reported
    /\ report' = Append(report, Section)
    /\ run' = [run EXCEPT !.reported = TRUE]
    /\ UNCHANGED <<raw, dbn, summary>>

(* Only recorder days go to the summary; it is renamed into place.         *)
WriteSummary ==
    /\ run # None /\ run.reported
    /\ summary' = run.runs
    /\ run' = None
    /\ UNCHANGED <<raw, dbn, report>>

(* The process dies, or a day raises; while appending, the section may be  *)
(* cut short.                                                              *)
Torn == [asked |-> None]
Die ==
    /\ run # None /\ run' = None
    /\ report' \in {report} \cup
           (IF run.todo = {} /\ ~run.reported THEN {Append(report, Torn)} ELSE {})
    /\ UNCHANGED <<raw, dbn, summary>>

Next ==
    \/ \E v \in Recorders, d \in Dates : Record(v, d)
    \/ \E s \in Symbols, d \in Dates : Purchase(s, d)
    \/ \E venues \in {None} \cup (SUBSET Venues \ {{}}), dates \in {None} \cup (SUBSET Dates \ {{}}) :
           Start(venues, dates)
    \/ \E day \in Recorders \X Dates, sound \in BOOLEAN :
           \E checks \in [Mechanisms[day[1]] -> 0..1] : ScoreRecorder(day, checks, sound)
    \/ \E day \in Vendors \X Symbols \X Dates : ScoreVendor(day)
    \/ AppendReport
    \/ WriteSummary
    \/ Die

Spec == Init /\ [][Next]_vars
-----------------------------------------------------------------------------
Sections == {section \in ToSet(report) : section # Torn}
VenuesOf(days) == {day[1] : day \in days}
DaysIn(section) == {r.day : r \in section.runs} \cup section.vendor

(* Whatever was on the disk and whenever runs died, every section of       *)
(* report.md says of each venue it was asked for either what its days      *)
(* scored or why there is none, a default sweep of each archive too        *)
(* ("a venue can quietly fall out of validation", report_writer.py:236-239)*)
(* and no day passes on a mechanism that compared nothing (integrity.py).  *)
SectionsAnswerForAll ==
    \A section \in Sections :
        /\ VenuesOf(DaysIn(section)) \cup section.skipped =
               Selected(section.asked) \cup (IF section.asked.venues = None THEN Sources ELSE {})
        /\ VenuesOf(DaysIn(section)) \cap section.skipped = {}
        /\ \A r \in section.runs : r.passed =>
               Mechanisms[r.day[1]] # {} /\ \A m \in Mechanisms[r.day[1]] : r.checks[m] > 0

(* What the desktop reads is what some section of the report explains: the *)
(* summary is never ahead of report.md and never a half-scored run.        *)
SummaryIsReported == summary # None => \E section \in Sections : section.runs = summary

(* "Everything else that produces no work lands in RunPlan.skipped with a  *)
(* reason" (scope.py:225-226), a date the operator named included.         *)
DatesAnswered ==
    \A section \in Sections : section.asked.dates # None =>
        \A v \in Selected(section.asked) \cap Recorders, d \in section.asked.dates :
            <<v, d>> \in DaysIn(section) \/ v \in section.skipped
=============================================================================
