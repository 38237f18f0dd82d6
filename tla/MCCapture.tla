---------------------------- MODULE MCCapture ----------------------------
(***************************************************************************)
(* What the recorder leaves on disk.  First one venue over several lives   *)
(* of the recorder process: the capture loop of VenueRecorder between the  *)
(* session markers of run_service (data/recorder/service.py), and the gaps *)
(* that validation assembles from both sidecars (data/validate/replay.py,  *)
(* data/validate/downtime.py).  Then, one part per behaviour: that         *)
(* timeline, the session markers of processes that overlap at a restart,   *)
(* and the hour files.                                                     *)
(***************************************************************************)
EXTENDS VenueRecorder

CONSTANT MaxLives    \* bound: process starts in a run

ASSUME TimelineAssumption == MaxLives \in Nat

VARIABLES
    alive,       \* is the recorder process running?
    markers,     \* lines of sessions.jsonl
    abandoned    \* history: ticks of outages still open when run() ended

session == <<alive, markers, abandoned>>
timeVars == <<vars, session>>

TimelineInit ==
    /\ Init
    /\ alive = TRUE /\ markers = <<Marker("start", 0)>> /\ abandoned = {}

(* A step of the capture loop, or of the world around it.                  *)
Run == alive /\ Next /\ UNCHANGED session

(* run_service gets to its finally block: the writer is closed and the end *)
(* marker written, whatever run() knew of an outage in progress.           *)
Shutdown ==
    /\ alive /\ pc \in Terminal /\ now > Last(markers).ts
    /\ alive' = FALSE
    /\ fileOpen' = FALSE
    /\ markers' = Append(markers, Marker("end", now))
    /\ abandoned' = IF disconnect = NoTime THEN abandoned
                    ELSE abandoned \cup {t \in missed : t >= disconnect - Grace}
    /\ UNCHANGED <<now, process, gaps, raw, fileHour, history>>

(* The process dies without its finally block.                             *)
Crash ==
    /\ alive
    /\ alive' = FALSE
    /\ UNCHANGED <<vars, markers, abandoned>>

(* systemd starts the next process: a start marker and a fresh run().      *)
(* Starting takes time: no two markers have the same timestamp.            *)
Restart ==
    /\ ~alive /\ now > Last(markers).ts
    /\ Cardinality({i \in DOMAIN markers : markers[i].event = "start"}) < MaxLives
    /\ alive' = TRUE
    /\ markers' = Append(markers, Marker("start", now))
    /\ stop' = FALSE /\ pc' = "connecting" /\ attempt' = 0 /\ disconnect' = NoTime
    /\ fileHour' = NoTime /\ fileOpen' = FALSE
    /\ since' = NoTime /\ observed' = FALSE
    /\ UNCHANGED <<now, gaps, raw, missed, steady, abandoned>>

DeadTick ==
    /\ ~alive /\ now < MaxTime
    /\ now' = now + 1
    /\ missed' = missed \cup {now}
    /\ UNCHANGED <<process, files, since, observed, steady, session>>

TimelineNext == Run \/ Shutdown \/ Crash \/ Restart \/ DeadTick

TimelineSpec == TimelineInit /\ [][TimelineNext]_timeVars
-----------------------------------------------------------------------------
TimelineTypeOK ==
    /\ TypeOK /\ alive \in BOOLEAN /\ abandoned \subseteq missed
    /\ markers \in Seq([event : {"start", "end"}, ts : Time])

(* all_gaps of validate_venue_day: the feed gaps on disk and the downtime  *)
(* gaps derived from the markers.                                          *)
FeedGaps == ToSet(gaps)
DowntimeGaps == {g.window : g \in DeriveGaps(markers, raw)}
AllGaps == FeedGaps \cup DowntimeGaps

OnTimeline(t, windows) == \E w \in windows : Begin(w) - Grace <= t /\ t < End(w)
LastStart == Max({m.ts : m \in {n \in ToSet(markers) : n.event = "start"}})

(* What validation sees of the past lives of the recorder is the whole     *)
(* truth but for outages that a shutdown cut short: across drops, refused  *)
(* writes, crashes and restarts, every tick without capture is in a gap    *)
(* record or precedes one by less than a timeout, until a clean close or a *)
(* step of the clock.                                                      *)
PastLossesOnTimeline ==
    LET windows == AllGaps
    IN  steady => \A t \in missed \ abandoned : t < LastStart => OnTimeline(t, windows)

(* The same without the exception: what replay.py needs for the coverage   *)
(* numerator and denominator to agree on what a gap is.                    *)
TimelineComplete == \A t \in missed : t < LastStart => OnTimeline(t, AllGaps)

(* No captured message lies strictly inside a feed or a downtime gap.      *)
DataOutsideAllGaps ==
    steady => \A w \in AllGaps : \A t \in raw : ~(Begin(w) < t /\ t < End(w))
-----------------------------------------------------------------------------
CONSTANTS
    Procs,                               \* recorder processes
    FileTicks, HourTicks, HourLines      \* RawFiles
Symmetry == Permutations(Procs)

VARIABLES
    part,
    clock, status, stamp, lines, received, died, dead,   \* SessionMarkers
    tick, lives, running, hourKey, isOpen, hourFiles, written, broken   \* RawFiles

Sessions == INSTANCE SessionMarkers WITH
    Overlap <- FALSE, now <- clock, markers <- lines, raw <- received
Files == INSTANCE RawFiles WITH
    MaxTime <- FileTicks, HourLen <- HourTicks, MaxLines <- HourLines, Crashes <- TRUE,
    now <- tick, files <- hourFiles

ASSUME PartsAssumption == Sessions!SessionAssumption /\ Files!FilesAssumption

sessionVars == <<clock, status, stamp, lines, received, died, dead>>
fileVars == <<tick, lives, running, hourKey, isOpen, hourFiles, written, broken>>

CaptureInit ==
    /\ part \in {"timeline", "sessions", "files"}
    /\ TimelineInit /\ Sessions!Init /\ Files!Init
CaptureNext ==
    /\ UNCHANGED part
    /\ \/ part = "timeline" /\ TimelineNext /\ UNCHANGED <<sessionVars, fileVars>>
       \/ part = "sessions" /\ Sessions!Next /\ UNCHANGED <<timeVars, fileVars>>
       \/ part = "files" /\ Files!Next /\ UNCHANGED <<timeVars, sessionVars>>
captureVars == <<part, timeVars, sessionVars, fileVars>>
CaptureSpec == CaptureInit /\ [][CaptureNext]_captureVars

(* Derived downtime is the truth about when no recorder ran: it covers     *)
(* every dead tick between two session starts and swallows no message.     *)
DowntimeIsTrue ==
    part = "sessions" => Sessions!DeadTimeCovered /\ Sessions!NoDataInDowntime

(* It never conflates the causes, in whatever order racing markers landed: *)
(* an unclean gap holds a death, and no death passes as a planned stop.    *)
CausesApart ==
    part = "sessions" => Sessions!UncleanMeansDeath /\ Sessions!DeathNeverClean

(* Hour files read back what they were given, unless a crash cut them, and *)
(* a day reads back in receive order across rotations and restarts.        *)
FilesReadBack ==
    part = "files" => Files!HourReadsBack /\ Files!DayInReceiveOrder

(* A finished frame is never touched again: raw data is immutable.         *)
ClosedFramesImmutable == Files!ClosedFramesImmutable
=============================================================================
