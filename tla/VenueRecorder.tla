--------------------------- MODULE VenueRecorder ---------------------------
(***************************************************************************)
(* One venue's capture loop, VenueRecorder.run (data/recorder/base.py),    *)
(* with the file handle it writes to (data/recorder/writer.py) and the gap *)
(* sidecar it appends to (data/recorder/gaps.py).  Time is a tick counter. *)
(*                                                                         *)
(* The history variables `missed`, `since`, `observed` and `steady` are    *)
(* not in the code: they record when the venue's feed was really not being *)
(* captured, so that what the sidecar says can be compared with what       *)
(* happened.                                                               *)
(***************************************************************************)
EXTENDS TimeWindows

CONSTANTS
    MaxTime,      \* bound: the clock of a run stops here
    MaxGaps,      \* bound: nothing new fails once this many gaps are logged
    HourLen,      \* ticks per hour file
    ExpLimit,     \* largest exponent 2**attempt a float product takes (1023)
    PingBound,    \* ticks until the keepalive fails a silent connection
    CloseBound,   \* ticks the closing handshake of `async with` may take
    Faults        \* what the environment may do, a subset of FaultKinds

FaultKinds == {"drop", "silent", "disk", "clean_close", "clock_step"}

ASSUME RecorderAssumption ==
    /\ MaxTime \in Nat /\ MaxGaps \in Nat /\ HourLen \in Nat \ {0} 
    /\ ExpLimit \in Nat /\ PingBound \in Nat /\ CloseBound \in Nat
    /\ Faults \subseteq FaultKinds

VARIABLES
    now,         \* time.time_ns()
    stop,        \* the shared asyncio.Event
    pc,          \* where run() is suspended
    attempt,     \* backoff exponent
    disconnect,  \* disconnect_ns
    gaps,        \* lines of gaps.jsonl, in file order
    raw,         \* recv_ns of the messages written
    fileHour,    \* RawFileWriter._hour_key
    fileOpen,    \* RawFileWriter._writer is not None
    since,       \* history: start of a loss the recorder has not noticed yet
    observed,    \* history: the first connection or failure has happened
    missed,      \* history: ticks during which the feed was not captured
    steady       \* history: no clean close and no clock step so far

process == <<stop, pc, attempt, disconnect>>
files == <<gaps, raw, fileHour, fileOpen>>
history == <<since, observed, missed, steady>>
vars == <<now, process, files, history>>

NoTime == -1
Time == Nat
Terminal == {"returned", "raised"}
Places == {"connecting", "subscribing", "reading", "aborting", "leaving",
           "backoff"} \cup Terminal

Grace == IF PingBound > CloseBound THEN PingBound ELSE CloseBound
Hour(t) == t \div HourLen

Init ==
    /\ now = 0 /\ stop = FALSE
    /\ pc = "connecting" /\ attempt = 0 /\ disconnect = NoTime
    /\ gaps = <<>> /\ raw = {} /\ fileHour = NoTime /\ fileOpen = FALSE
    /\ since = NoTime /\ observed = FALSE /\ missed = {} /\ steady = TRUE
-----------------------------------------------------------------------------
(* What follows the try statement of the loop: leave it when stop is set,  *)
(* else back off.                                                          *)
AfterTry == IF stop THEN "returned" ELSE "backoff"

(* A slip: every failure restarts the outage.                              *)
HandleFailureRestarts ==
    /\ disconnect' = now
    /\ pc' = AfterTry
    /\ since' = NoTime
    /\ observed' = TRUE

(* The handler of OSError, WebSocketException and TimeoutError: the start  *)
(* of an outage is remembered once, whatever fails later during it.        *)
HandleFailure ==
    /\ disconnect' = IF disconnect = NoTime THEN now ELSE disconnect
    /\ pc' = AfterTry
    /\ since' = NoTime
    /\ observed' = TRUE

(* An exception raised while the socket is still up: `async with` runs its *)
(* closing handshake before the handler reads the clock.                   *)
Abort ==
    /\ pc' = "aborting"
    /\ since' = now

ConnectFails ==
    /\ pc = "connecting"
    /\ HandleFailure
    /\ UNCHANGED <<now, stop, attempt, files, missed, steady>>

(* The socket opens with no outage pending.                                *)
ConnectFirst ==
    /\ pc = "connecting" /\ disconnect = NoTime
    /\ pc' = "subscribing"
    /\ attempt' = 0
    /\ UNCHANGED <<now, stop, disconnect, files, history>>

(* A slip: the outage is not cleared.                                      *)
ReconnectKeepsOutage ==
    /\ pc = "connecting" /\ disconnect # NoTime /\ now >= disconnect
    /\ gaps' = Append(gaps, <<disconnect, now>>)
    /\ attempt' = 0
    /\ pc' = "subscribing"
    /\ UNCHANGED <<now, stop, disconnect, raw, fileHour, fileOpen, history>>

(* The socket opens after an outage: log_gap appends the window.           *)
Reconnect ==
    /\ pc = "connecting" /\ disconnect # NoTime /\ now >= disconnect
    /\ gaps' = Append(gaps, <<disconnect, now>>)
    /\ disconnect' = NoTime
    /\ attempt' = 0
    /\ pc' = "subscribing"
    /\ UNCHANGED <<now, stop, raw, fileHour, fileOpen, history>>

(* log_gap cannot append to the sidecar (OSError): the outage stays open.  *)
GapLogFails ==
    /\ "disk" \in Faults
    /\ pc = "connecting" /\ disconnect # NoTime /\ now >= disconnect
    /\ Abort
    /\ UNCHANGED <<now, stop, attempt, disconnect, files, observed, missed, steady>>

(* The clock went backwards over the outage: GapRecord refuses the window  *)
(* with NegativeGapError, a RuntimeError that the loop does not catch.     *)
NegativeGap ==
    /\ pc = "connecting" /\ disconnect # NoTime /\ now < disconnect
    /\ pc' = "raised"
    /\ UNCHANGED <<now, stop, attempt, disconnect, files, history>>

Subscribe ==
    /\ pc = "subscribing"
    /\ pc' = "reading"
    /\ observed' = TRUE
    /\ UNCHANGED <<now, stop, attempt, disconnect, files, since, missed, steady>>

(* What the environment may do, and the bound on how often.                *)
May(fault) == fault \in Faults /\ Len(gaps) < MaxGaps

(* The venue drops the connection, seen at once as an exception.           *)
VenueDrops ==
    /\ May("drop")
    /\ pc \in {"subscribing", "reading"} /\ since = NoTime
    /\ HandleFailure
    /\ UNCHANGED <<now, stop, attempt, files, missed, steady>>

(* The connection goes half-open: frames are lost and nothing is raised.   *)
LinkDies ==
    /\ May("silent")
    /\ pc = "reading" /\ since = NoTime
    /\ since' = now
    /\ UNCHANGED <<now, process, files, observed, missed, steady>>

KeepaliveFails ==
    /\ pc = "reading" /\ since # NoTime
    /\ HandleFailure
    /\ UNCHANGED <<now, stop, attempt, files, missed, steady>>

(* The venue closes with 1000 or 1001: the frame iterator just ends.       *)
VenueClosesCleanly ==
    /\ May("clean_close")
    /\ pc = "reading" /\ since = NoTime
    /\ pc' = AfterTry
    /\ steady' = FALSE
    /\ UNCHANGED <<now, stop, attempt, disconnect, files, since, observed, missed>>
-----------------------------------------------------------------------------
(* A frame arrives: RawFileWriter.write, then the check of stop.           *)
Frame == pc = "reading" /\ since = NoTime

(* The message is stored, in the open file or after a rotation.            *)
Capture ==
    /\ Frame
    /\ \/ fileHour # Hour(now)
       \/ fileOpen
    /\ fileHour' = Hour(now) /\ fileOpen' = TRUE
    /\ raw' = raw \cup {now}
    /\ IF stop THEN pc' = "leaving" /\ since' = now
               ELSE UNCHANGED <<pc, since>>
    /\ UNCHANGED <<now, stop, attempt, disconnect, gaps, observed, missed, steady>>

(* The file system refuses the write, the end of the old file, or the open *)
(* of the next hour's file: by then the rotation has closed the old file   *)
(* and kept the new hour key.                                              *)
CaptureFails ==
    /\ May("disk")
    /\ Frame
    /\ \/ fileHour # Hour(now) /\ fileHour' = Hour(now) /\ fileOpen' = FALSE
       \/ fileOpen /\ UNCHANGED <<fileHour, fileOpen>>
    /\ Abort
    /\ UNCHANGED <<now, stop, attempt, disconnect, gaps, raw, observed, missed, steady>>

(* The hour key is current but its file never opened: RuntimeError.        *)
WriterNotOpen ==
    /\ Frame
    /\ fileHour = Hour(now) /\ ~fileOpen
    /\ pc' = "raised"
    /\ UNCHANGED <<now, stop, attempt, disconnect, files, history>>

(* The closing handshake of `async with` ends.                             *)
AbortEnds ==
    /\ pc = "aborting"
    /\ HandleFailure
    /\ UNCHANGED <<now, stop, attempt, files, missed, steady>>

LeaveEnds ==
    /\ pc = "leaving"
    /\ pc' = AfterTry
    /\ since' = NoTime
    /\ UNCHANGED <<now, stop, attempt, disconnect, files, observed, missed, steady>>

(* A slip: no closer task is started.                                      *)
NoCloser == FALSE

(* _close_on_stop closes the socket and the frame iterator ends.           *)
CloseOnStop ==
    /\ stop /\ pc = "reading"
    /\ pc' = AfterTry
    /\ since' = NoTime
    /\ UNCHANGED <<now, stop, attempt, disconnect, files, observed, missed, steady>>

(* The jittered wait ends, by its timeout or because stop was set.         *)
BackoffEnds ==
    /\ pc = "backoff" /\ attempt <= ExpLimit
    /\ attempt' = attempt + 1
    /\ pc' = IF stop THEN "returned" ELSE "connecting"
    /\ UNCHANGED <<now, stop, disconnect, files, history>>

(* backoff_initial_s * 2**attempt no longer fits a float: OverflowError.   *)
BackoffOverflows ==
    /\ pc = "backoff" /\ attempt > ExpLimit
    /\ pc' = "raised"
    /\ UNCHANGED <<now, stop, attempt, disconnect, files, history>>
-----------------------------------------------------------------------------
SetStop ==
    /\ ~stop /\ stop' = TRUE
    /\ UNCHANGED <<now, pc, attempt, disconnect, files, history>>

Capturing == pc = "reading" /\ since = NoTime

(* One tick passes.  Subscribing takes no time; a silent connection and a  *)
(* closing handshake last no longer than their timeouts.                   *)
Tick ==
    /\ now < MaxTime
    /\ pc \notin Terminal \cup {"subscribing"}
    /\ pc = "reading" /\ since # NoTime => now - since < PingBound
    /\ pc \in {"aborting", "leaving"} => now - since < CloseBound
    /\ now' = now + 1
    /\ missed' = IF observed /\ ~Capturing THEN missed \cup {now} ELSE missed
    /\ UNCHANGED <<process, files, since, observed, steady>>

ClockStepsBack ==
    /\ "clock_step" \in Faults
    /\ now > 0 /\ now' = now - 1
    /\ steady' = FALSE
    /\ UNCHANGED <<process, files, since, observed, missed>>

Loop == \/ ConnectFails \/ ConnectFirst \/ Reconnect \/ GapLogFails
        \/ NegativeGap \/ Subscribe \/ KeepaliveFails
        \/ AbortEnds \/ LeaveEnds \/ CloseOnStop
        \/ BackoffEnds \/ BackoffOverflows

Environment == \/ VenueDrops \/ LinkDies \/ VenueClosesCleanly
               \/ Capture \/ CaptureFails \/ WriterNotOpen
               \/ SetStop \/ Tick \/ ClockStepsBack

Next == Loop \/ Environment

(* The event loop runs whatever of the recorder's own code is ready, and   *)
(* every await of it has a timeout.  Nothing is assumed of the venue.      *)
Spec == Init /\ [][Next]_vars /\ WF_vars(Loop)
-----------------------------------------------------------------------------
TimeOrNone == Time \cup {NoTime}

(* Every variable has its type.                                            *)
TypeOK ==
    /\ now \in Time /\ stop \in BOOLEAN /\ pc \in Places
    /\ attempt \in Nat /\ disconnect \in TimeOrNone
    /\ gaps \in Seq(Time \X Time) /\ raw \subseteq Time
    /\ fileHour \in TimeOrNone /\ fileOpen \in BOOLEAN
    /\ since \in TimeOrNone /\ observed \in BOOLEAN /\ missed \subseteq Time
    /\ steady \in BOOLEAN

(* A lost tick is accounted for by a logged gap, by the outage in progress *)
(* or by a loss not noticed yet.  A gap starts when the loss is noticed, so *)
(* a tick up to one timeout before its start counts as its own.            *)
InGap(t) == \E i \in DOMAIN gaps :
                Begin(gaps[i]) - Grace <= t /\ t < End(gaps[i])
Accounted(t) == \/ InGap(t)
                \/ disconnect # NoTime /\ disconnect - Grace <= t
                \/ since # NoTime /\ since <= t /\ now - since <= Grace

(* A feed gap is "written to gaps.jsonl at reconnect" (GapRecord): while   *)
(* run() is in its loop, no time without capture escapes the sidecar.      *)
(* VenueClosesCleanly breaks it.                                           *)
LossesInSidecar == pc \notin Terminal => \A t \in missed : Accounted(t)

(* Whatever the order of failures, retries and refused sidecar writes, no  *)
(* loss escapes the sidecar until a clean close or a step of the clock:    *)
(* base.py keeps the first disconnect_ns of an outage until it is logged.  *)
MissedAccounted == steady => LossesInSidecar

(* Data and gaps never contradict each other: no captured message lies     *)
(* strictly inside a window that gaps.jsonl declares missing.              *)
NoCaptureInsideGap ==
    steady => \A t \in raw : \A i \in DOMAIN gaps :
                  ~(Begin(gaps[i]) < t /\ t < End(gaps[i]))

(* gaps.jsonl is in time order and its windows do not overlap, as          *)
(* read_gaps ("oldest first") takes for granted.                           *)
GapsOldestFirst ==
    steady => \A i, j \in DOMAIN gaps : i < j => End(gaps[i]) <= Begin(gaps[j])

(* SIGTERM ends the capture loop from wherever it is suspended.            *)
StopEndsRun == stop ~> pc \in Terminal

(* Capture goes on until stop is set: no failure of the venue, of the disk *)
(* or of the clock ends the loop (docstring of run()).  NegativeGap,       *)
(* WriterNotOpen and BackoffOverflows each break it.                       *)
CaptureUntilStop == pc # "raised"
-----------------------------------------------------------------------------
(* The inductive invariant behind MissedAccounted, NoCaptureInsideGap and  *)
(* GapsOldestFirst.                                                        *)

(* An unnoticed loss exists only where the socket is held, and is recent.  *)
SinceRecent ==
    /\ pc \notin {"reading", "aborting", "leaving"} => since = NoTime
    /\ pc \in {"aborting", "leaving"} => since # NoTime
    /\ since # NoTime => since <= now /\ now - since <= Grace
    /\ pc = "leaving" => stop

(* Outside a connection an outage is pending, inside one none is.          *)
OutagePending ==
    /\ disconnect # NoTime => disconnect <= now
    /\ pc \in {"subscribing", "reading", "leaving"} => disconnect = NoTime
    /\ pc = "backoff" => observed
    /\ pc \in {"connecting", "backoff"} /\ observed => disconnect # NoTime

(* Nothing on disk is later than the clock, or than the pending outage.    *)
DiskInPast ==
    /\ \A t \in missed : t < now
    /\ \A i \in DOMAIN gaps :
           /\ Begin(gaps[i]) <= End(gaps[i])
           /\ End(gaps[i]) <= now
           /\ disconnect # NoTime => End(gaps[i]) <= disconnect
    /\ \A t \in raw : t <= now /\ (disconnect # NoTime => t <= disconnect)

IInv ==
    /\ TypeOK
    /\ steady => SinceRecent /\ OutagePending /\ DiskInPast
    /\ MissedAccounted /\ NoCaptureInsideGap /\ GapsOldestFirst
=============================================================================
