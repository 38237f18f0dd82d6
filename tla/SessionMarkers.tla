--------------------------- MODULE SessionMarkers --------------------------
(***************************************************************************)
(* Recorder processes that follow one another on one venue directory: each *)
(* stamps and appends a start marker, records, and either stamps and       *)
(* appends an end marker or dies (data/recorder/service.py run_service,    *)
(* data/recorder/sessions.py).  A marker is appended after its timestamp   *)
(* is read, so two processes race for the order of the lines.              *)
(***************************************************************************)
EXTENDS TimeWindows

CONSTANTS
    Procs,      \* processes of the run
    MaxTime,    \* bound: the clock stops here
    Overlap     \* may a process start while an earlier one still records?

SessionAssumption == MaxTime \in Nat /\ Overlap \in BOOLEAN

VARIABLES
    now,        \* time.time_ns()
    status,     \* where each process is in run_service
    stamp,      \* the timestamp it has read for its current marker
    markers,    \* lines of sessions.jsonl, in file order
    raw,        \* receive times of the messages on disk
    died,       \* history: when a process that left a start marker and died
                \* stopped recording, else Absent
    dead        \* history: ticks in which no process was recording

vars == <<now, status, stamp, markers, raw, died, dead>>

Recording == {"starting", "up"}

Init ==
    /\ now = 0 /\ markers = <<>> /\ raw = {} /\ dead = {}
    /\ status = [p \in Procs |-> "unborn"]
    /\ stamp = [p \in Procs |-> Absent]
    /\ died = [p \in Procs |-> Absent]

(* A process starts and reads the time of its start marker.                *)
Start(p) ==
    /\ status[p] = "unborn"
    /\ Overlap \/ \A q \in Procs : status[q] \notin Recording
    /\ status' = [status EXCEPT ![p] = "starting"]
    /\ stamp' = [stamp EXCEPT ![p] = now]
    /\ UNCHANGED <<now, markers, raw, died, dead>>

LogStart(p) ==
    /\ status[p] = "starting"
    /\ markers' = Append(markers, Marker("start", stamp[p]))
    /\ status' = [status EXCEPT ![p] = "up"]
    /\ UNCHANGED <<now, stamp, raw, died, dead>>

Record(p) ==
    /\ status[p] = "up"
    /\ raw' = raw \cup {now}
    /\ UNCHANGED <<now, status, stamp, markers, died, dead>>

(* Graceful shutdown: writers are closed, then end_ns is read.  A session  *)
(* takes time: its end_ns is later than its start_ns.                      *)
Stop(p) ==
    /\ status[p] = "up" /\ now > stamp[p]
    /\ status' = [status EXCEPT ![p] = "ending"]
    /\ stamp' = [stamp EXCEPT ![p] = now]
    /\ UNCHANGED <<now, markers, raw, died, dead>>

LogEnd(p) ==
    /\ status[p] = "ending"
    /\ markers' = Append(markers, Marker("end", stamp[p]))
    /\ status' = [status EXCEPT ![p] = "ended"]
    /\ UNCHANGED <<now, stamp, raw, died, dead>>

(* Power loss, OOM kill or SIGKILL, at any point of a process's life.      *)
Die(p) ==
    /\ status[p] \in {"starting", "up", "ending"}
    /\ status' = [status EXCEPT ![p] = "crashed"]
    /\ died' = [died EXCEPT ![p] = CASE status[p] = "starting" -> Absent
                                      [] status[p] = "up" -> now
                                      [] status[p] = "ending" -> stamp[p]]
    /\ UNCHANGED <<now, stamp, markers, raw, dead>>

Tick ==
    /\ now < MaxTime
    /\ now' = now + 1
    /\ dead' = IF \A p \in Procs : status[p] \notin Recording
                 THEN dead \cup {now} ELSE dead
    /\ UNCHANGED <<status, stamp, markers, raw, died>>

Next == \/ Tick
        \/ \E p \in Procs : \/ Start(p) \/ LogStart(p) \/ Record(p)
                            \/ Stop(p) \/ LogEnd(p) \/ Die(p)

Spec == Init /\ [][Next]_vars
-----------------------------------------------------------------------------
Statuses == {"unborn", "starting", "up", "ending", "ended", "crashed"}

TypeOK ==
    /\ now \in 0..MaxTime /\ status \in [Procs -> Statuses]
    /\ stamp \in [Procs -> 0..MaxTime \cup {Absent}]
    /\ markers \in Seq([event : {"start", "end"}, ts : 0..MaxTime])
    /\ raw \subseteq 0..MaxTime /\ dead \subseteq 0..MaxTime
    /\ died \in [Procs -> 0..MaxTime \cup {Absent}]

Derived == DeriveGaps(markers, raw)
Windows(kind) == {g.window : g \in {h \in Derived : h.kind = kind}}

(* Validation reads the sidecar when no process is between reading a       *)
(* timestamp and appending it.                                             *)
Settled == \A p \in Procs : status[p] \notin {"starting", "ending"}
StartTimes == {m.ts : m \in {n \in ToSet(markers) : n.event = "start"}}

(* Time without a recorder is never mistaken for coverage: every dead tick *)
(* between two session starts lies in a derived gap.                       *)
DeadTimeCovered ==
    LET covered == TicksOf(Windows("downtime") \cup Windows("unclean"))
    IN  StartTimes # {} =>
            \A t \in dead : Min(StartTimes) <= t /\ t < Max(StartTimes) => t \in covered

(* Causes are never conflated: an unclean gap contains the death of some   *)
(* process, whatever the order in which racing markers reached the file.   *)
UncleanMeansDeath ==
    Settled => \A w \in Windows("unclean") :
                   \E p \in Procs : Begin(w) <= died[p] /\ died[p] <= End(w)

(* A process that died while recording never passes as a planned stop: no  *)
(* clean downtime gap covers the tick at which it died.                    *)
DeathNeverClean ==
    LET planned == Windows("downtime")
    IN  \A p \in Procs : died[p] \notin TicksOf({w \in planned : Begin(w) < died[p]})

(* Derived downtime never swallows data: no message was received strictly  *)
(* inside a gap in which, it says, no recorder ran.                        *)
NoDataInDowntime ==
    Settled => \A w \in Windows("downtime") \cup Windows("unclean") :
                   \A t \in raw : ~(Begin(w) < t /\ t < End(w))
=============================================================================
