-------------------------- MODULE RecorderService --------------------------
(***************************************************************************)
(* One process of the recorder service, run_service                        *)
(* (data/recorder/service.py): start markers, one capture task per venue,  *)
(* the heartbeat task with its disk probe, and the finally block that      *)
(* closes the writers and appends the end markers.  A capture task is the  *)
(* run() of VenueRecorder seen from outside: it stores frames, returns     *)
(* once stop is set, or raises.                                            *)
(*                                                                         *)
(* The tasks share one event loop: only an await lets another task run, so *)
(* the loops over writers and markers are not interleaved with captures,   *)
(* but the process can die, or a file fail, between two of their steps.    *)
(***************************************************************************)
EXTENDS Integers, Sequences, SequencesExt

CONSTANTS
    Keys,       \* the venue keys, in the order the service walks them
    Limit,      \* recorder.dry_run_messages
    Faults      \* a subset of FaultKinds

FaultKinds == {"raise", "probe", "close", "marker", "kill", "hour_turn"}
Venues == ToSet(Keys)

ServiceAssumption ==
    /\ Keys \in Seq(Venues) /\ Keys # <<>>
    /\ \A i, j \in DOMAIN Keys : Keys[i] = Keys[j] => i = j
    /\ Limit \in Nat \ {0} /\ Faults \subseteq FaultKinds

VARIABLES
    dryRun,     \* --dry-run, fixed when the process starts
    main,       \* where run_service is
    todo,       \* venues its current for loop has still to visit
    stop,       \* the shared asyncio.Event
    task,       \* the capture task of each venue
    heartbeat,  \* the heartbeat task
    writer,     \* RawFileWriter of each venue: none, open or closed
    printed,    \* dry-run messages printed, over all venues
    marks,      \* session markers of this process, per venue
    late        \* history: venues that stored a frame after their end marker

vars == <<dryRun, main, todo, stop, task, heartbeat, writer, printed, marks, late>>

Gone == {"exited", "failed", "killed"}

Init ==
    /\ dryRun \in BOOLEAN
    /\ main = "starting" /\ todo = (IF dryRun THEN <<>> ELSE Keys)
    /\ stop = FALSE /\ heartbeat = "none"
    /\ task = [v \in Venues |-> "none"]
    /\ writer = [v \in Venues |-> "none"]
    /\ printed = 0
    /\ marks = [v \in Venues |-> {}] /\ late = {}
-----------------------------------------------------------------------------
(* sessions.log for the next venue of a loop over the session loggers.     *)
LogMark(event) ==
    /\ todo # <<>>
    /\ marks' = [marks EXCEPT ![Head(todo)] = @ \cup {event}]
    /\ todo' = Tail(todo)

LogStart ==
    /\ main = "starting" /\ LogMark("start")
    /\ UNCHANGED <<dryRun, main, stop, task, heartbeat, writer, printed, late>>

StartTasks ==
    /\ main = "starting" /\ todo = <<>>
    /\ main' = "gathering"
    /\ task' = [v \in Venues |-> "running"]
    /\ heartbeat' = "waiting"
    /\ UNCHANGED <<dryRun, todo, stop, writer, printed, marks, late>>

(* The gather ends when every task returned or as soon as one raised; the  *)
(* finally block sets stop and waits for the heartbeat task.               *)
AllReturned == \A v \in Venues : task[v] = "returned"
SomeRaised == \E v \in Venues : task[v] = "raised"

GatherAllEnds ==    \* a slip: waiting for all the tasks even when one raised
    /\ main = "gathering" /\ AllReturned
    /\ main' = "awaiting" /\ stop' = TRUE
    /\ UNCHANGED <<dryRun, todo, task, heartbeat, writer, printed, marks, late>>
GatherEnds ==
    /\ main = "gathering" /\ (AllReturned \/ SomeRaised)
    /\ main' = "awaiting" /\ stop' = TRUE
    /\ UNCHANGED <<dryRun, todo, task, heartbeat, writer, printed, marks, late>>

(* The heartbeat task has ended; if it raised, so does the await, and the  *)
(* rest of the finally block is skipped.                                   *)
MarksBeforeClosing ==    \* a slip: the end markers before the writers
    /\ main = "awaiting" /\ heartbeat = "done"
    /\ main' = "marking" /\ todo' = (IF dryRun THEN <<>> ELSE Keys)
    /\ UNCHANGED <<dryRun, stop, task, heartbeat, writer, printed, marks, late>>
HeartbeatAwaited ==
    /\ main = "awaiting" /\ heartbeat = "done"
    /\ main' = "closing" /\ todo' = Keys
    /\ UNCHANGED <<dryRun, stop, task, heartbeat, writer, printed, marks, late>>

HeartbeatRaises ==
    /\ main = "awaiting" /\ heartbeat = "raised"
    /\ main' = "failed"
    /\ UNCHANGED <<dryRun, todo, stop, task, heartbeat, writer, printed, marks, late>>

CloseWriter ==
    /\ main = "closing" /\ todo # <<>>
    /\ writer' = [writer EXCEPT ![Head(todo)] = IF @ = "open" THEN "closed" ELSE @]
    /\ todo' = Tail(todo)
    /\ UNCHANGED <<dryRun, main, stop, task, heartbeat, printed, marks, late>>

WritersClosed ==
    /\ main = "closing" /\ todo = <<>>
    /\ main' = "marking" /\ todo' = (IF dryRun THEN <<>> ELSE Keys)
    /\ UNCHANGED <<dryRun, stop, task, heartbeat, writer, printed, marks, late>>

LogEnd ==
    /\ main = "marking" /\ LogMark("end")
    /\ UNCHANGED <<dryRun, main, stop, task, heartbeat, writer, printed, late>>

(* run_service is over, normally or with the exception of a capture task.  *)
Exit ==
    /\ main = "marking" /\ todo = <<>>
    /\ main' = "exited"
    /\ UNCHANGED <<dryRun, todo, stop, task, heartbeat, writer, printed, marks, late>>

(* A file operation of one of the loops raises OSError: the loop ends.     *)
FileFails ==
    /\ \/ "close" \in Faults /\ main = "closing" /\ todo # <<>> /\ writer[Head(todo)] = "open"
       \/ "marker" \in Faults /\ main \in {"starting", "marking"} /\ todo # <<>>
    /\ main' = "failed"
    /\ UNCHANGED <<dryRun, todo, stop, task, heartbeat, writer, printed, marks, late>>
-----------------------------------------------------------------------------
(* Capture tasks and the heartbeat run while run_service is suspended.     *)
Suspended == main \in {"gathering", "awaiting"}

(* A frame arrives and is written; with stop set the task then returns.    *)
StoreFrame(v) ==
    /\ Suspended /\ ~dryRun /\ task[v] = "running"
    /\ writer' = [writer EXCEPT ![v] = "open"]
    /\ task' = IF stop THEN [task EXCEPT ![v] = "returned"] ELSE task
    /\ UNCHANGED <<dryRun, main, todo, stop, heartbeat, printed, marks, late>>

(* A frame arrives in a dry run: the shared limiter grants a print slot or *)
(* not; once it is exhausted the task stops the service.                   *)
PrintFrame(v) ==
    /\ Suspended /\ dryRun /\ task[v] = "running"
    /\ printed' = IF printed < Limit THEN printed + 1 ELSE printed
    /\ stop' = (stop \/ printed' >= Limit)
    /\ task' = IF stop' THEN [task EXCEPT ![v] = "returned"] ELSE task
    /\ UNCHANGED <<dryRun, main, todo, heartbeat, writer, marks, late>>

Return(v) ==
    /\ Suspended /\ stop /\ task[v] = "running"
    /\ task' = [task EXCEPT ![v] = "returned"]
    /\ UNCHANGED <<dryRun, main, todo, stop, heartbeat, writer, printed, marks, late>>

Raise(v) ==
    /\ "raise" \in Faults /\ Suspended /\ task[v] = "running"
    /\ task' = [task EXCEPT ![v] = "raised"]
    /\ UNCHANGED <<dryRun, main, todo, stop, heartbeat, writer, printed, marks, late>>

(* run_service has ended but the event loop finishes its iteration before  *)
(* it cancels the tasks still running: one may store a last frame.  Its    *)
(* writer is closed: within the hour that raises, in a new hour it rotates *)
(* to a new file.                                                          *)
LateFrame(v) ==
    /\ main = "exited" /\ ~dryRun /\ task[v] = "running"
    /\ \/ /\ task' = [task EXCEPT ![v] = "raised"]
          /\ UNCHANGED <<writer, late>>
       \/ /\ "hour_turn" \in Faults
          /\ writer' = [writer EXCEPT ![v] = "open"]
          /\ late' = late \cup {v}
          /\ task' = [task EXCEPT ![v] = "cancelled"]
    /\ UNCHANGED <<dryRun, main, todo, stop, heartbeat, printed, marks>>

CancelTask(v) ==
    /\ main \in {"exited", "failed"} /\ task[v] = "running"
    /\ task' = [task EXCEPT ![v] = "cancelled"]
    /\ UNCHANGED <<dryRun, main, todo, stop, heartbeat, writer, printed, marks, late>>

(* The heartbeat wakes at its interval or on stop, probes the disk and     *)
(* logs; it ends when stop is set.                                         *)
HeartbeatEnds ==
    /\ Suspended /\ heartbeat = "waiting" /\ stop
    /\ heartbeat' = "done"
    /\ UNCHANGED <<dryRun, main, todo, stop, task, writer, printed, marks, late>>

ProbeFails ==
    /\ "probe" \in Faults
    /\ Suspended /\ heartbeat = "waiting"
    /\ heartbeat' = "raised"
    /\ UNCHANGED <<dryRun, main, todo, stop, task, writer, printed, marks, late>>

(* SIGINT or SIGTERM, and a death that runs no finally block.              *)
Signal ==
    /\ Suspended /\ ~stop /\ stop' = TRUE
    /\ UNCHANGED <<dryRun, main, todo, task, heartbeat, writer, printed, marks, late>>

Kill ==
    /\ "kill" \in Faults /\ main \notin Gone
    /\ main' = "killed"
    /\ task' = [v \in Venues |-> "cancelled"]
    /\ UNCHANGED <<dryRun, todo, stop, heartbeat, writer, printed, marks, late>>

Main == \/ LogStart \/ StartTasks \/ GatherEnds \/ HeartbeatAwaited \/ HeartbeatRaises
        \/ CloseWriter \/ WritersClosed \/ LogEnd \/ Exit

Next == \/ Main \/ FileFails \/ HeartbeatEnds \/ ProbeFails \/ Signal \/ Kill
        \/ \E v \in Venues : \/ StoreFrame(v) \/ PrintFrame(v) \/ Return(v) \/ Raise(v)
                             \/ LateFrame(v) \/ CancelTask(v)

(* The event loop runs every ready task; a capture task that should return *)
(* does (StopEndsRun of VenueRecorder).                                    *)
Spec == /\ Init /\ [][Next]_vars
        /\ WF_vars(Main) /\ WF_vars(HeartbeatEnds)
        /\ \A v \in Venues : WF_vars(Return(v))
-----------------------------------------------------------------------------
TypeOK ==
    /\ dryRun \in BOOLEAN
    /\ main \in {"starting", "gathering", "awaiting", "closing", "marking"} \cup Gone
    /\ \E i \in 0..Len(Keys) : todo = SubSeq(Keys, i + 1, Len(Keys))
    /\ stop \in BOOLEAN
    /\ task \in [Venues -> {"none", "running", "returned", "raised", "cancelled"}]
    /\ heartbeat \in {"none", "waiting", "done", "raised"}
    /\ writer \in [Venues -> {"none", "open", "closed"}]
    /\ printed \in 0..Limit
    /\ marks \in [Venues -> SUBSET {"start", "end"}] /\ late \subseteq Venues

(* An end marker is a statement about the files: once any venue has one,   *)
(* every venue's frames are finished, whichever task raised, whichever     *)
(* file failed and whenever the process died (order of the finally block). *)
(* The exception is a file that LateFrame opened behind the markers.       *)
EndMarkerMeansClosed ==
    \A v \in Venues : "end" \in marks[v] =>
        \A u \in Venues \ late : writer[u] # "open"

(* A dry run leaves no trace on disk and prints no more than its budget,   *)
(* however the venues share it.                                            *)
DryRunLeavesNoTrace ==
    dryRun => \A v \in Venues : marks[v] = {} /\ writer[v] = "none"

(* One venue's unexpected failure or a signal brings the whole service     *)
(* down, so that systemd restarts it: no venue's failure is a silent stop. *)
FailureEndsService == (stop \/ SomeRaised) ~> main \in Gone
-----------------------------------------------------------------------------
(* What the documentation says and the code does not keep.  An advisory    *)
(* probe has no effect on recording: a service that ends by itself has     *)
(* finished every frame (DiskGuard; HeartbeatRaises breaks it).            *)
ExitFinishesFrames == main \in {"exited", "failed"} => \A v \in Venues : writer[v] # "open"

(* A graceful shutdown writes an end marker for every venue (module        *)
(* docstring of sessions.py; a failing close or append breaks it).         *)
GracefulShutdownMarks ==
    main \in {"exited", "failed"} /\ ~dryRun /\ task # [v \in Venues |-> "none"]
        => \A v \in Venues : "end" \in marks[v]

(* The markers bound the recorder's lifetime: nothing is stored after end  *)
(* (comment in run_service; LateFrame breaks it).                          *)
NothingAfterEndMarker == late = {}
=============================================================================
