--------------------------- MODULE MCOperations ---------------------------
(***************************************************************************)
(* What runs beside the capture loop, one part per behaviour: the recorder *)
(* service, the desktop shell that starts and stops processes, its log     *)
(* tailer, the telemetry store, and what the status command sees.          *)
(***************************************************************************)
EXTENDS Integers, Sequences

CONSTANTS
    Configured, Limit, Faults,                             \* RecorderService
    Kinds, MaxStarts, LogLimit, MaxLines, MaxRotations,    \* DesktopProcesses
    Probed, DayTicks, LastTick, MaxRows, StoreLives,       \* TelemetryStore
    Watched, Interval, Repeat, LastWatch, HealthLives      \* RecorderHealth
MCKeys == <<"coinbase", "hyperliquid">>
MCProbed == <<"a", "b">>

VARIABLES
    part,
    dryRun, main, todo, stop, task, heartbeat, writer, printed, marks, late,
    asked, shown, window, procs, stopping, toStop, kindOf, wrapper, service, killed,
    file, written, rotations, position, reading, entries, skipped, emitted,
    now, lives, step, venue, buffers, toWrite, writing, disk, rows, latest, flushed,
    clock, starts, recorded, beating, wakes, beats, heard, seen, space, lastLevel, lastLogged

Service == INSTANCE RecorderService WITH Keys <- Configured
Desktop == INSTANCE DesktopProcesses
Telemetry == INSTANCE TelemetryStore WITH Venues <- Probed, MaxLives <- StoreLives
Health == INSTANCE RecorderHealth WITH
    Venues <- Watched, LastTick <- LastWatch, MaxLives <- HealthLives,
    now <- clock, lives <- starts, disk <- space

ASSUME PartsAssumption ==
    /\ Service!ServiceAssumption /\ Desktop!TailAssumption
    /\ Telemetry!StoreAssumption /\ Health!HealthAssumption

serviceVars == <<dryRun, main, todo, stop, task, heartbeat, writer, printed, marks, late>>
desktopVars == <<asked, shown, window, procs, stopping, toStop, kindOf, wrapper, service, killed>>
tailVars == <<file, written, rotations, position, reading, entries, skipped, emitted>>
storeVars == <<now, lives, step, venue, buffers, toWrite, writing, disk, rows, latest, flushed>>
healthVars == <<clock, starts, recorded, beating, wakes, beats, heard, seen, space,
                lastLevel, lastLogged>>
vars == <<part, serviceVars, desktopVars, tailVars, storeVars, healthVars>>

Init ==
    /\ part \in {"service", "desktop", "tail", "store", "health"}
    /\ Service!Init /\ Desktop!Init /\ Desktop!TailInit /\ Telemetry!Init /\ Health!Init
    /\ part # "service" => ~dryRun
    /\ part # "tail" => file = <<>>
Next ==
    /\ UNCHANGED part
    /\ \/ /\ part = "service" /\ Service!Next
          /\ UNCHANGED <<desktopVars, tailVars, storeVars, healthVars>>
       \/ /\ part = "desktop" /\ Desktop!Next
          /\ UNCHANGED <<serviceVars, tailVars, storeVars, healthVars>>
       \/ /\ part = "tail" /\ Desktop!TailNext
          /\ UNCHANGED <<serviceVars, desktopVars, storeVars, healthVars>>
       \/ /\ part = "store" /\ Telemetry!Next
          /\ UNCHANGED <<serviceVars, desktopVars, tailVars, healthVars>>
       \/ /\ part = "health" /\ Health!Next
          /\ UNCHANGED <<serviceVars, desktopVars, tailVars, storeVars>>

(* The fairness of RecorderService and of DesktopProcesses, for the part   *)
(* that runs.                                                              *)
Returning(v) == part = "service" /\ Service!Return(v)
Answering(k) ==
    /\ part = "desktop"
    /\ Desktop!StartRefused(k) \/ Desktop!Start(k) \/ Desktop!StopNone(k) \/ Desktop!Stop(k)
Fairness ==
    /\ WF_serviceVars(part = "service" /\ Service!Main)
    /\ WF_serviceVars(part = "service" /\ Service!HeartbeatEnds)
    /\ \A v \in Service!Venues : WF_serviceVars(Returning(v))
    /\ WF_desktopVars(part = "desktop" /\ (Desktop!ChildExited \/ Desktop!GraceExpires))
    /\ WF_desktopVars(part = "desktop" /\ Desktop!StopNext)
    /\ WF_desktopVars(part = "desktop" /\ Desktop!Exit)
    /\ \A k \in Kinds : SF_desktopVars(Answering(k))
Spec == Init /\ [][Next]_vars /\ Fairness

(* An end marker is a statement about the files: once any venue has one,   *)
(* every venue's frames are finished, whichever task raised, whichever     *)
(* file failed and whenever the process died (order of the finally block). *)
EndMarkerMeansClosed == part = "service" => Service!EndMarkerMeansClosed

(* One venue's failure, or a signal, always brings the service down.       *)
FailureEndsService == Service!FailureEndsService

(* Every service that writes is known to the shell, unless the grace ran   *)
(* out on its wrapper: no two of a kind write to the same files.           *)
ServicesAreOwned == part = "desktop" => Desktop!ServicesAreOwned

(* No command of the shell stays unanswered while its window is open.      *)
CommandsAnswered == Desktop!CommandsAnswered

(* Day files only grow and hold each sample once, across restarts, crashes *)
(* between writes, midnight, and a clock that steps back; the latency      *)
(* chart shows nothing that is not in them.                                *)
DayFilesGrow == Telemetry!DayFilesGrow

(* What the operator is shown is true: an absent venue is never healthy,   *)
(* whatever older log lines say, a lasting disk shortage is repeated, and  *)
(* the log view emits every piece once, in whatever pieces it meets them.  *)
OperatorSeesTruth ==
    /\ part = "health" => Health!AbsenceShows /\ Health!ShortageRepeated
    /\ part = "tail" => Desktop!EveryPieceOnce
=============================================================================
