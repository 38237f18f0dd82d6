-------------------------- MODULE DesktopProcesses --------------------------
(***************************************************************************)
(* The desktop shell's supervision of the two Python services: the buttons *)
(* of the header (desktop/src/state/AppData.tsx), the commands they invoke *)
(* (desktop/src-tauri/src/lib.rs) and the ProcessManager behind its mutex  *)
(* (process.rs).  A child of the manager is the `uv` wrapper it spawned;   *)
(* the service that writes data is the wrapper's own child.  The log view  *)
(* of a service is a specification of its own, at the end.                 *)
(***************************************************************************)
EXTENDS Integers, Sequences, SequencesExt

CONSTANTS
    Kinds,        \* ProcKind: the recorder and the telemetry service
    MaxStarts     \* bound: processes spawned

VARIABLES
    asked,        \* command invoked and not yet answered, per kind, or Nothing
    shown,        \* status: is the kind shown as running?
    window,       \* "open", "closing" once Destroyed is handled, "gone"
    procs,        \* ProcessManager.procs: the child of a kind, or NoChild
    stopping,     \* the child stop() waits for with the mutex held, or NoChild
    toStop,       \* stop_all: kinds left
    kindOf,       \* kind each child was spawned for, a sequence
    wrapper,      \* of each child: "up" or "gone"
    service,      \* of each child: "none", "up", "ending" or "gone"
    killed        \* history: children stop() killed after STOP_GRACE

ui == <<asked, shown>>
manager == <<procs, stopping, toStop>>
os == <<kindOf, wrapper, service, killed>>
vars == <<ui, window, manager, os>>

Nothing == "nothing"
NoChild == 0
Children == DOMAIN kindOf

Init ==
    /\ asked = [k \in Kinds |-> Nothing] /\ shown = [k \in Kinds |-> FALSE]
    /\ window = "open"
    /\ procs = [k \in Kinds |-> NoChild] /\ stopping = NoChild /\ toStop = {}
    /\ kindOf = <<>> /\ wrapper = <<>> /\ service = <<>> /\ killed = {}

(* startProcess, stopProcess: the button is disabled while a command is    *)
(* pending, and which of the two it is depends on the status shown.        *)
Click(k) ==
    /\ window = "open" /\ asked[k] = Nothing
    /\ asked' = [asked EXCEPT ![k] = IF shown[k] THEN "stop" ELSE "start"]
    /\ UNCHANGED <<shown, window, manager, os>>

Answer(k) == asked' = [asked EXCEPT ![k] = Nothing]

(* reap: children that have exited are dropped.                            *)
Reaped == [k \in Kinds |-> IF procs[k] # NoChild /\ wrapper[procs[k]] = "gone"
                           THEN NoChild ELSE procs[k]]

Idle == stopping = NoChild /\ toStop = {}

(* process_status, and the refresh after every command.  Commands run one  *)
(* at a time on the shell's main thread, and only while the window exists. *)
Poll ==
    /\ window = "open" /\ Idle
    /\ procs' = Reaped
    /\ shown' = [k \in Kinds |-> Reaped[k] # NoChild]
    /\ UNCHANGED <<asked, window, stopping, toStop, os>>

(* start_process refuses: no repository, no venue enabled, no uv on PATH,  *)
(* or the kind is running.                                                 *)
StartRefused(k) ==
    /\ window = "open" /\ asked[k] = "start" /\ Idle
    /\ procs' \in {procs, Reaped}
    /\ Answer(k)
    /\ UNCHANGED <<shown, window, stopping, toStop, os>>

(* A slip: spawn without looking for a running child.                      *)
StartUnchecked(k) ==
    /\ window = "open" /\ asked[k] = "start" /\ Idle /\ Len(kindOf) < MaxStarts
    /\ procs' = [Reaped EXCEPT ![k] = Len(kindOf) + 1]
    /\ kindOf' = Append(kindOf, k) /\ wrapper' = Append(wrapper, "up")
    /\ service' = Append(service, "none")
    /\ Answer(k)
    /\ UNCHANGED <<shown, window, stopping, toStop, killed>>
Start(k) ==
    /\ window = "open" /\ asked[k] = "start" /\ Idle /\ Len(kindOf) < MaxStarts
    /\ Reaped[k] = NoChild
    /\ procs' = [Reaped EXCEPT ![k] = Len(kindOf) + 1]
    /\ kindOf' = Append(kindOf, k) /\ wrapper' = Append(wrapper, "up")
    /\ service' = Append(service, "none")
    /\ Answer(k)
    /\ UNCHANGED <<shown, window, stopping, toStop, killed>>
-----------------------------------------------------------------------------
(* stop: the child leaves procs at once, and SIGTERM goes to the wrapper,  *)
(* which passes it on; before it has a service of its own it just ends.    *)
Terminate(c) ==
    /\ wrapper' = IF service[c] = "none" THEN [wrapper EXCEPT ![c] = "gone"] ELSE wrapper
    /\ service' = CASE service[c] = "none" -> [service EXCEPT ![c] = "gone"]
                    [] service[c] = "up" /\ wrapper[c] = "up" -> [service EXCEPT ![c] = "ending"]
                    [] OTHER -> service

StopNone(k) ==
    /\ window = "open" /\ asked[k] = "stop" /\ Idle
    /\ procs[k] = NoChild
    /\ Answer(k)
    /\ UNCHANGED <<shown, window, manager, os>>

Stop(k) ==
    /\ window = "open" /\ asked[k] = "stop" /\ Idle
    /\ procs[k] # NoChild
    /\ procs' = [procs EXCEPT ![k] = NoChild] /\ stopping' = procs[k]
    /\ Terminate(procs[k])
    /\ UNCHANGED <<ui, window, toStop, kindOf, killed>>

(* What follows the wait: the answer, or stop_all's next kind.             *)
StopReturns ==
    /\ stopping' = NoChild
    /\ asked' = IF window = "open" THEN [asked EXCEPT ![kindOf[stopping]] = Nothing] ELSE asked
    /\ UNCHANGED <<shown, window, procs, toStop, kindOf>>

ChildExited ==
    /\ stopping # NoChild /\ wrapper[stopping] = "gone"
    /\ StopReturns
    /\ UNCHANGED <<wrapper, service, killed>>

(* STOP_GRACE is over: SIGKILL to the wrapper.  Nobody forwards it.  A     *)
(* slip: stop() waits for as long as the service takes.                    *)
GraceUntilExit ==
    /\ stopping # NoChild /\ service[stopping] = "gone" /\ wrapper[stopping] = "up"
    /\ StopReturns
    /\ UNCHANGED <<wrapper, service, killed>>
GraceExpires ==
    /\ stopping # NoChild /\ wrapper[stopping] = "up"
    /\ wrapper' = [wrapper EXCEPT ![stopping] = "gone"]
    /\ killed' = killed \cup {stopping}
    /\ StopReturns
    /\ UNCHANGED service
-----------------------------------------------------------------------------
(* on_window_event: stop_all takes the mutex and stops each kind in turn.  *)
(* The event is handled when no command is.                                *)
CloseWindow ==
    /\ window = "open" /\ Idle
    /\ window' = "closing" /\ toStop' = Kinds
    /\ UNCHANGED <<ui, procs, stopping, os>>

StopNext ==
    /\ window = "closing" /\ stopping = NoChild
    /\ \E k \in toStop :
          /\ toStop' = toStop \ {k}
          /\ procs' = [procs EXCEPT ![k] = NoChild] /\ stopping' = procs[k]
          /\ IF procs[k] = NoChild THEN UNCHANGED <<wrapper, service>> ELSE Terminate(procs[k])
    /\ UNCHANGED <<ui, window, kindOf, killed>>

Exit ==
    /\ window = "closing" /\ Idle
    /\ window' = "gone"
    /\ UNCHANGED <<ui, manager, os>>
-----------------------------------------------------------------------------
(* The wrapper resolves the environment, then runs the service.            *)
ServiceStarts(c) ==
    /\ service[c] = "none" /\ wrapper[c] = "up"
    /\ service' = [service EXCEPT ![c] = "up"]
    /\ UNCHANGED <<ui, window, manager, kindOf, wrapper, killed>>

(* A service asked to end does, sooner or later; any may crash before.     *)
ServiceEnds(c) ==
    /\ service[c] = "ending"
    /\ service' = [service EXCEPT ![c] = "gone"]
    /\ UNCHANGED <<ui, window, manager, kindOf, wrapper, killed>>

ServiceCrashes(c) ==
    /\ service[c] = "up"
    /\ service' = [service EXCEPT ![c] = "gone"]
    /\ UNCHANGED <<ui, window, manager, kindOf, wrapper, killed>>

(* The wrapper ends with its service.                                      *)
WrapperEnds(c) ==
    /\ service[c] = "gone" /\ wrapper[c] = "up"
    /\ wrapper' = [wrapper EXCEPT ![c] = "gone"]
    /\ UNCHANGED <<ui, window, manager, kindOf, service, killed>>

Shell ==
    \/ Poll \/ ChildExited \/ GraceExpires \/ CloseWindow \/ StopNext \/ Exit
    \/ \E k \in Kinds : Click(k) \/ StartRefused(k) \/ Start(k) \/ StopNone(k) \/ Stop(k)
Processes ==
    \E c \in Children :
        ServiceStarts(c) \/ ServiceEnds(c) \/ ServiceCrashes(c) \/ WrapperEnds(c)

Next == Shell \/ Processes

(* The backend answers what it is asked and its wait is bounded: the loop  *)
(* of stop() leaves when the child exits or the grace is over.             *)
Fairness ==
    /\ WF_vars(ChildExited \/ GraceExpires) /\ WF_vars(StopNext) /\ WF_vars(Exit)
    /\ \A k \in Kinds : SF_vars(StartRefused(k) \/ Start(k) \/ StopNone(k) \/ Stop(k))

Spec == Init /\ [][Next]_vars /\ Fairness
-----------------------------------------------------------------------------
Writing(c) == service[c] \in {"up", "ending"}

(* A service that writes is always someone's: it is the child procs names  *)
(* for its kind, or the one stop() is waiting for, unless stop() killed    *)
(* its wrapper.  So whatever the status shown, the order of the clicks and *)
(* the moment a child dies, two services of a kind write to the same files *)
(* only after a SIGKILL, and only such a one outlives the window.          *)
ServicesAreOwned ==
    \A c \in Children :
        Writing(c) /\ c \notin killed =>
            window # "gone" /\ (procs[kindOf[c]] = c \/ stopping = c)

(* A button never stays disabled: every command is answered, if the window *)
(* is not closed first.                                                    *)
CommandsAnswered ==
    \A k \in Kinds : asked[k] # Nothing ~> asked[k] = Nothing \/ window # "open"

(* The comment on the window event: no service writes once the window is   *)
(* gone.  The SIGKILL that ends the grace reaches the wrapper only.        *)
NoOrphans == window = "gone" => \A c \in Children : ~Writing(c)
-----------------------------------------------------------------------------
(* The shell's log tailer (desktop/src-tauri/src/logs.rs) and the entries  *)
(* it fills (handleLogLine in desktop/src/state/AppData.tsx).  A service   *)
(* appends a line in one or two writes; the tailer wakes, sees the length, *)
(* reads line by line to the end and emits what it read.                   *)
CONSTANTS
    LogLimit,     \* LOG_LIMIT
    MaxLines,     \* bound: lines the service writes
    MaxRotations  \* bound: times the file is replaced by an empty one

TailAssumption == LogLimit \in Nat

VARIABLES
    file,        \* the log: pieces <<line, part>>; part 2 ends the line
    written,     \* lines begun
    rotations,
    position,    \* the tailer's position, in pieces
    reading,     \* is it in its inner loop?
    entries,     \* logsRef.current: entries, each a run of pieces
    skipped,     \* history: pieces of the current file it starts after
    emitted      \* history: pieces of the current file it emitted

tailVars == <<file, written, rotations, position, reading, entries, skipped, emitted>>

(* The tailer starts at the end of a file that has some history.           *)
TailInit ==
    /\ file \in {<<>>, <<<<0, 2>>>>} /\ written = 0 /\ rotations = 0
    /\ position = Len(file) /\ reading = FALSE
    /\ entries = <<>> /\ skipped = Len(file) /\ emitted = <<>>

LineOpen == file # <<>> /\ Last(file)[2] = 1

(* A line is written whole, or its second half follows later.              *)
AppendLine ==
    /\ ~LineOpen /\ written < MaxLines
    /\ written' = written + 1
    /\ \E part \in {1, 2} : file' = Append(file, <<written + 1, part>>)
    /\ UNCHANGED <<rotations, position, reading, entries, skipped, emitted>>

AppendRest ==
    /\ LineOpen
    /\ file' = Append(file, <<Last(file)[1], 2>>)
    /\ UNCHANGED <<written, rotations, position, reading, entries, skipped, emitted>>

Rotate ==
    /\ rotations < MaxRotations
    /\ rotations' = rotations + 1
    /\ file' = <<>> /\ skipped' = 0 /\ emitted' = <<>>
    /\ UNCHANGED <<written, position, reading, entries>>
-----------------------------------------------------------------------------
(* The tailer wakes: a shorter file starts over, another length is read.   *)
Wake ==
    /\ ~reading
    /\ position' = IF Len(file) < position THEN 0 ELSE position
    /\ reading' = (Len(file) # position')
    /\ UNCHANGED <<file, written, rotations, entries, skipped, emitted>>

(* read_line: up to the end of the line, or of the file.                   *)
LineEnd ==
    LET ends == {i \in (position + 1)..Len(file) : file[i][2] = 2}
    IN IF ends = {} THEN Len(file) ELSE CHOOSE i \in ends : \A j \in ends : i <= j

(* setLogs keeps the newest entries.                                       *)
Shown(lines) ==
    SubSeq(lines, IF Len(lines) > LogLimit THEN Len(lines) - LogLimit + 1 ELSE 1, Len(lines))

ReadLine ==
    /\ reading /\ position < Len(file)
    /\ LET line == SubSeq(file, position + 1, LineEnd)
       IN /\ entries' = Shown(Append(entries, line))
          /\ emitted' = emitted \o line
    /\ position' = LineEnd
    /\ UNCHANGED <<file, written, rotations, reading, skipped>>

ReadEnds ==
    /\ reading /\ position >= Len(file)
    /\ reading' = FALSE
    /\ UNCHANGED <<file, written, rotations, position, entries, skipped, emitted>>

TailNext == AppendLine \/ AppendRest \/ Rotate \/ Wake \/ ReadLine \/ ReadEnds

TailSpec == TailInit /\ [][TailNext]_tailVars
-----------------------------------------------------------------------------
(* Without a rotation the tailer loses and repeats nothing, in whatever    *)
(* pieces it meets the lines: what it emitted is the file from where it    *)
(* started to its position, and the entries are the end of it.             *)
EveryPieceOnce ==
    rotations = 0 =>
        /\ emitted = SubSeq(file, skipped + 1, position)
        /\ IsSuffix(FlattenSeq(entries), emitted)
=============================================================================
