--------------------------- MODULE RecorderHealth ---------------------------
(***************************************************************************)
(* How an operator learns that capture has stopped: the heartbeat task of  *)
(* the recorder (data/recorder/service.py) with its DiskGuard              *)
(* (data/recorder/diskguard.py), and `make status` (ops/status.py), which  *)
(* reads the log they write.  Time is in ticks; the loop wakes on time.    *)
(***************************************************************************)
EXTENDS Integers

CONSTANTS
    Venues,       \* venues of kind "recorder"
    Interval,     \* heartbeat_interval_s
    Repeat,       \* REPEAT_INTERVAL_S
    LastTick,     \* bound: the clock
    MaxLives      \* bound: recorder processes started

HealthAssumption == Interval \in Nat \ {0} /\ Repeat \in Nat \ {0} /\ LastTick \in Nat

VARIABLES
    now,
    lives,        \* recorder processes started
    recorded,     \* venues the running recorder records; none when it is down
    beating,      \* is the heartbeat task running?
    wakes,        \* when it wakes next
    beats,        \* newest heartbeat of each venue in recorder.log, or None
    heard,        \* history: each venue's last message, or the start since
    seen,         \* history: when a running recorder last recorded the venue
    disk,         \* free space: "ok", "low" or "critical"
    lastLevel,    \* DiskGuard._last_level, or Unread
    lastLogged    \* DiskGuard._last_logged_s, or None

vars == <<now, lives, recorded, beating, wakes, beats, heard, seen, disk, lastLevel, lastLogged>>

None == -1
Unread == "unread"
StaleAfter == 3 * Interval

Init ==
    /\ now = 0 /\ lives = 0 /\ recorded = {} /\ beating = FALSE /\ wakes = 0
    /\ beats = [v \in Venues |-> None]
    /\ heard = [v \in Venues |-> 0] /\ seen = [v \in Venues |-> 0]
    /\ disk = "ok" /\ lastLevel = Unread /\ lastLogged = None

Up == recorded # {}

(* The recorder is started for all venues or the ones named.  What a venue *)
(* owes is counted from there.                                             *)
StartRecorder ==
    /\ ~Up /\ lives < MaxLives
    /\ lives' = lives + 1
    /\ recorded' \in (SUBSET Venues) \ {{}}
    /\ beating' = TRUE /\ wakes' = now + Interval
    /\ lastLevel' = Unread /\ lastLogged' = None
    /\ heard' = [v \in Venues |-> IF v \in recorded' THEN now ELSE heard[v]]
    /\ UNCHANGED <<now, beats, seen, disk>>

RecorderDies ==
    /\ Up
    /\ recorded' = {} /\ beating' = FALSE
    /\ UNCHANGED <<now, lives, wakes, beats, heard, seen, disk, lastLevel, lastLogged>>

Message(v) ==
    /\ v \in recorded
    /\ heard' = [heard EXCEPT ![v] = now]
    /\ UNCHANGED <<now, lives, recorded, beating, wakes, beats, seen, disk, lastLevel, lastLogged>>
-----------------------------------------------------------------------------
(* _should_log: a change of level, or a level below ok for long enough.    *)
ShouldLog ==
    \/ disk # lastLevel
    \/ disk # "ok" /\ (lastLogged = None \/ now - lastLogged >= Repeat)

CheckDisk ==
    /\ lastLogged' = IF ShouldLog THEN now ELSE lastLogged
    /\ lastLevel' = disk

(* One turn of _emit_heartbeats: the disk, then a line per recorder,       *)
(* connected or not, whether or not it received anything.                  *)
Beat ==
    /\ beating /\ now = wakes
    /\ wakes' = now + Interval
    /\ CheckDisk
    /\ beats' = [v \in Venues |-> IF v \in recorded THEN now ELSE beats[v]]
    /\ UNCHANGED <<now, lives, recorded, beating, heard, seen, disk>>

(* disk_usage raises: the task ends, the recorders do not.                 *)
DiskProbeFails ==
    /\ beating /\ now = wakes
    /\ beating' = FALSE
    /\ UNCHANGED <<now, lives, recorded, wakes, beats, heard, seen, disk, lastLevel, lastLogged>>

DiskChanges ==
    /\ disk' \in {"ok", "low", "critical"} \ {disk}
    /\ UNCHANGED <<now, lives, recorded, beating, wakes, beats, heard, seen, lastLevel, lastLogged>>

Tick ==
    /\ now < LastTick /\ (beating => now < wakes)
    /\ now' = now + 1
    /\ seen' = [v \in Venues |-> IF v \in recorded THEN now' ELSE seen[v]]
    /\ UNCHANGED <<lives, recorded, beating, wakes, beats, heard, disk, lastLevel, lastLogged>>

Next ==
    \/ StartRecorder \/ RecorderDies \/ Beat \/ DiskProbeFails \/ DiskChanges \/ Tick
    \/ \E v \in Venues : Message(v)

Spec == Init /\ [][Next]_vars
-----------------------------------------------------------------------------
(* latest_heartbeats: the age of the newest one of each venue in the log.  *)
LatestHeartbeats == [v \in {w \in Venues : beats[w] # None} |-> now - beats[v]]

(* render: what `make status` says now.  A slip: a beat counts as long as  *)
(* the process is up.                                                      *)
StaleIfDown(v) == beats[v] = None \/ (~Up /\ now - beats[v] > StaleAfter)
Stale(v) == v \notin DOMAIN LatestHeartbeats \/ LatestHeartbeats[v] > StaleAfter
Healthy == Up /\ (\A v \in Venues : ~Stale(v)) /\ disk # "critical"

(* A venue that no running recorder has recorded for the stale period is   *)
(* never shown healthy, though the log still holds its heartbeats of an    *)
(* earlier run and another venue's recorder is up and beating.             *)
AbsenceShows == Healthy => \A v \in Venues : now - seen[v] <= StaleAfter

(* A lasting shortage is repeated: while the guard reads the disk below    *)
(* ok, its last line is never older than the repeat interval and a turn.   *)
ShortageRepeated ==
    beating /\ lastLevel \in {"low", "critical"} =>
        /\ lastLogged # None
        /\ now - lastLogged < Repeat + Interval

(* What the module docstring of ops/status.py says of the heartbeat: a     *)
(* venue that receives nothing shows as an aging heartbeat.                *)
SilenceShows == Healthy => \A v \in Venues : now - heard[v] <= StaleAfter
=============================================================================
