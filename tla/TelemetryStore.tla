--------------------------- MODULE TelemetryStore ---------------------------
(***************************************************************************)
(* The telemetry service (ops/telemetry/service.py) and its store          *)
(* (ops/telemetry/store.py): probe every venue, rewrite each buffered day  *)
(* file, drop the days that are over, wait, repeat.  A restarted service   *)
(* seeds a day's buffer from its file.  The clock may step back over       *)
(* midnight; the process may die between any two steps.                    *)
(***************************************************************************)
EXTENDS Integers, Sequences, SequencesExt, FiniteSets

CONSTANTS
    Venues,        \* venues probed, a sequence
    DayTicks,      \* clock ticks of a day
    LastTick,      \* bound: the clock
    MaxRows,       \* bound: samples taken
    MaxLives       \* bound: times the service is started

StoreAssumption ==
    /\ Venues \in Seq(Range(Venues)) /\ Venues # <<>>
    /\ DayTicks \in Nat \ {0} /\ LastTick \in Nat

Days == 0..(LastTick \div DayTicks)
Keys == Range(Venues) \X Days

VARIABLES
    now,        \* the wall clock
    lives,      \* times the service was started
    step,       \* "down", "probe", "flush", "latest" or "wait"
    venue,      \* index of the venue to probe next
    buffers,    \* _buffers: rows per venue and day
    toWrite,    \* keys flush_parquet has still to write
    writing,    \* the day file being written in place, or NoKey
    disk,       \* day files: Missing, Torn, or their rows
    rows,       \* samples taken
    latest,     \* telemetry_latest.json: the row shown of each venue, 0 for none
    flushed     \* history: rows a finished write put in each day file

memory == <<step, venue, buffers, toWrite, writing>>
vars == <<now, lives, memory, disk, rows, latest, flushed>>

NoKey == <<>>
Missing == <<>>
Torn == <<0>>
Today == now \div DayTicks
Empty == [k \in Keys |-> <<>>]

Init ==
    /\ now = 0 /\ lives = 0 /\ step = "down" /\ venue = 1
    /\ buffers = Empty /\ toWrite = {} /\ writing = NoKey
    /\ disk = [k \in Keys |-> Missing] /\ rows = 0 /\ flushed = Empty
    /\ latest = [v \in Range(Venues) |-> 0]

Start ==
    /\ step = "down" /\ lives < MaxLives
    /\ lives' = lives + 1
    /\ step' = "probe" /\ venue' = 1
    /\ buffers' = Empty /\ toWrite' = {} /\ writing' = NoKey
    /\ UNCHANGED <<now, disk, rows, latest, flushed>>

(* _seed_from_disk: an empty buffer starts from what the file holds.  A    *)
(* slip: only at the first sample of a run.                                *)
SeededOnce(k) == IF buffers[k] # <<>> \/ rows > 0 THEN buffers[k] ELSE disk[k]
Seeded(k) == IF buffers[k] # <<>> THEN buffers[k] ELSE disk[k]

(* A sample of the next venue, failed or not, dated by when it was taken.  *)
Probe ==
    /\ step = "probe" /\ rows < MaxRows
    /\ LET k == <<Venues[venue], Today>>
       IN /\ Seeded(k) # Torn
          /\ buffers' = [buffers EXCEPT ![k] = Append(Seeded(k), rows + 1)]
    /\ rows' = rows + 1
    /\ IF venue < Len(Venues)
       THEN venue' = venue + 1 /\ UNCHANGED <<step, toWrite>>
       ELSE /\ step' = "flush" /\ venue' = 1
            /\ toWrite' = {k \in Keys : buffers'[k] # <<>>}
    /\ UNCHANGED <<now, lives, writing, disk, latest, flushed>>

(* read_table raises on a file whose write was cut, and the service ends.  *)
SeedRaises ==
    /\ step = "probe" /\ Seeded(<<Venues[venue], Today>>) = Torn
    /\ step' = "down"
    /\ UNCHANGED <<now, lives, venue, buffers, toWrite, writing, disk, rows, latest, flushed>>

(* write_table writes the final path itself.                               *)
OpenDay ==
    /\ step = "flush" /\ writing = NoKey
    /\ \E k \in toWrite : writing' = k /\ disk' = [disk EXCEPT ![k] = Torn]
    /\ UNCHANGED <<now, lives, step, venue, buffers, toWrite, rows, latest, flushed>>

WriteDay ==
    /\ step = "flush" /\ writing # NoKey
    /\ disk' = [disk EXCEPT ![writing] = buffers[writing]]
    /\ flushed' = [flushed EXCEPT ![writing] = buffers[writing]]
    /\ toWrite' = toWrite \ {writing} /\ writing' = NoKey
    /\ UNCHANGED <<now, lives, step, venue, buffers, rows, latest>>

(* The buffers of other days are dropped.                                  *)
DropPast ==
    /\ step = "flush" /\ toWrite = {} /\ writing = NoKey
    /\ buffers' = [k \in Keys |-> IF k[2] = Today THEN buffers[k] ELSE <<>>]
    /\ step' = "latest"
    /\ UNCHANGED <<now, lives, venue, toWrite, writing, disk, rows, latest, flushed>>

(* write_latest_json replaces the file with what the buffers still hold,   *)
(* a venue's newest day last; then the wait, which a signal cuts short (a  *)
(* last flush writes the same again).                                      *)
DaysOf(v) == {d \in Days : buffers[<<v, d>>] # <<>>}
WriteLatest ==
    /\ step = "latest"
    /\ latest' = [v \in Range(Venues) |->
          IF DaysOf(v) = {} THEN 0 ELSE Last(buffers[<<v, Max(DaysOf(v))>>])]
    /\ step' = "wait"
    /\ UNCHANGED <<now, lives, venue, buffers, toWrite, writing, disk, rows, flushed>>

NextCycle ==
    /\ step = "wait"
    /\ step' = "probe"
    /\ UNCHANGED <<now, lives, venue, buffers, toWrite, writing, disk, rows, latest, flushed>>

Crash ==
    /\ step # "down"
    /\ step' = "down"
    /\ UNCHANGED <<now, lives, venue, buffers, toWrite, writing, disk, rows, latest, flushed>>

Tick ==
    /\ \/ now < LastTick /\ now' = now + 1
       \/ now > 0 /\ now' = now - 1
    /\ UNCHANGED <<lives, memory, disk, rows, latest, flushed>>

Next ==
    \/ Start \/ Probe \/ SeedRaises \/ OpenDay \/ WriteDay \/ DropPast
    \/ WriteLatest \/ NextCycle \/ Crash \/ Tick

Spec == Init /\ [][Next]_vars
-----------------------------------------------------------------------------
(* Whatever a finished write leaves in a day file holds every row an       *)
(* earlier one put there, and holds each row once, oldest first: across    *)
(* restarts, midnight, and a clock that returns to a day whose buffer was  *)
(* dropped.  What the latency chart shows of a venue was on disk first.    *)
DayFilesGrow ==
    [][/\ \A v \in Range(Venues) : latest'[v] = 0 \/
              \E d \in Days : latest'[v] \in Range(flushed'[<<v, d>>])
       /\ \A k \in Keys : disk'[k] \notin {disk[k], Torn} =>
              /\ IsPrefix(flushed[k], disk'[k])
              /\ \A i, j \in DOMAIN disk'[k] : i < j => disk'[k][i] < disk'[k][j]]_vars

(* The module docstring: restarts never lose rows.  A crash during the     *)
(* write in place loses the whole day.                                     *)
RestartsLoseNothing == \A k \in Keys : disk[k] = Torn => writing = k /\ step # "down"
=============================================================================
