------------------------------- MODULE DayRows -------------------------------
(* The snapshot rows of one symbol and one day, from the replayed events to   *)
(* the file that every later stage reads: SnapshotEmitter (data/book/emit.py) *)
(* feeding a StreamingPartWriter (data/store/parquet_writer.py), as           *)
(* replay_day drives them (data/validate/replay.py 599-607 and 631).  A run   *)
(* may die at any point and be started again on the same capture.             *)
(*                                                                            *)
(* Abstracted: a book is the number of events applied to it; a row is its     *)
(* timestamp, its kind and the book it carries.                               *)
EXTENDS Integers, Sequences, SequencesExt, FiniteSets

CONSTANTS
    Interval,     \* interval_snapshot_ms, in ticks
    FlushRows,    \* flush_rows: rows buffered before a row group is written
    Horizon,      \* search bound: last tick an event can be received at
    MaxEvents,    \* search bound: events in the day
    MaxRuns       \* search bound: how often the day is processed

DayRowsAssumption ==
    /\ {Interval, FlushRows} \subseteq Nat \ {0}
    /\ {Horizon, MaxEvents, MaxRuns} \subseteq Nat

VARIABLES
    feed,      \* receive times of the day's events, as captured
    runs,      \* processing runs started
    stage,     \* "idle", "replay", or how far close() is: "flushed", "footed"
    applied,   \* events applied to the builder in this run
    next,      \* _next_interval_ns, or None
    buffer,    \* _buffer
    open,      \* _writer is not None
    tmp,       \* the in-progress file
    final      \* the file at the deterministic final path

vars == <<feed, runs, stage, applied, next, buffer, open, tmp, final>>

None == -1
NoFile == [rows |-> <<>>, footer |-> FALSE]

Row(ts, kind, book) == [ts |-> ts, kind |-> kind, book |-> book]
Rows == [ts : 0..(Horizon + Interval), kind : {"interval", "event"},
         book : 1..MaxEvents]
File == [rows : Seq(Rows), footer : BOOLEAN]

InOrder(times) == \A i, j \in DOMAIN times : i < j => times[i] <= times[j]

(* The first boundary strictly after t: where the cadence starts. *)
BoundaryAfter(t) == (t \div Interval + 1) * Interval

(* Boundaries the emitter has still to emit when an event arrives at ts. *)
Due(ts) == IF next = None THEN <<>>
           ELSE [k \in 1..(IF next > ts THEN 0 ELSE (ts - next) \div Interval + 1)
                    |-> next + (k - 1) * Interval]

Advanced(ts) == IF next = None THEN BoundaryAfter(ts)
                ELSE next + Len(Due(ts)) * Interval

(* on_event: the boundaries passed since the last event, then the event.     *)
(* Every row is read from the builder, to which this event is applied.       *)
Emitted(ts, book) ==
    [k \in DOMAIN Due(ts) |-> Row(Due(ts)[k], "interval", book)]
        \o <<Row(ts, "event", book)>>

-----------------------------------------------------------------------------

(* The capture's receive times do not run backwards within the day. *)
Init ==
    /\ feed \in {f \in BoundedSeq(0..Horizon, MaxEvents) : InOrder(f)}
    /\ runs = 0 /\ stage = "idle" /\ applied = 0 /\ next = None
    /\ buffer = <<>> /\ open = FALSE
    /\ tmp = NoFile /\ final = NoFile

(* replay_day builds a fresh emitter and writer; files of earlier runs stay. *)
StartRun ==
    /\ stage = "idle" /\ runs < MaxRuns
    /\ runs' = runs + 1 /\ stage' = "replay" /\ applied' = 0 /\ next' = None
    /\ buffer' = <<>> /\ open' = FALSE
    /\ UNCHANGED <<feed, tmp, final>>

(* Mutant: the in-progress file is opened for append. *)
FlushAppends(rows) ==
    /\ tmp' = [rows |-> tmp.rows \o rows, footer |-> FALSE]
    /\ open' = TRUE
    /\ buffer' = <<>>

(* _flush: the first row group creates the in-progress file, truncating what *)
(* a dead run left under that name.                                          *)
Flush(rows) ==
    IF rows = <<>>
    THEN UNCHANGED <<open, tmp>> /\ buffer' = <<>>
    ELSE /\ tmp' = [rows |-> IF open THEN tmp.rows \o rows ELSE rows,
                    footer |-> FALSE]
         /\ open' = TRUE
         /\ buffer' = <<>>

(* One event: applied, turned into rows, and the rows appended. *)
Replay ==
    /\ stage = "replay" /\ applied < Len(feed)
    /\ LET ts == feed[applied + 1]
           rows == buffer \o Emitted(ts, applied + 1)
       IN  /\ next' = Advanced(ts)
           /\ IF Len(rows) >= FlushRows
              THEN Flush(rows)
              ELSE buffer' = rows /\ UNCHANGED <<open, tmp>>
    /\ applied' = applied + 1
    /\ UNCHANGED <<feed, runs, stage, final>>

(* close() flushes the remainder ... *)
CloseFlush ==
    /\ stage = "replay" /\ applied = Len(feed)
    /\ Flush(buffer)
    /\ stage' = IF open' THEN "flushed" ELSE "idle"
    /\ UNCHANGED <<feed, runs, applied, next, final>>

(* ... writes the footer ... *)
CloseFooter ==
    /\ stage = "flushed"
    /\ tmp' = [tmp EXCEPT !.footer = TRUE]
    /\ open' = FALSE
    /\ stage' = "footed"
    /\ UNCHANGED <<feed, runs, applied, next, buffer, final>>

(* ... and renames the file into place. *)
CloseRename ==
    /\ stage = "footed"
    /\ final' = tmp
    /\ tmp' = NoFile
    /\ stage' = "idle"
    /\ UNCHANGED <<feed, runs, applied, next, buffer, open>>

(* The process is killed (the 2026-07-31 run died out of memory). *)
Crash ==
    /\ stage # "idle"
    /\ stage' = "idle"
    /\ buffer' = <<>> /\ open' = FALSE /\ applied' = 0 /\ next' = None
    /\ UNCHANGED <<feed, runs, tmp, final>>

Next == StartRun \/ Replay \/ CloseFlush \/ CloseFooter \/ CloseRename \/ Crash

Spec == Init /\ [][Next]_vars

-----------------------------------------------------------------------------

(* Every variable has its type, and the emitter's cursor stays on the grid of *)
(* interval boundaries, however late an event arrives (emit.py 105-109).      *)
TypeOK ==
    /\ feed \in Seq(0..Horizon) /\ Len(feed) <= MaxEvents
    /\ runs \in 0..MaxRuns
    /\ stage \in {"idle", "replay", "flushed", "footed"}
    /\ applied \in 0..Len(feed)
    /\ next \in {None} \cup {b \in 0..(Horizon + Interval) : b % Interval = 0}
    /\ buffer \in Seq(Rows) /\ Len(buffer) < FlushRows
    /\ open \in BOOLEAN
    /\ tmp \in File /\ final \in File

(* The cadence the rows of the first n events should have, said of the feed   *)
(* alone: before each event, each boundary passed since the event before it.  *)
Passed(i) == IF i = 1 THEN {}
             ELSE {b \in 0..Horizon : /\ b % Interval = 0
                                      /\ feed[i - 1] < b /\ b <= feed[i]}

InTime(set) == [k \in 1..Cardinality(set) |->
                   CHOOSE b \in set : Cardinality({c \in set : c < b}) = k - 1]
Cadence(n) ==
    FlattenSeq([i \in 1..n |->
        LET due == InTime(Passed(i))
        IN  [k \in DOMAIN due |-> <<due[k], "interval">>]
                \o <<<<feed[i], "event">>>>])

Stamps(rows) == [k \in DOMAIN rows |-> <<rows[k].ts, rows[k].kind>>]

(* At every moment of a run, what is on disk and what is buffered are together *)
(* the rows of the events applied so far: no boundary is skipped or repeated,  *)
(* no row is lost or written twice at a flush, and nothing of a dead run's     *)
(* in-progress file survives into this one (emit.py 105-112,                   *)
(* parquet_writer.py 119-138).                                                 *)
RowsSoFar ==
    stage = "replay" =>
        Stamps((IF open THEN tmp.rows ELSE <<>>) \o buffer) = Cadence(applied)

(* "a crashed run never leaves a partial file at the final path": whatever is *)
(* at the final path is a closed file with the rows of the whole day,         *)
(* wherever earlier runs died (parquet_writer.py 94-97, 140-151).             *)
FinalIsWholeDay ==
    final = NoFile \/ (final.footer /\ Stamps(final.rows) = Cadence(Len(feed)))

(* "Interval rows ... carry the book state as of the last event before that  *)
(* boundary" (emit.py 4-5): at the least, never that of an event received     *)
(* after it.  The code applies the event that passes the boundary first, and *)
(* reads the rows from the builder afterwards.                               *)
AsOfBoundary ==
    \A k \in DOMAIN final.rows :
        LET r == final.rows[k]
        IN  r.kind = "interval" => feed[r.book] <= r.ts

==============================================================================
