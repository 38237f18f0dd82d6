------------------------------ MODULE RawFiles -----------------------------
(***************************************************************************)
(* The hour files of one venue: RawFileWriter appends zstd frames          *)
(* (data/recorder/writer.py), iter_raw_records and iter_day_records read   *)
(* across them (data/recorder/reader.py).  A frame is the lines flushed to *)
(* it and whether its end was written; compression itself is external:     *)
(* a decoder accepts an unfinished frame only at the end of the file.      *)
(***************************************************************************)
EXTENDS Integers, Sequences, FiniteSets, SequencesExt

CONSTANTS
    MaxTime,     \* bound: the clock stops here
    HourLen,     \* ticks per hour file
    MaxLives,    \* bound: writer processes in a run
    MaxLines,    \* bound: messages written in one hour
    Crashes      \* may a process die without closing its writer?

FilesAssumption ==
    /\ MaxTime \in Nat /\ HourLen \in Nat \ {0} /\ MaxLives \in Nat /\ MaxLines \in Nat
    /\ Crashes \in BOOLEAN

VARIABLES
    now,         \* time.time_ns(), never going back
    lives,       \* writer processes so far
    running,     \* is there one now?
    hourKey,     \* RawFileWriter._hour_key, -1 for None
    isOpen,      \* RawFileWriter._writer is not None
    files,       \* frames of each hour file
    written,     \* history: the lines each hour file was given
    broken       \* history: hours in which a process died with the file open

vars == <<now, lives, running, hourKey, isOpen, files, written, broken>>

Hours == 0..(MaxTime \div HourLen)
Hour(t) == t \div HourLen
NoHour == -1

Init ==
    /\ now = 0 /\ lives = 1 /\ running = TRUE
    /\ hourKey = NoHour /\ isOpen = FALSE
    /\ files = [h \in Hours |-> <<>>]
    /\ written = [h \in Hours |-> <<>>]
    /\ broken = {}

Frame(lines, closed) == [lines |-> lines, closed |-> closed]
ReplaceLast(frames, frame) == Append(Front(frames), frame)

(* RawFileWriter.close: finish the frame and the file, keep the hour key.  *)
(* A slip would close the file under an unfinished frame.                  *)
LeaveUnclosed(fs, h, opened) == fs
CloseFrame(fs, h, opened) ==
    IF opened THEN [fs EXCEPT ![h] = ReplaceLast(@, Frame(Last(@).lines, TRUE))] ELSE fs

(* A line for the open frame of an hour, or the first of a new one.  A     *)
(* slip: the file opened with "wb".                                        *)
AddFrameTruncating(fs, h, line) == [fs EXCEPT ![h] = <<Frame(<<line>>, FALSE)>>]
AddLine(fs, h, line) ==
    [fs EXCEPT ![h] = ReplaceLast(@, Frame(Append(Last(@).lines, line), FALSE))]
AddFrame(fs, h, line) == [fs EXCEPT ![h] = Append(@, Frame(<<line>>, FALSE))]

(* RawFileWriter.write: rotate when the hour of recv_ns is a new one, then *)
(* append the line and flush the block.                                    *)
Write ==
    /\ running /\ Len(written[Hour(now)]) < MaxLines
    /\ files' = IF hourKey = Hour(now) THEN AddLine(files, hourKey, now)
                ELSE AddFrame(CloseFrame(files, hourKey, isOpen), Hour(now), now)
    /\ hourKey' = Hour(now) /\ isOpen' = TRUE
    /\ written' = [written EXCEPT ![Hour(now)] = Append(@, now)]
    /\ UNCHANGED <<now, lives, running, broken>>

(* The graceful end of a process: run_service closes the writer.           *)
Shutdown ==
    /\ running
    /\ files' = CloseFrame(files, hourKey, isOpen)
    /\ running' = FALSE /\ isOpen' = FALSE
    /\ UNCHANGED <<now, lives, hourKey, written, broken>>

(* SIGKILL or power loss: the frame keeps some of its flushed blocks.      *)
Crash ==
    /\ Crashes /\ running
    /\ IF isOpen
       THEN \E kept \in 0..Len(Last(files[hourKey]).lines) :
                files' = [files EXCEPT ![hourKey] =
                    IF kept = 0 THEN Front(@)
                    ELSE ReplaceLast(@, Frame(SubSeq(Last(@).lines, 1, kept), FALSE))]
       ELSE UNCHANGED files
    /\ broken' = IF isOpen THEN broken \cup {hourKey} ELSE broken
    /\ running' = FALSE /\ isOpen' = FALSE
    /\ UNCHANGED <<now, lives, hourKey, written>>

(* The next process has a writer with no hour key.                         *)
Restart ==
    /\ ~running /\ lives < MaxLives
    /\ lives' = lives + 1 /\ running' = TRUE /\ hourKey' = NoHour
    /\ UNCHANGED <<now, isOpen, files, written, broken>>

Tick ==
    /\ now < MaxTime /\ now' = now + 1
    /\ UNCHANGED <<lives, running, hourKey, isOpen, files, written, broken>>

Next == Write \/ Shutdown \/ Crash \/ Restart \/ Tick
Spec == Init /\ [][Next]_vars
-----------------------------------------------------------------------------
(* iter_raw_records: the frames of a file one after the other; the decoder *)
(* takes what follows an unfinished frame for its continuation and fails.  *)
Lines(frames) == FlattenSeq([i \in DOMAIN frames |-> frames[i].lines])
Decodes(frames) == \A i \in 1..(Len(frames) - 1) : frames[i].closed

(* hour_files: the hours of a day, sorted.                                 *)
HourOrder ==
    [k \in 1..Cardinality(Hours) |-> CHOOSE h \in Hours : Cardinality({g \in Hours : g < h}) = k - 1]

(* iter_day_records: the hour files of a day, one after the other.         *)
DayLines == FlattenSeq([i \in DOMAIN HourOrder |-> Lines(files[HourOrder[i]])])

TypeOK ==
    /\ now \in 0..MaxTime /\ lives \in 1..MaxLives /\ running \in BOOLEAN
    /\ hourKey \in Hours \cup {NoHour} /\ isOpen \in BOOLEAN /\ broken \subseteq Hours
    /\ \A h \in Hours : \A i \in DOMAIN files[h] :
           files[h][i].closed \in BOOLEAN /\ files[h][i].lines # <<>>

(* Nothing is lost or reordered without a crash: an hour file, read while  *)
(* it is written or after rotations and graceful restarts, decodes to      *)
(* exactly the lines it was given, in order.                               *)
HourReadsBack ==
    \A h \in Hours \ broken :
        Decodes(files[h]) /\ Lines(files[h]) = written[h]

(* A crash costs at most the tail of the lines of each life: what remains  *)
(* of an hour is in receive order, and so is a whole day across its files. *)
DayInReceiveOrder == \A i, j \in DOMAIN DayLines : i < j => DayLines[i] <= DayLines[j]

(* A frame once finished is never touched again (raw data is immutable).   *)
ClosedFramesImmutable ==
    [][\A h \in Hours : \A i \in DOMAIN files[h] :
          files[h][i].closed => i \in DOMAIN files'[h] /\ files'[h][i] = files[h][i]]_vars

(* A restart within the hour never makes earlier data unreadable.          *)
RestartKeepsHourReadable == \A h \in Hours : Decodes(files[h])
=============================================================================
