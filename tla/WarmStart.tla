----------------------------- MODULE WarmStart -----------------------------
(***************************************************************************)
(* A venue-day of an incremental feed is not replayed from its own first   *)
(* message: warm_up (data/validate/warmup.py) replays the tail of the day  *)
(* before, from the earliest of the symbols' last snapshots, the counters  *)
(* are zeroed at midnight, and validate_venue_day scores what follows.     *)
(* Next to it runs the replay the tail stands for: every message of both   *)
(* days.  A book is the set of messages it is made of.                     *)
(***************************************************************************)
EXTENDS Integers, Sequences, SequencesExt, FiniteSets, FiniteSetsExt

CONSTANTS
    Symbols,       \* configured symbols of the venue
    Hours,         \* bound: hour files of the day before are 1..Hours
    MaxBefore,     \* bound: messages recorded the day before
    MaxDay         \* bound: messages recorded on the day itself

WarmAssumption ==
    Symbols # {} /\ Hours \in Nat \ {0} /\ MaxBefore \in Nat /\ MaxDay \in Nat

VARIABLES
    sequenced,     \* vcfg.sequence_numbers: Coinbase; else Kraken, by checksum
    hour,          \* hour the recorder writes
    log,           \* messages of the day before, in receive order
    next,          \* sequence number of the connection's next message
    count,         \* messages recorded over both days
    full,          \* history: the replay of everything, builders and tracker
    atMidnight,    \* history: its counters when the day began
    day,           \* the warmed replay of validate_venue_day, or NotYet
    warm,          \* warmup.start_ns is not None
    received       \* messages recorded on the day itself

vars == <<sequenced, hour, log, next, count, full, atMidnight, day, warm, received>>

Unseen == -1
NotYet == <<>>

NewTracker == [last |-> Unseen, gaps |-> 0, observations |-> 0]
NewBook == [valid |-> FALSE, made |-> {}, snapshots |-> 0, updates |-> 0,
            ignored |-> 0, seqGaps |-> 0, checks |-> 0, failures |-> 0]
NewReplay == [tracker |-> NewTracker, books |-> [s \in Symbols |-> NewBook]]
-----------------------------------------------------------------------------
(* SequenceTracker.observe, and what it says of the number it is shown.    *)
SeqOK(t, seq) == t.last = Unseen \/ seq <= t.last + 1
Observe(t, seq) ==
    [last |-> seq, observations |-> t.observations + 1,
     gaps |-> IF SeqOK(t, seq) THEN t.gaps ELSE t.gaps + 1]

Emptied(b) == [b EXCEPT !.valid = FALSE, !.made = {}]

(* BookBuilder.apply of an update, with its checksum when the feed has one.*)
Update(b, msg, ok) ==
    IF ~ok THEN [Emptied(b) EXCEPT !.seqGaps = @ + 1]
    ELSE IF ~b.valid THEN [b EXCEPT !.ignored = @ + 1]
    ELSE LET applied == [b EXCEPT !.made = @ \cup {msg.id}, !.updates = @ + 1,
                                  !.checks = IF sequenced THEN @ ELSE @ + 1]
         IN IF sequenced \/ msg.good THEN applied
            ELSE [Emptied(applied) EXCEPT !.failures = @ + 1]

Apply(b, msg, ok) ==
    IF msg.kind = "snapshot"
    THEN [b EXCEPT !.valid = TRUE, !.made = {msg.id}, !.snapshots = @ + 1]
    ELSE Update(b, msg, ok)

(* One message through the tracker and its symbol's builder.               *)
Feed(r, msg) ==
    [tracker |-> IF sequenced THEN Observe(r.tracker, msg.seq) ELSE r.tracker,
     books |-> IF msg.kind = "other" THEN r.books
               ELSE [r.books EXCEPT ![msg.symbol] =
                         Apply(@, msg, sequenced => SeqOK(r.tracker, msg.seq))]]
-----------------------------------------------------------------------------
(* _last_snapshot_per_symbol: hour files newest first; the first that      *)
(* holds a snapshot of a symbol holds its last one.                        *)
SnapshotsIn(h, s) ==
    {i \in DOMAIN log : log[i].hour = h /\ log[i].kind = "snapshot" /\ log[i].symbol = s}
HoursWith(s) == {h \in 1..Hours : SnapshotsIn(h, s) # {}}
LastSnapshot(s) == Max(SnapshotsIn(Max(HoursWith(s)), s))
Found == {s \in Symbols : HoursWith(s) # {}}

(* warm_up: from the earliest of them, in that hour's file and the later:  *)
(* files and their records are in receive order, so what is no older is    *)
(* what follows.  A slip: from the latest.                                 *)
TailFromLatest == SubSeq(log, Max({LastSnapshot(s) : s \in Found}), Len(log))
WarmTail == SubSeq(log, Min({LastSnapshot(s) : s \in Found}), Len(log))
WarmUp == IF Found = {} THEN NewReplay ELSE FoldLeft(Feed, NewReplay, WarmTail)

(* reset_counters and reset_counts: the books, their validity and the last *)
(* number seen stay.                                                       *)
ResetBook(b) == [NewBook EXCEPT !.valid = b.valid, !.made = b.made]
ResetCounts(r) ==
    [tracker |-> [NewTracker EXCEPT !.last = r.tracker.last],
     books |-> [s \in Symbols |-> ResetBook(r.books[s])]]
-----------------------------------------------------------------------------
Init ==
    /\ sequenced \in BOOLEAN
    /\ hour = 1 /\ log = <<>> /\ next = 0 /\ count = 0
    /\ full = NewReplay /\ atMidnight = NewReplay /\ day = NotYet
    /\ warm = FALSE /\ received = 0

(* What a message is numbered: the next number, one further after a loss,  *)
(* or a new connection's first; such a connection sends a snapshot before  *)
(* the updates.  A venue without numbers has checksums that may not match. *)
Numbers(kind) ==
    IF ~sequenced THEN {0} ELSE {next, next + 1} \cup (IF kind = "update" THEN {} ELSE {0})
Kinds == {"snapshot", "update", "other"}
Messages ==
    {m \in [id : {count + 1}, hour : {hour}, kind : Kinds, symbol : Symbols,
            seq : Numbers("other"), good : BOOLEAN] :
        /\ m.seq \in Numbers(m.kind)
        /\ ~m.good => m.kind = "update" /\ ~sequenced
        /\ m.kind = "other" => m.symbol = CHOOSE s \in Symbols : TRUE}

Recorded(msg) ==
    /\ count' = count + 1
    /\ next' = IF sequenced THEN msg.seq + 1 ELSE next
    /\ full' = Feed(full, msg)
    /\ UNCHANGED <<sequenced, hour, atMidnight, warm>>

RecordBefore ==
    /\ day = NotYet /\ count < MaxBefore
    /\ \E msg \in Messages : Recorded(msg) /\ log' = Append(log, msg)
    /\ UNCHANGED <<day, received>>

NextHour ==
    /\ day = NotYet /\ hour < Hours
    /\ hour' = hour + 1
    /\ UNCHANGED <<sequenced, log, next, count, full, atMidnight, day, warm, received>>

(* The start of validate_venue_day.  The history drops what it no longer   *)
(* needs.                                                                  *)
Midnight ==
    /\ day = NotYet
    /\ day' = ResetCounts(WarmUp)
    /\ warm' = (Found # {})
    /\ atMidnight' = full
    /\ log' = <<>> /\ hour' = Hours
    /\ UNCHANGED <<sequenced, next, count, full, received>>

(* The replay loop of validate_venue_day.                                  *)
ReplayDay ==
    /\ day # NotYet /\ received < MaxDay
    /\ \E msg \in Messages : Recorded(msg) /\ day' = Feed(day, msg)
    /\ received' = received + 1
    /\ UNCHANGED log

Next == RecordBefore \/ NextHour \/ Midnight \/ ReplayDay

Spec == Init /\ [][Next]_vars
-----------------------------------------------------------------------------
(* What a reader of the books sees never depends on where the replay       *)
(* began: through the day every book is valid exactly when the replay of   *)
(* everything has it valid, and is made of the same messages, for every    *)
(* symbol, whichever symbol's snapshot was the earliest.                   *)
WarmBooksAreFull ==
    day # NotYet => \A s \in Symbols :
        /\ day.books[s].valid = full.books[s].valid
        /\ day.books[s].made = full.books[s].made

(* A warmed day is scored on its own messages and on all of them: each     *)
(* counter of the day is what the replay of everything counted since       *)
(* midnight, so a message lost over midnight is a gap of the day and       *)
(* nothing the warm-up met is.                                             *)
Counters == {"snapshots", "updates", "ignored", "seqGaps", "checks", "failures"}
DayScoredAlone ==
    day # NotYet /\ warm =>
        /\ day.tracker.last = full.tracker.last
        /\ \A c \in {"gaps", "observations"} :
               day.tracker[c] = full.tracker[c] - atMidnight.tracker[c]
        /\ \A s \in Symbols, c \in Counters :
               day.books[s][c] = full.books[s][c] - atMidnight.books[s][c]
=============================================================================
