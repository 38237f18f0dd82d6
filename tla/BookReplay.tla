----------------------------- MODULE BookReplay -----------------------------
(***************************************************************************)
(* Replaying one venue's recorded messages into its books: one             *)
(* SequenceTracker for the connection, one BookBuilder per symbol          *)
(* (data/book/builder.py, the loop of validate_venue_day in                *)
(* data/validate/replay.py).  The contents of a book are abstracted to     *)
(* whether they still agree with the venue's: `stale`, a history variable, *)
(* is set by an update that never arrived and cleared by a snapshot.       *)
(***************************************************************************)
EXTENDS Integers, FiniteSets

CONSTANTS
    Symbols,      \* products of the venue
    Channels,     \* may messages of other channels share the numbering?
    MaxSeq,       \* bound: messages of a connection
    MaxConns      \* bound: connections of a run

ASSUME ReplayAssumption ==
    /\ Symbols # {} /\ Channels \in BOOLEAN
    /\ MaxSeq \in Nat /\ MaxConns \in Nat

VARIABLES
    conns,       \* connections opened after the first
    next,        \* sequence number of the venue's next message
    awaiting,    \* symbols whose snapshot this connection has still to send
    last,        \* SequenceTracker._last, or Unseen
    gaps,        \* SequenceTracker.gaps
    valid,       \* BookBuilder.valid
    seqGaps,     \* BookBuilder.seq_gaps
    seen,        \* history: has this connection delivered a message?
    pending,     \* history: was the venue's latest message lost?
    holes,       \* history: runs of lost messages that a delivery ended
    stale,       \* history: symbols whose book misses an update
    gapsAtLoss   \* history: tracker gaps when a book began to miss one

venue == <<conns, next, awaiting>>
tracker == <<last, gaps>>
builders == <<valid, seqGaps>>
history == <<seen, pending, holes, stale, gapsAtLoss>>
vars == <<venue, tracker, builders, history>>

Unseen == -1

Init ==
    /\ conns = 0 /\ next = 0 /\ awaiting = Symbols
    /\ last = Unseen /\ gaps = 0
    /\ valid = [s \in Symbols |-> FALSE] /\ seqGaps = [s \in Symbols |-> 0]
    /\ seen = FALSE /\ pending = FALSE /\ holes = 0
    /\ stale = Symbols /\ gapsAtLoss = [s \in Symbols |-> 0]
-----------------------------------------------------------------------------
(* SequenceTracker.observe: contiguous, or a new connection's numbering.   *)
(* Slips: one missing number is forgiven; the number just seen is kept or  *)
(* advanced wrongly.                                                       *)
Contiguous == last = Unseen \/ next = last + 1
NewNumberingLoose == next <= last + 2
NewNumbering == next <= last
SeqOK == Contiguous \/ NewNumbering
Observe ==
    /\ last' = next
    /\ gaps' = IF SeqOK THEN gaps ELSE gaps + 1

Delivered ==
    /\ next < MaxSeq /\ next' = next + 1
    /\ Observe
    /\ seen' = TRUE /\ pending' = FALSE
    /\ holes' = IF pending THEN holes + 1 ELSE holes

(* A message with no book event: heartbeats, trades, acknowledgements.     *)
DeliverOther ==
    /\ Channels /\ Delivered
    /\ UNCHANGED <<conns, awaiting, builders, stale, gapsAtLoss>>

(* apply on a snapshot: whatever the tracker said, the book is loaded.     *)
DeliverSnapshot(s) ==
    /\ s \in awaiting /\ Delivered
    /\ awaiting' = awaiting \ {s}
    /\ valid' = [valid EXCEPT ![s] = TRUE]
    /\ stale' = stale \ {s}
    /\ UNCHANGED <<conns, seqGaps, gapsAtLoss>>

(* apply on an update: a gap invalidates this symbol's book; an invalid    *)
(* book ignores it.                                                        *)
ApplyUpdate(s) ==
    /\ seqGaps' = IF SeqOK THEN seqGaps ELSE [seqGaps EXCEPT ![s] = @ + 1]
    /\ valid' = IF SeqOK THEN valid ELSE [valid EXCEPT ![s] = FALSE]

DeliverUpdate(s) ==
    /\ s \notin awaiting /\ Delivered
    /\ ApplyUpdate(s)
    /\ UNCHANGED <<conns, awaiting, stale, gapsAtLoss>>
-----------------------------------------------------------------------------
(* A message of the connection that was never recorded.  The first message *)
(* of a connection is not lost: the tracker takes any number not above the *)
(* last one for a new numbering.                                           *)
Lost ==
    /\ seen /\ next < MaxSeq /\ next' = next + 1
    /\ pending' = TRUE
    /\ UNCHANGED <<conns, tracker, builders, seen, holes>>

Misses(s) ==
    /\ stale' = stale \cup {s}
    /\ gapsAtLoss' = IF s \in stale THEN gapsAtLoss ELSE [gapsAtLoss EXCEPT ![s] = gaps]

LoseOther == Channels /\ Lost /\ UNCHANGED <<awaiting, stale, gapsAtLoss>>

LoseUpdate(s) ==
    /\ s \notin awaiting /\ Lost /\ Misses(s)
    /\ UNCHANGED awaiting

LoseSnapshot(s) ==
    /\ s \in awaiting /\ Lost
    /\ awaiting' = awaiting \ {s}
    /\ stale' = stale \cup {s}
    /\ gapsAtLoss' = [gapsAtLoss EXCEPT ![s] = gaps]

(* The recorder reconnects: updates in between are lost, the venue numbers *)
(* from 0 and sends each symbol a snapshot first.  The books are kept.     *)
Reconnect ==
    /\ conns < MaxConns
    /\ conns' = conns + 1
    /\ next' = 0 /\ awaiting' = Symbols
    /\ seen' = FALSE /\ pending' = FALSE
    /\ stale' = Symbols
    /\ gapsAtLoss' = [s \in Symbols |-> gaps]
    /\ UNCHANGED <<tracker, builders, holes>>

Next ==
    \/ DeliverOther \/ LoseOther \/ Reconnect
    \/ \E s \in Symbols : \/ DeliverSnapshot(s) \/ DeliverUpdate(s)
                          \/ LoseUpdate(s) \/ LoseSnapshot(s)

Spec == Init /\ [][Next]_vars
-----------------------------------------------------------------------------
TypeOK ==
    /\ conns \in 0..MaxConns /\ next \in 0..MaxSeq /\ awaiting \subseteq Symbols
    /\ last \in Unseen..MaxSeq /\ gaps \in Nat /\ (seen => last < next)
    /\ valid \in [Symbols -> BOOLEAN] /\ seqGaps \in [Symbols -> Nat]
    /\ seen \in BOOLEAN /\ pending \in BOOLEAN /\ holes \in Nat
    /\ stale \subseteq Symbols /\ gapsAtLoss \in [Symbols -> Nat]

(* Never silently interpolate: a valid book that misses an update exists   *)
(* only until the next message, or after a reconnect until its snapshot    *)
(* (module docstring of builder.py).                                       *)
StaleBookInvalidated ==
    \A s \in Symbols : valid[s] /\ s \in stale => pending \/ s \in awaiting

(* The tracker itself misses nothing: whatever channel the message that    *)
(* follows a loss belongs to, a book that misses an update or its snapshot *)
(* has a gap counted since, across reconnects and new numberings.          *)
StalenessLeavesTrace ==
    \A s \in Symbols :
        s \in stale /\ s \notin awaiting /\ ~pending => gaps > gapsAtLoss[s]

(* The count is exact: one gap for each run of lost messages that another  *)
(* message followed; no reconnect invents or hides one.                    *)
GapsAreHoles == gaps = holes
-----------------------------------------------------------------------------
(* The inductive invariant behind the two.  The tracker is level with the  *)
(* connection unless a loss is pending; a connection that has delivered    *)
(* nothing yet starts numbering below what the tracker last saw.           *)
TrackerLevel ==
    /\ seen => last # Unseen
    /\ seen /\ ~pending => last = next - 1
    /\ seen /\ pending => last < next - 1
    /\ ~seen => next = 0 /\ ~pending /\ awaiting = Symbols

LossDated ==
    \A s \in stale : /\ gapsAtLoss[s] <= gaps
                     /\ s \in awaiting \/ pending \/ gapsAtLoss[s] < gaps

ReplayInv == TypeOK /\ TrackerLevel /\ LossDated /\ GapsAreHoles
=============================================================================
