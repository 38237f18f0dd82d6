--------------------------- MODULE Capture_proof ---------------------------
(***************************************************************************)
(* What the recorder promises of its files for every clock bound, hour     *)
(* length, timeout and number of processes: the capture loop, the timeline *)
(* over several lives, the session markers and the hour files.             *)
(***************************************************************************)
EXTENDS MCCapture, DataLemmas

(* The timeouts are within the grace an unnoticed loss may take.            *)
LEMMA GraceBound == Grace \in Nat /\ PingBound <= Grace /\ CloseBound <= Grace
  BY RecorderAssumption DEF Grace

(* Hours are numbers.                                                       *)
LEMMA HourIsNat == \A t \in Nat : Hour(t) \in Nat
  BY RecorderAssumption DEF Hour

(* Every step keeps every variable in its type.                            *)
LEMMA TypeStep == TypeOK /\ [Next]_vars => TypeOK'
<1> SUFFICES ASSUME TypeOK, [Next]_vars PROVE TypeOK'
  OBVIOUS
<1> USE RecorderAssumption, GraceBound, HourIsNat
        DEF TypeOK, TimeOrNone, Time, NoTime, Places, Terminal, process, files, history
<1>1. CASE ConnectFails
  BY <1>1 DEF ConnectFails, HandleFailure, AfterTry
<1>2. CASE ConnectFirst
  BY <1>2 DEF ConnectFirst
<1>3. CASE Reconnect
  <2>1. <<disconnect, now>> \in Nat \X Nat
    BY <1>3 DEF Reconnect
  <2>2. gaps' \in Seq(Nat \X Nat)
    BY <1>3, <2>1 DEF Reconnect
  <2>. QED BY <1>3, <2>2 DEF Reconnect
<1>4. CASE GapLogFails
  BY <1>4 DEF GapLogFails, Abort
<1>5. CASE NegativeGap
  BY <1>5 DEF NegativeGap
<1>6. CASE Subscribe
  BY <1>6 DEF Subscribe
<1>7. CASE KeepaliveFails
  BY <1>7 DEF KeepaliveFails, HandleFailure, AfterTry
<1>8. CASE AbortEnds
  BY <1>8 DEF AbortEnds, HandleFailure, AfterTry
<1>9. CASE LeaveEnds
  BY <1>9 DEF LeaveEnds, AfterTry
<1>10. CASE CloseOnStop
  BY <1>10 DEF CloseOnStop, AfterTry
<1>11. CASE BackoffEnds
  BY <1>11 DEF BackoffEnds
<1>12. CASE BackoffOverflows
  BY <1>12 DEF BackoffOverflows
<1>13. CASE VenueDrops
  BY <1>13 DEF VenueDrops, HandleFailure, AfterTry
<1>14. CASE LinkDies
  BY <1>14 DEF LinkDies
<1>15. CASE VenueClosesCleanly
  <2>1. steady' \in BOOLEAN
    BY <1>15 DEF VenueClosesCleanly
  <2>. QED BY <1>15, <2>1 DEF VenueClosesCleanly, AfterTry
<1>16. CASE Capture
  BY <1>16 DEF Capture, Frame
<1>17. CASE CaptureFails
  BY <1>17 DEF CaptureFails, Frame, Abort
<1>18. CASE WriterNotOpen
  BY <1>18 DEF WriterNotOpen
<1>19. CASE SetStop
  BY <1>19 DEF SetStop
<1>20. CASE Tick
  BY <1>20 DEF Tick, Capturing
<1>21. CASE ClockStepsBack
  <2>1. steady' \in BOOLEAN
    BY <1>21 DEF ClockStepsBack
  <2>2. now' \in Time
    BY <1>21 DEF ClockStepsBack
  <2>. QED BY <1>21, <2>1, <2>2 DEF ClockStepsBack
<1>22. CASE UNCHANGED vars
  BY <1>22 DEF vars
<1>. QED
  BY <1>1, <1>2, <1>3, <1>4, <1>5, <1>6, <1>7, <1>8, <1>9, <1>10, <1>11, <1>12,
     <1>13, <1>14, <1>15, <1>16, <1>17, <1>18, <1>19, <1>20, <1>21, <1>22
     DEF Next, Loop, Environment

(* The capture loop starts well typed.                                      *)
LEMMA TypeInit == Init => TypeOK
<1> SUFFICES ASSUME Init PROVE TypeOK
  OBVIOUS
<1>1. <<>> \in Seq(Nat \X Nat)
  OBVIOUS
<1>2. now \in Time /\ pc \in Places /\ attempt \in Nat /\ disconnect \in TimeOrNone
  BY DEF Init, TimeOrNone, Time, NoTime, Places, Terminal
<1>3. stop \in BOOLEAN /\ fileOpen \in BOOLEAN /\ observed \in BOOLEAN /\ steady \in BOOLEAN
  BY DEF Init
<1>4. fileHour \in TimeOrNone /\ since \in TimeOrNone
  BY DEF Init, TimeOrNone
<1>5. gaps \in Seq(Time \X Time) /\ raw \subseteq Time /\ missed \subseteq Time
  BY <1>1 DEF Init, Time
<1>. QED BY <1>2, <1>3, <1>4, <1>5 DEF TypeOK

(* The recorder's variables keep their types whatever the venue, the disk  *)
(* and the clock do.                                                       *)
THEOREM TypeCorrect == Spec => []TypeOK
  BY TypeInit, TypeStep, PTL DEF Spec
-----------------------------------------------------------------------------
(* What appending a window to the sidecar does.                             *)
LEMMA AppendedGap ==
    ASSUME NEW g \in Seq(Nat \X Nat), NEW w \in Nat \X Nat
    PROVE  /\ DOMAIN Append(g, w) = DOMAIN g \cup {Len(g) + 1}
           /\ \A i \in DOMAIN g : Append(g, w)[i] = g[i] /\ i < Len(g) + 1
           /\ Append(g, w)[Len(g) + 1] = w
           /\ DOMAIN g \subseteq Nat
  OBVIOUS

(* How long a silent loss lasts, from step to step.                         *)
LEMMA SinceStep ==
    steady' /\ TypeOK /\ SinceRecent /\ OutagePending /\ [Next]_vars => SinceRecent'
<1> SUFFICES ASSUME steady', TypeOK, SinceRecent, OutagePending, [Next]_vars
             PROVE SinceRecent'
  OBVIOUS
<1> USE GraceBound, RecorderAssumption
    DEF SinceRecent, TypeOK, TimeOrNone, Time, NoTime, Places, Terminal, process, files, history
<1>1. CASE ConnectFails
  BY <1>1 DEF ConnectFails, HandleFailure, AfterTry
<1>2. CASE ConnectFirst
  BY <1>2 DEF ConnectFirst
<1>3. CASE Reconnect
  BY <1>3 DEF Reconnect
<1>4. CASE GapLogFails
  BY <1>4 DEF GapLogFails, Abort
<1>5. CASE NegativeGap
  BY <1>5 DEF NegativeGap
<1>6. CASE Subscribe
  BY <1>6 DEF Subscribe
<1>7. CASE KeepaliveFails
  BY <1>7 DEF KeepaliveFails, HandleFailure, AfterTry
<1>8. CASE AbortEnds
  BY <1>8 DEF AbortEnds, HandleFailure, AfterTry
<1>9. CASE LeaveEnds
  BY <1>9 DEF LeaveEnds, AfterTry
<1>10. CASE CloseOnStop
  BY <1>10 DEF CloseOnStop, AfterTry
<1>11. CASE BackoffEnds
  BY <1>11 DEF BackoffEnds
<1>12. CASE BackoffOverflows
  BY <1>12 DEF BackoffOverflows
<1>13. CASE VenueDrops
  BY <1>13 DEF VenueDrops, HandleFailure, AfterTry
<1>14. CASE LinkDies
  BY <1>14 DEF LinkDies
<1>15. CASE VenueClosesCleanly
  BY <1>15 DEF VenueClosesCleanly
<1>16. CASE Capture
  BY <1>16 DEF Capture, Frame
<1>17. CASE CaptureFails
  BY <1>17 DEF CaptureFails, Frame, Abort
<1>18. CASE WriterNotOpen
  BY <1>18 DEF WriterNotOpen, Frame
<1>19. CASE SetStop
  BY <1>19 DEF SetStop
<1>20. CASE Tick
  BY <1>20 DEF Tick, Capturing
<1>21. CASE ClockStepsBack
  BY <1>21 DEF ClockStepsBack
<1>22. CASE UNCHANGED vars
  BY <1>22 DEF vars
<1>. QED
  BY <1>1, <1>2, <1>3, <1>4, <1>5, <1>6, <1>7, <1>8, <1>9, <1>10, <1>11, <1>12,
     <1>13, <1>14, <1>15, <1>16, <1>17, <1>18, <1>19, <1>20, <1>21, <1>22
     DEF Next, Loop, Environment

(* An outage is pending exactly between connections, once anything happened.*)
LEMMA OutageStep ==
    steady' /\ TypeOK /\ SinceRecent /\ OutagePending /\ [Next]_vars => OutagePending'
<1> SUFFICES ASSUME steady', TypeOK, SinceRecent, OutagePending, [Next]_vars
             PROVE OutagePending'
  OBVIOUS
<1> USE DEF SinceRecent, OutagePending, TypeOK, TimeOrNone, Time, NoTime, Places, Terminal,
            process, files, history
<1>1. CASE ConnectFails
  BY <1>1 DEF ConnectFails, HandleFailure, AfterTry
<1>2. CASE ConnectFirst
  BY <1>2 DEF ConnectFirst
<1>3. CASE Reconnect
  BY <1>3 DEF Reconnect
<1>4. CASE GapLogFails
  BY <1>4 DEF GapLogFails, Abort
<1>5. CASE NegativeGap
  BY <1>5 DEF NegativeGap
<1>6. CASE Subscribe
  BY <1>6 DEF Subscribe
<1>7. CASE KeepaliveFails
  BY <1>7 DEF KeepaliveFails, HandleFailure, AfterTry
<1>8. CASE AbortEnds
  BY <1>8 DEF AbortEnds, HandleFailure, AfterTry
<1>9. CASE LeaveEnds
  BY <1>9 DEF LeaveEnds, AfterTry
<1>10. CASE CloseOnStop
  BY <1>10 DEF CloseOnStop, AfterTry
<1>11. CASE BackoffEnds
  BY <1>11 DEF BackoffEnds
<1>12. CASE BackoffOverflows
  BY <1>12 DEF BackoffOverflows
<1>13. CASE VenueDrops
  BY <1>13 DEF VenueDrops, HandleFailure, AfterTry
<1>14. CASE LinkDies
  BY <1>14 DEF LinkDies
<1>15. CASE VenueClosesCleanly
  BY <1>15 DEF VenueClosesCleanly
<1>16. CASE Capture
  BY <1>16 DEF Capture, Frame
<1>17. CASE CaptureFails
  BY <1>17 DEF CaptureFails, Frame, Abort
<1>18. CASE WriterNotOpen
  BY <1>18 DEF WriterNotOpen, Frame
<1>19. CASE SetStop
  BY <1>19 DEF SetStop
<1>20. CASE Tick
  BY <1>20 DEF Tick, Capturing
<1>21. CASE ClockStepsBack
  BY <1>21 DEF ClockStepsBack
<1>22. CASE UNCHANGED vars
  BY <1>22 DEF vars
<1>. QED
  BY <1>1, <1>2, <1>3, <1>4, <1>5, <1>6, <1>7, <1>8, <1>9, <1>10, <1>11, <1>12,
     <1>13, <1>14, <1>15, <1>16, <1>17, <1>18, <1>19, <1>20, <1>21, <1>22
     DEF Next, Loop, Environment

(* Time passing leaves the disk behind the clock.                          *)
LEMMA DiskTick == TypeOK /\ DiskInPast /\ Tick => DiskInPast'
<1> SUFFICES ASSUME TypeOK, DiskInPast, Tick PROVE DiskInPast'
  OBVIOUS
<1>1. /\ now' = now + 1 /\ missed' \subseteq missed \cup {now}
      /\ gaps' = gaps /\ raw' = raw /\ disconnect' = disconnect
  BY DEF Tick, process, files
<1>2. \A i \in DOMAIN gaps : End(gaps[i]) \in Nat
  BY DEF TypeOK, Time, End
<1>3. now \in Nat /\ raw \subseteq Nat /\ missed \subseteq Nat
  BY DEF TypeOK, Time
<1>4. \A t \in missed' : t < now'
  BY <1>1, <1>3 DEF DiskInPast
<1>5. \A i \in DOMAIN gaps : End(gaps[i]) <= now'
  BY <1>1, <1>2, <1>3 DEF DiskInPast
<1>6. \A t \in raw : t <= now'
  BY <1>1, <1>3 DEF DiskInPast
<1>. QED BY <1>1, <1>4, <1>5, <1>6 DEF DiskInPast

(* What is on disk lies in the past and before the pending outage.         *)
LEMMA DiskStep ==
    steady' /\ TypeOK /\ SinceRecent /\ OutagePending /\ DiskInPast /\ [Next]_vars => DiskInPast'
<1> SUFFICES ASSUME steady', TypeOK, SinceRecent, OutagePending, DiskInPast, [Next]_vars
             PROVE DiskInPast'
  OBVIOUS
<1> USE DEF DiskInPast, SinceRecent, OutagePending, TypeOK, TimeOrNone, Time, NoTime,
            Places, Terminal, process, files, history, Begin, End
<1>1. CASE ConnectFails
  BY <1>1 DEF ConnectFails, HandleFailure, AfterTry
<1>2. CASE ConnectFirst
  BY <1>2 DEF ConnectFirst
<1>3. CASE Reconnect
  <2>1. <<disconnect, now>> \in Nat \X Nat
    BY <1>3 DEF Reconnect
  <2>2. \A i \in DOMAIN gaps' : \/ i \in DOMAIN gaps /\ gaps'[i] = gaps[i]
                              \/ gaps'[i] = <<disconnect, now>>
    BY <1>3, <2>1, AppendedGap DEF Reconnect
  <2>. QED BY <1>3, <2>2 DEF Reconnect
<1>4. CASE GapLogFails
  BY <1>4 DEF GapLogFails, Abort
<1>5. CASE NegativeGap
  BY <1>5 DEF NegativeGap
<1>6. CASE Subscribe
  BY <1>6 DEF Subscribe
<1>7. CASE KeepaliveFails
  BY <1>7 DEF KeepaliveFails, HandleFailure, AfterTry
<1>8. CASE AbortEnds
  BY <1>8 DEF AbortEnds, HandleFailure, AfterTry
<1>9. CASE LeaveEnds
  BY <1>9 DEF LeaveEnds, AfterTry
<1>10. CASE CloseOnStop
  BY <1>10 DEF CloseOnStop, AfterTry
<1>11. CASE BackoffEnds
  BY <1>11 DEF BackoffEnds
<1>12. CASE BackoffOverflows
  BY <1>12 DEF BackoffOverflows
<1>13. CASE VenueDrops
  BY <1>13 DEF VenueDrops, HandleFailure, AfterTry
<1>14. CASE LinkDies
  BY <1>14 DEF LinkDies
<1>15. CASE VenueClosesCleanly
  BY <1>15 DEF VenueClosesCleanly
<1>16. CASE Capture
  BY <1>16 DEF Capture, Frame
<1>17. CASE CaptureFails
  BY <1>17 DEF CaptureFails, Frame, Abort
<1>18. CASE WriterNotOpen
  BY <1>18 DEF WriterNotOpen, Frame
<1>19. CASE SetStop
  BY <1>19 DEF SetStop
<1>20. CASE Tick
  BY <1>20, DiskTick
<1>21. CASE ClockStepsBack
  BY <1>21 DEF ClockStepsBack
<1>22. CASE UNCHANGED vars
  BY <1>22 DEF vars
<1>. QED
  BY <1>1, <1>2, <1>3, <1>4, <1>5, <1>6, <1>7, <1>8, <1>9, <1>10, <1>11, <1>12,
     <1>13, <1>14, <1>15, <1>16, <1>17, <1>18, <1>19, <1>20, <1>21, <1>22
     DEF Next, Loop, Environment
-----------------------------------------------------------------------------
(* A lost tick stays known to the recorder: it is accounted for, or run()  *)
(* was told to stop before a timeout noticed it.                           *)
Known(t) == Accounted(t) \/ (pc \in Terminal /\ now - Grace <= t)

(* The failure handler keeps every loss accounted for: what was unnoticed  *)
(* is at most one timeout before the outage it opens or joins.             *)
LEMMA FailureKeepsAccounts ==
    ASSUME TypeOK, SinceRecent, OutagePending, HandleFailure, now' = now, gaps' = gaps,
           NEW t \in missed, Accounted(t)
    PROVE  Accounted(t)'
<1>1. /\ now \in Nat /\ disconnect \in Nat \cup {-1} /\ since \in Nat \cup {-1}
      /\ missed \subseteq Nat /\ Grace \in Nat
  BY GraceBound DEF TypeOK, Time, TimeOrNone, NoTime
<1>3. /\ disconnect' # NoTime /\ disconnect' <= now
      /\ disconnect # NoTime => disconnect' = disconnect
  BY <1>1 DEF HandleFailure, OutagePending, NoTime
<1>4. CASE InGap(t)
  BY <1>4 DEF Accounted, InGap
<1>5. CASE disconnect # NoTime /\ disconnect - Grace <= t
  BY <1>3, <1>5 DEF Accounted
<1>6. CASE since # NoTime /\ since <= t /\ now - since <= Grace
  <2>1. disconnect' \in Nat
    BY <1>1, <1>3 DEF HandleFailure, NoTime
  <2>2. disconnect' - Grace <= t
    <3>1. since \in Nat /\ t \in Nat
      BY <1>1, <1>6 DEF NoTime
    <3>2. now \in Nat /\ Grace \in Nat /\ disconnect' <= now
      BY <1>1, <1>3
    <3>3. since <= t /\ now - since <= Grace
      BY <1>6
    <3>4. now - Grace <= t
      BY <3>1, <3>2, <3>3
    <3>5. \A d \in Nat : d <= now => d - Grace <= t
      BY <3>1, <3>2, <3>4
    <3>. QED BY <2>1, <3>2, <3>5
  <2>. QED BY <1>3, <2>2 DEF Accounted
<1>. QED BY <1>4, <1>5, <1>6 DEF Accounted

(* A step that leaves the clock, the gaps and the outage alone and starts   *)
(* at most a new loss keeps what is known of a loss.                       *)
LEMMA QuietKeepsKnown ==
    ASSUME NEW t, Known(t), pc \in Terminal => pc' \in Terminal,
           since = NoTime \/ since' = since,
           now' = now, gaps' = gaps, disconnect' = disconnect
    PROVE  Known(t)'
  BY DEF Known, Accounted, InGap

(* A loop told to stop leaves before a timeout notices its last loss.      *)
LEMMA LeavingKeepsKnown ==
    ASSUME TypeOK, NEW t \in missed, Accounted(t), pc' = "returned",
           now' = now, gaps' = gaps, disconnect' = disconnect
    PROVE  Known(t)'
<1>1. now \in Nat /\ since \in Nat \cup {-1} /\ t \in Nat /\ Grace \in Nat
  BY GraceBound DEF TypeOK, Time, TimeOrNone, NoTime
<1>2. CASE since # NoTime /\ since <= t /\ now - since <= Grace
  <2>1. now - Grace <= t
    BY <1>1, <1>2 DEF NoTime
  <2>2. now' - Grace <= t
    BY <2>1
  <2>. QED BY <2>2 DEF Known, Terminal
<1>3. CASE InGap(t) \/ (disconnect # NoTime /\ disconnect - Grace <= t)
  BY <1>3 DEF Known, Accounted, InGap
<1>. QED BY <1>2, <1>3 DEF Accounted

(* A reconnect turns the pending outage into a window and loses none of it. *)
LEMMA ReconnectKeepsAccounts ==
    ASSUME TypeOK, SinceRecent, DiskInPast, Reconnect, NEW t \in missed, Accounted(t)
    PROVE  InGap(t)'
<1>1. now \in Nat /\ disconnect \in Nat /\ gaps \in Seq(Nat \X Nat)
      /\ missed \subseteq Nat
  BY DEF TypeOK, Time, TimeOrNone, Reconnect
<1>2. /\ gaps' = Append(gaps, <<disconnect, now>>) /\ missed' = missed
      /\ pc \notin Terminal /\ since = NoTime
  BY DEF Reconnect, SinceRecent, Terminal, history
<1>3. InGap(t) \/ disconnect - Grace <= t
  BY <1>2 DEF Accounted
<1>4. /\ DOMAIN gaps' = DOMAIN gaps \cup {Len(gaps) + 1}
      /\ \A i \in DOMAIN gaps : gaps'[i] = gaps[i]
      /\ gaps'[Len(gaps) + 1] = <<disconnect, now>>
  BY <1>1, <1>2, AppendedGap
<1>5. CASE InGap(t)
  BY <1>4, <1>5 DEF InGap
<1>6. CASE disconnect - Grace <= t
  <2>1. t < now
    BY DEF DiskInPast
  <2>. QED BY <1>4, <1>6, <2>1 DEF InGap, Begin, End
<1>. QED BY <1>3, <1>5, <1>6

(* A tick that is lost belongs to the outage that is pending or to come.    *)
LEMMA TickKeepsAccounts ==
    ASSUME TypeOK, SinceRecent, OutagePending, Tick,
           NEW t \in missed', t \in missed => Accounted(t)
    PROVE  Accounted(t)'
<1>1. /\ now \in Nat /\ disconnect \in Nat \cup {-1} /\ since \in Nat \cup {-1}
      /\ missed \subseteq Nat /\ Grace \in Nat /\ PingBound \in Nat /\ CloseBound \in Nat
      /\ pc \in Places
  BY GraceBound, RecorderAssumption DEF TypeOK, Time, TimeOrNone, NoTime
<1>2. /\ now' = now + 1 /\ gaps' = gaps /\ pc' = pc /\ disconnect' = disconnect
      /\ since' = since /\ observed' = observed /\ pc \notin Terminal \cup {"subscribing"}
  BY DEF Tick, process, files
<1>3. since # NoTime => since <= now /\ now + 1 - since <= Grace
  BY <1>1, <1>2, GraceBound DEF Tick, SinceRecent, Places, Terminal, NoTime
<1>4. CASE t \in missed
  <2>1. Accounted(t)
    BY <1>4
  <2>2. CASE InGap(t)
    BY <1>2, <2>2 DEF Accounted, InGap
  <2>3. CASE disconnect # NoTime /\ disconnect - Grace <= t
    BY <1>2, <2>3 DEF Accounted
  <2>4. CASE since # NoTime /\ since <= t
    BY <1>1, <1>2, <1>3, <2>4 DEF Accounted, NoTime
  <2>. QED BY <2>1, <2>2, <2>3, <2>4 DEF Accounted
<1>5. ASSUME t = now, observed, ~Capturing PROVE Accounted(t)'
  <2>1. CASE since # NoTime
    BY <1>1, <1>2, <1>3, <1>5, <2>1 DEF Accounted, NoTime
  <2>2. CASE since = NoTime
    <3>1. pc \in {"connecting", "backoff"}
      BY <1>1, <1>2, <1>5, <2>2 DEF Capturing, SinceRecent, Places, Terminal
    <3>2. disconnect # NoTime /\ disconnect <= now
      BY <1>5, <3>1 DEF OutagePending
    <3>3. disconnect - Grace <= now
      BY <1>1, <3>2 DEF NoTime
    <3>. QED BY <1>2, <1>5, <3>2, <3>3 DEF Accounted
  <2>. QED BY <2>1, <2>2
<1>6. missed' \subseteq missed \/ (observed /\ ~Capturing /\ missed' = missed \cup {now})
  BY DEF Tick
<1>. QED BY <1>4, <1>5, <1>6

(* No step forgets a lost tick, and the tick it loses itself is known.     *)
LEMMA KnownStep ==
    ASSUME steady', TypeOK, SinceRecent, OutagePending, DiskInPast, [Next]_vars,
           NEW t \in missed', t \in missed => Known(t)
    PROVE  Known(t)'
<1>0. pc \notin Terminal => (t \in missed => Accounted(t))
  BY DEF Known
<1>1. CASE ConnectFails
  BY <1>0, <1>1, FailureKeepsAccounts DEF ConnectFails, Terminal, files, Known
<1>2. CASE ConnectFirst
  BY <1>2, QuietKeepsKnown DEF ConnectFirst, Terminal, process, files, history
<1>3. CASE Reconnect
  <2>1. t \in missed /\ pc \notin Terminal
    BY <1>3 DEF Reconnect, Terminal, history
  <2>. QED BY <1>0, <1>3, <2>1, ReconnectKeepsAccounts DEF Known, Accounted
<1>4. CASE GapLogFails
  BY <1>4, QuietKeepsKnown DEF GapLogFails, SinceRecent, Abort, Terminal, files
<1>5. CASE NegativeGap
  BY <1>5, QuietKeepsKnown DEF NegativeGap, Terminal, files, history
<1>6. CASE Subscribe
  BY <1>6, QuietKeepsKnown DEF Subscribe, Terminal, process, files, history
<1>7. CASE KeepaliveFails
  BY <1>0, <1>7, FailureKeepsAccounts DEF KeepaliveFails, Terminal, files, Known
<1>8. CASE AbortEnds
  BY <1>0, <1>8, FailureKeepsAccounts DEF AbortEnds, Terminal, files, Known
<1>9. CASE LeaveEnds
  <2>1. t \in missed /\ pc \notin Terminal /\ pc' = "returned"
    BY <1>9 DEF LeaveEnds, AfterTry, SinceRecent, Terminal
  <2>. QED BY <1>0, <1>9, <2>1, LeavingKeepsKnown DEF LeaveEnds, files
<1>10. CASE CloseOnStop
  <2>1. t \in missed /\ pc \notin Terminal /\ pc' = "returned"
    BY <1>10 DEF CloseOnStop, AfterTry, Terminal
  <2>. QED BY <1>0, <1>10, <2>1, LeavingKeepsKnown DEF CloseOnStop, files
<1>11. CASE BackoffEnds
  BY <1>11, QuietKeepsKnown DEF BackoffEnds, Terminal, process, files, history
<1>12. CASE BackoffOverflows
  BY <1>12, QuietKeepsKnown DEF BackoffOverflows, Terminal, files, history
<1>13. CASE VenueDrops
  BY <1>0, <1>13, FailureKeepsAccounts DEF VenueDrops, Terminal, files, Known
<1>14. CASE LinkDies
  BY <1>14, QuietKeepsKnown DEF LinkDies, Terminal, process, files, history
<1>15. CASE VenueClosesCleanly
  BY <1>15 DEF VenueClosesCleanly
<1>16. CASE Capture
  BY <1>16, QuietKeepsKnown DEF Capture, Frame, Terminal
<1>17. CASE CaptureFails
  BY <1>17, QuietKeepsKnown DEF CaptureFails, Frame, Abort, Terminal
<1>18. CASE WriterNotOpen
  BY <1>18, QuietKeepsKnown DEF WriterNotOpen, Terminal, files, history
<1>19. CASE SetStop
  BY <1>19, QuietKeepsKnown DEF SetStop, files, history
<1>20. CASE Tick
  <2>1. pc \notin Terminal
    BY <1>20 DEF Tick
  <2>. QED BY <1>0, <1>20, <2>1, TickKeepsAccounts DEF Known
<1>21. CASE ClockStepsBack
  BY <1>21 DEF ClockStepsBack
<1>22. CASE UNCHANGED vars
  BY <1>22, QuietKeepsKnown DEF vars, process, files, history
<1>. QED
  BY <1>1, <1>2, <1>3, <1>4, <1>5, <1>6, <1>7, <1>8, <1>9, <1>10, <1>11, <1>12,
     <1>13, <1>14, <1>15, <1>16, <1>17, <1>18, <1>19, <1>20, <1>21, <1>22
     DEF Next, Loop, Environment

(* A loop that has ended stays so.                                         *)
LEMMA EndedStaysEnded == [Next]_vars /\ pc \in Terminal => pc' \in Terminal
  BY DEF Next, Loop, Environment, vars, process, Terminal, ConnectFails, ConnectFirst, GapLogFails,
         NegativeGap, Subscribe, KeepaliveFails, AbortEnds, LeaveEnds, CloseOnStop, Reconnect,
         BackoffEnds, BackoffOverflows, VenueDrops, LinkDies, VenueClosesCleanly, Frame,
         Capture, CaptureFails, WriterNotOpen, SetStop, Tick, ClockStepsBack

(* While the loop runs, no step loses a missed tick.                       *)
LEMMA AccountsStep ==
    steady' /\ TypeOK /\ SinceRecent /\ OutagePending /\ DiskInPast /\ LossesInSidecar /\ [Next]_vars => LossesInSidecar'
<1> SUFFICES ASSUME steady', TypeOK, SinceRecent, OutagePending, DiskInPast, LossesInSidecar, [Next]_vars,
                    pc' \notin Terminal, NEW t \in missed'
             PROVE  Accounted(t)'
  BY DEF LossesInSidecar
<1>1. t \in missed => Known(t)
  BY EndedStaysEnded DEF LossesInSidecar, Known
<1>2. Known(t)'
  BY <1>1, KnownStep
<1>. QED BY <1>2 DEF Known
-----------------------------------------------------------------------------
(* Only a reconnection adds a gap, and only a capture adds a message.      *)
LEMMA OnlyReconnectLogs ==
    [Next]_vars => Reconnect \/ UNCHANGED gaps
  BY DEF Next, Loop, Environment, vars, files, ConnectFails, ConnectFirst, GapLogFails,
         NegativeGap, Subscribe, KeepaliveFails, AbortEnds, LeaveEnds, CloseOnStop,
         BackoffEnds, BackoffOverflows, VenueDrops, LinkDies, VenueClosesCleanly,
         Capture, CaptureFails, WriterNotOpen, SetStop, Tick, ClockStepsBack

(* Only a delivery stores a message.                                        *)
LEMMA OnlyCaptureStores ==
    [Next]_vars => Capture \/ UNCHANGED raw
  BY DEF Next, Loop, Environment, vars, files, ConnectFails, ConnectFirst, GapLogFails,
         NegativeGap, Subscribe, KeepaliveFails, AbortEnds, LeaveEnds, CloseOnStop, Reconnect,
         BackoffEnds, BackoffOverflows, VenueDrops, LinkDies, VenueClosesCleanly,
         CaptureFails, WriterNotOpen, SetStop, Tick, ClockStepsBack

(* A reconnection appends the window from the pending outage to now.       *)
LEMMA ReconnectAppends ==
    ASSUME TypeOK, Reconnect
    PROVE  /\ DOMAIN gaps' = DOMAIN gaps \cup {Len(gaps) + 1}
           /\ \A i \in DOMAIN gaps : gaps'[i] = gaps[i] /\ i < Len(gaps) + 1
           /\ gaps'[Len(gaps) + 1] = <<disconnect, now>>
           /\ raw' = raw /\ disconnect # NoTime
<1>1. gaps \in Seq(Nat \X Nat) /\ <<disconnect, now>> \in Nat \X Nat
  BY DEF TypeOK, Time, TimeOrNone, Reconnect
<1>2. gaps' = Append(gaps, <<disconnect, now>>)
  BY DEF Reconnect
<1>. QED BY <1>1, <1>2, AppendedGap DEF Reconnect

(* History is not forgotten: a steady state follows only a steady one.     *)
LEMMA SteadyBefore == [Next]_vars /\ steady' => steady
  BY DEF Next, Loop, Environment, vars, history, ConnectFails, ConnectFirst, GapLogFails,
         NegativeGap, Subscribe, KeepaliveFails, AbortEnds, LeaveEnds, CloseOnStop, Reconnect,
         BackoffEnds, BackoffOverflows, VenueDrops, LinkDies, VenueClosesCleanly,
         Capture, CaptureFails, WriterNotOpen, SetStop, Tick, ClockStepsBack

(* No step puts a message and a gap over each other.                        *)
LEMMA CaptureStep ==
    steady /\ steady' /\ TypeOK /\ DiskInPast /\ NoCaptureInsideGap /\ [Next]_vars => NoCaptureInsideGap'
<1> SUFFICES ASSUME steady, steady', TypeOK, DiskInPast, NoCaptureInsideGap, [Next]_vars
             PROVE NoCaptureInsideGap'
  OBVIOUS
<1>0. /\ \A i \in DOMAIN gaps : End(gaps[i]) \in Nat
      /\ now \in Nat /\ raw \subseteq Nat
  BY DEF TypeOK, Time, End
<1>1. CASE Reconnect
  <2>1. \A t \in raw : t <= disconnect
    BY <1>1, ReconnectAppends DEF DiskInPast
  <2>2. \A t \in raw : ~(Begin(<<disconnect, now>>) < t)
    BY <1>0, <1>1, <2>1 DEF Begin, TypeOK, Time, TimeOrNone, Reconnect
  <2>. QED BY <1>1, <2>2, ReconnectAppends DEF NoCaptureInsideGap
<1>2. CASE Capture
  <2>1. raw' = raw \cup {now} /\ gaps' = gaps
    BY <1>2 DEF Capture
  <2>2. \A i \in DOMAIN gaps : ~(now < End(gaps[i]))
    BY <1>0 DEF DiskInPast
  <2>. QED BY <2>1, <2>2 DEF NoCaptureInsideGap
<1>3. CASE UNCHANGED <<gaps, raw>>
  BY <1>3 DEF NoCaptureInsideGap
<1>. QED BY <1>1, <1>2, <1>3, OnlyReconnectLogs, OnlyCaptureStores

(* Every step keeps the gaps in order and apart.                            *)
LEMMA OrderStep ==
    steady /\ steady' /\ TypeOK /\ DiskInPast /\ GapsOldestFirst /\ [Next]_vars => GapsOldestFirst'
<1> SUFFICES ASSUME steady, steady', TypeOK, DiskInPast, GapsOldestFirst, [Next]_vars
             PROVE GapsOldestFirst'
  OBVIOUS
<1>1. CASE Reconnect
  <2>1. \A i \in DOMAIN gaps : End(gaps[i]) <= Begin(<<disconnect, now>>)
    BY <1>1, ReconnectAppends DEF DiskInPast, Begin
  <2>2. ASSUME NEW i \in DOMAIN gaps', NEW j \in DOMAIN gaps', i < j
        PROVE  i \in DOMAIN gaps
    BY <1>1, <2>2, ReconnectAppends DEF TypeOK
  <2>. QED BY <1>1, <2>1, <2>2, ReconnectAppends DEF GapsOldestFirst
<1>2. CASE UNCHANGED gaps
  BY <1>2 DEF GapsOldestFirst
<1>. QED BY <1>1, <1>2, OnlyReconnectLogs

(* The invariant holds at the start.                                        *)
LEMMA InvInit == Init => IInv
<1> SUFFICES ASSUME Init PROVE IInv
  OBVIOUS
<1>1. DOMAIN gaps = {} /\ raw = {} /\ missed = {}
  BY DEF Init
<1>2. SinceRecent /\ OutagePending
  BY DEF Init, SinceRecent, OutagePending, NoTime
<1>3. DiskInPast /\ MissedAccounted /\ NoCaptureInsideGap /\ GapsOldestFirst
  BY <1>1 DEF DiskInPast, MissedAccounted, LossesInSidecar, NoCaptureInsideGap, GapsOldestFirst
<1>. QED BY <1>2, <1>3, TypeInit DEF IInv

(* Every step keeps the invariant.                                          *)
LEMMA InvStep == IInv /\ [Next]_vars => IInv'
<1> SUFFICES ASSUME IInv, [Next]_vars PROVE IInv'
  OBVIOUS
<1>1. TypeOK'
  BY TypeStep DEF IInv
<1>2. ASSUME steady'
      PROVE  /\ SinceRecent' /\ OutagePending' /\ DiskInPast' /\ LossesInSidecar'
             /\ NoCaptureInsideGap' /\ GapsOldestFirst'
  <2>1. steady
    BY <1>2, SteadyBefore
  <2>2. /\ TypeOK /\ SinceRecent /\ OutagePending /\ DiskInPast /\ LossesInSidecar
        /\ NoCaptureInsideGap /\ GapsOldestFirst
    BY <2>1 DEF IInv, MissedAccounted
  <2>. QED
    BY <1>2, <2>1, <2>2, SinceStep, OutageStep, DiskStep, AccountsStep, CaptureStep, OrderStep
<1>3. ASSUME ~steady' PROVE NoCaptureInsideGap' /\ GapsOldestFirst'
  BY <1>3 DEF NoCaptureInsideGap, GapsOldestFirst
<1>. QED BY <1>1, <1>2, <1>3 DEF IInv, MissedAccounted

(* The strengthened invariant holds in every reachable state, for all      *)
(* bounds, timeouts and faults.                                            *)
THEOREM InvCorrect == Spec => []IInv
  BY InvInit, InvStep, PTL DEF Spec

(* Until a clean close or a step of the clock, every tick without capture  *)
(* is covered by the gap sidecar, by the outage still open or by a loss    *)
(* younger than the timeouts (run, log_gap).                               *)
THEOREM LossesAccounted == Spec => []MissedAccounted
<1>1. IInv => MissedAccounted
  BY DEF IInv
<1>. QED BY <1>1, InvCorrect, PTL

(* What was captured and what is declared missing never overlap, and the   *)
(* sidecar is in time order (log_gap, read_gaps).                          *)
THEOREM DataAgreesWithGaps == Spec => [](NoCaptureInsideGap /\ GapsOldestFirst)
<1>1. IInv => NoCaptureInsideGap /\ GapsOldestFirst
  BY DEF IInv
<1>. QED BY <1>1, InvCorrect, PTL
-----------------------------------------------------------------------------
(* Why a finished frame stays as it is: the frame a writer extends is the  *)
(* one it opened itself, which no one has finished, and a writer with an   *)
(* hour key has that hour's file open.  In an hour without a crash every   *)
(* other frame is finished.                                                *)
Frames == [lines : Seq(Int), closed : BOOLEAN]
FileOpen(h) == isOpen /\ hourKey = h
FilesInv ==
    /\ tick \in 0..FileTicks /\ running \in BOOLEAN /\ isOpen \in BOOLEAN
    /\ hourKey \in Files!Hours \cup {Files!NoHour} /\ hourFiles \in [Files!Hours -> Seq(Frames)]
    /\ running /\ hourKey # Files!NoHour => isOpen
    /\ isOpen => running /\ hourKey \in Files!Hours
    /\ \A h \in Files!Hours : FileOpen(h) => hourFiles[h] # <<>> /\ ~Files!Last(hourFiles[h]).closed
    /\ \A h \in Files!Hours \ broken : \A i \in 1..Len(hourFiles[h]) :
           hourFiles[h][i].closed \/ (FileOpen(h) /\ i = Len(hourFiles[h]))

(* What a file may become: finished frames stay.                           *)
Keeps(old, new) ==
    \A i \in 1..Len(old) : old[i].closed => i \in 1..Len(new) /\ new[i] = old[i]

(* The clock never leaves the hours there are.                             *)
LEMMA HoursOfTheClock == ASSUME Files!FilesAssumption, NEW t \in 0..FileTicks PROVE Files!Hour(t) \in Files!Hours
BY DEF Files!FilesAssumption, Files!Hour, Files!Hours

(* A writer without a key is in no hour.                                   *)
LEMMA NoHourIsNone == ASSUME Files!FilesAssumption PROVE Files!NoHour \notin Files!Hours
BY DEF Files!FilesAssumption, Files!NoHour, Files!Hours

(* The last frame of a file is replaced, the others are not.               *)
LEMMA Replacing ==
    ASSUME NEW s \in Seq(Frames), s # <<>>, NEW f \in Frames
    PROVE  /\ Files!Last(s) = s[Len(s)] /\ Len(s) \in Nat \ {0} /\ Files!Last(s) \in Frames
           /\ Files!Front(s) \in Seq(Frames) /\ Len(Files!Front(s)) = Len(s) - 1
           /\ \A i \in 1..Len(s) - 1 : Files!Front(s)[i] = s[i]
           /\ Files!ReplaceLast(s, f) \in Seq(Frames) /\ Len(Files!ReplaceLast(s, f)) = Len(s)
           /\ Files!ReplaceLast(s, f)[Len(s)] = f
           /\ \A i \in 1..Len(s) - 1 : Files!ReplaceLast(s, f)[i] = s[i]
<1>1. Len(s) \in Nat \ {0}
  OBVIOUS
<1>2. Files!Last(s) = s[Len(s)] /\ Files!Last(s) \in Frames
  BY <1>1 DEF Files!Last
<1>3. /\ Files!Front(s) \in Seq(Frames) /\ Len(Files!Front(s)) = Len(s) - 1
      /\ \A i \in 1..Len(s) - 1 : Files!Front(s)[i] = s[i]
  <2> DEFINE m == Len(s) - 1
  <2>1. m \in Nat /\ m <= Len(s) /\ Files!Front(s) = SubSeq(s, 1, m)
    BY <1>1 DEF Files!Front
  <2> HIDE DEF m
  <2>2. SubSeq(s, 1, m) \in Seq(Frames)
    BY <1>1, <2>1
  <2>3. Len(SubSeq(s, 1, m)) = m
    BY <1>1, <2>1
  <2>4. \A i \in 1..m : SubSeq(s, 1, m)[i] = s[i]
    BY <1>1, <2>1
  <2> QED
    BY <2>1, <2>2, <2>3, <2>4 DEF m
<1>4. /\ Files!ReplaceLast(s, f) \in Seq(Frames) /\ Len(Files!ReplaceLast(s, f)) = Len(s)
      /\ Files!ReplaceLast(s, f)[Len(s)] = f
  BY <1>1, <1>3 DEF Files!ReplaceLast
<1>5. \A i \in 1..Len(s) - 1 : Files!ReplaceLast(s, f)[i] = s[i]
  BY <1>1, <1>3 DEF Files!ReplaceLast
<1> QED
  BY <1>1, <1>2, <1>3, <1>4, <1>5

(* Closing finishes the open frame and touches nothing else.               *)
LEMMA Closing ==
    ASSUME FilesInv
    PROVE  LET fs == Files!CloseFrame(hourFiles, hourKey, isOpen) IN
           /\ fs \in [Files!Hours -> Seq(Frames)]
           /\ \A h \in Files!Hours : Keeps(hourFiles[h], fs[h])
           /\ \A h \in Files!Hours \ broken : \A i \in 1..Len(fs[h]) : fs[h][i].closed
<1> DEFINE fs == Files!CloseFrame(hourFiles, hourKey, isOpen)
<1>1. CASE ~isOpen
  <2>1. fs = hourFiles
    BY <1>1 DEF Files!CloseFrame
  <2> QED
    BY <2>1, <1>1 DEF FilesInv, FileOpen, Keeps
<1>2. CASE isOpen
  <2> DEFINE s == hourFiles[hourKey]
             f == Files!Frame(Files!Last(s).lines, TRUE)
  <2>1. hourKey \in Files!Hours /\ s \in Seq(Frames) /\ s # <<>> /\ ~Files!Last(s).closed
    BY <1>2 DEF FilesInv, FileOpen
  <2>2. Files!Last(s) = s[Len(s)] /\ Files!Last(s) \in Frames
    <3>1. Len(s) \in Nat \ {0}
      BY <2>1
    <3> QED
      BY <2>1, <3>1 DEF Files!Last
  <2>3. f \in Frames /\ f.closed
    BY <2>2 DEF Frames, Files!Frame
  <2>4. fs = [hourFiles EXCEPT ![hourKey] = Files!ReplaceLast(s, f)]
    BY <1>2 DEF Files!CloseFrame
  <2> HIDE DEF s, f, fs
  <2>5. /\ Len(s) \in Nat \ {0} /\ Files!ReplaceLast(s, f) \in Seq(Frames)
        /\ Len(Files!ReplaceLast(s, f)) = Len(s) /\ Files!ReplaceLast(s, f)[Len(s)] = f
        /\ \A i \in 1..Len(s) - 1 : Files!ReplaceLast(s, f)[i] = s[i]
    <3>1. f \in Frames /\ s # <<>> /\ s \in Seq(Frames)
      BY <2>1, <2>3
    <3>2. Len(s) \in Nat \ {0} /\ Files!ReplaceLast(s, f) \in Seq(Frames)
      BY <3>1, Replacing
    <3>3. Len(Files!ReplaceLast(s, f)) = Len(s) /\ Files!ReplaceLast(s, f)[Len(s)] = f
      BY <3>1, Replacing
    <3>4. \A i \in 1..Len(s) - 1 : Files!ReplaceLast(s, f)[i] = s[i]
      BY <3>1, Replacing
    <3> QED
      BY <3>2, <3>3, <3>4
  <2>6. fs \in [Files!Hours -> Seq(Frames)] /\ fs[hourKey] = Files!ReplaceLast(s, f)
        /\ \A h \in Files!Hours \ {hourKey} : fs[h] = hourFiles[h]
    BY <2>1, <2>4, <2>5 DEF FilesInv
  <2>7. Keeps(s, Files!ReplaceLast(s, f))
    BY <2>1, <2>2, <2>5 DEF Keeps
  <2>8. \A h \in Files!Hours : Keeps(hourFiles[h], fs[h])
    BY <2>6, <2>7 DEF Keeps, FilesInv, s
  <2>9. ASSUME NEW h \in Files!Hours \ broken, NEW i \in 1..Len(fs[h]) PROVE fs[h][i].closed
    <3>1. CASE h # hourKey
      BY <3>1, <2>6 DEF FilesInv, FileOpen
    <3>2. CASE h = hourKey /\ i = Len(s)
      BY <3>2, <2>3, <2>5, <2>6
    <3>3. CASE h = hourKey /\ i # Len(s)
      <4>1. i \in 1..Len(s) - 1 /\ fs[h][i] = s[i]
        BY <3>3, <2>5, <2>6
      <4>2. i \in 1..Len(hourFiles[h]) /\ i # Len(hourFiles[h]) /\ hourFiles[h][i] = s[i]
        BY <4>1, <3>3, <2>5 DEF s
      <4> QED
        BY <4>1, <4>2 DEF FilesInv
    <3> QED
      BY <3>1, <3>2, <3>3
  <2> QED
    BY <2>6, <2>8, <2>9 DEF fs
<1> QED
  BY <1>1, <1>2

(* The next line of an hour goes into the open frame.                      *)
LEMMA AddingLine ==
    ASSUME FilesInv, NEW h \in Files!Hours, FileOpen(h), NEW line \in Int
    PROVE  LET fs == Files!AddLine(hourFiles, h, line) IN
           /\ fs \in [Files!Hours -> Seq(Frames)]
           /\ \A k \in Files!Hours : Keeps(hourFiles[k], fs[k])
           /\ fs[h] # <<>> /\ ~Files!Last(fs[h]).closed
           /\ \A k \in Files!Hours \ broken : \A i \in 1..Len(fs[k]) :
                  fs[k][i].closed \/ (k = h /\ i = Len(fs[k]))
<1> DEFINE fs == Files!AddLine(hourFiles, h, line)
           s == hourFiles[h]
           f == Files!Frame(Append(Files!Last(s).lines, line), FALSE)
<1>1. s \in Seq(Frames) /\ s # <<>> /\ ~Files!Last(s).closed
  BY DEF FilesInv, FileOpen
<1>2. Files!Last(s) = s[Len(s)] /\ Files!Last(s) \in Frames /\ Len(s) \in Nat \ {0}
  <2>1. Len(s) \in Nat \ {0}
    BY <1>1
  <2> QED
    BY <1>1, <2>1 DEF Files!Last
<1>3. f \in Frames /\ ~f.closed
  <2>1. Append(Files!Last(s).lines, line) \in Seq(Int)
    BY <1>2 DEF Frames
  <2> QED
    BY <2>1 DEF Frames, Files!Frame
<1>4. fs = [hourFiles EXCEPT ![h] = Files!ReplaceLast(s, f)]
  BY DEF Files!AddLine
<1> HIDE DEF s, f, fs
<1>5. /\ Files!ReplaceLast(s, f) \in Seq(Frames) /\ Len(Files!ReplaceLast(s, f)) = Len(s)
      /\ Files!ReplaceLast(s, f)[Len(s)] = f
      /\ \A i \in 1..Len(s) - 1 : Files!ReplaceLast(s, f)[i] = s[i]
  BY <1>1, <1>3, Replacing
<1>6. fs \in [Files!Hours -> Seq(Frames)] /\ fs[h] = Files!ReplaceLast(s, f)
      /\ \A k \in Files!Hours \ {h} : fs[k] = hourFiles[k]
  BY <1>4, <1>5 DEF FilesInv
<1>7. Keeps(s, Files!ReplaceLast(s, f))
  BY <1>1, <1>2, <1>5 DEF Keeps
<1>8. \A k \in Files!Hours : Keeps(hourFiles[k], fs[k])
  BY <1>6, <1>7 DEF Keeps, FilesInv, s
<1>9. fs[h] # <<>> /\ ~Files!Last(fs[h]).closed
  <2>1. Len(fs[h]) \in Nat \ {0} /\ fs[h][Len(fs[h])] = f
    BY <1>2, <1>5, <1>6
  <2> QED
    BY <2>1, <1>3 DEF Files!Last
<1>10. ASSUME NEW k \in Files!Hours \ broken, NEW i \in 1..Len(fs[k])
       PROVE  fs[k][i].closed \/ (k = h /\ i = Len(fs[k]))
  <2>1. CASE k # h
    <3>1. ~FileOpen(k)
      BY <2>1 DEF FileOpen
    <3> QED
      BY <2>1, <3>1, <1>6 DEF FilesInv
  <2>2. CASE k = h /\ i # Len(s)
    <3>1. i \in 1..Len(s) - 1 /\ fs[k][i] = s[i]
      BY <2>2, <1>2, <1>5, <1>6
    <3>2. i \in 1..Len(hourFiles[k]) /\ i # Len(hourFiles[k]) /\ hourFiles[k][i] = s[i]
      BY <3>1, <2>2, <1>2 DEF s
    <3> QED
      BY <3>1, <3>2 DEF FilesInv
  <2>3. CASE k = h /\ i = Len(s)
    BY <2>3, <1>5, <1>6
  <2> QED
    BY <2>1, <2>2, <2>3
<1> QED
  BY <1>6, <1>8, <1>9, <1>10 DEF fs

(* The first line of an hour starts a frame behind the ones there are.     *)
LEMMA AddingFrame ==
    ASSUME FilesInv, NEW h \in Files!Hours, NEW line \in Int
    PROVE  LET gs == Files!AddFrame(Files!CloseFrame(hourFiles, hourKey, isOpen), h, line) IN
           /\ gs \in [Files!Hours -> Seq(Frames)]
           /\ \A k \in Files!Hours : Keeps(hourFiles[k], gs[k])
           /\ gs[h] # <<>> /\ ~Files!Last(gs[h]).closed
           /\ \A k \in Files!Hours \ broken : \A i \in 1..Len(gs[k]) :
                  gs[k][i].closed \/ (k = h /\ i = Len(gs[k]))
<1> DEFINE fs == Files!CloseFrame(hourFiles, hourKey, isOpen)
           gs == Files!AddFrame(fs, h, line)
           s == fs[h]
           f == Files!Frame(<<line>>, FALSE)
           t == Append(s, f)
<1>0. /\ fs \in [Files!Hours -> Seq(Frames)]
      /\ \A k \in Files!Hours : Keeps(hourFiles[k], fs[k])
      /\ \A k \in Files!Hours \ broken : \A i \in 1..Len(fs[k]) : fs[k][i].closed
  BY Closing
<1> HIDE DEF fs
<1>1. s \in Seq(Frames) /\ Len(s) \in Nat
  BY <1>0
<1>2. f \in Frames /\ ~f.closed
  <2>1. <<line>> \in Seq(Int)
    OBVIOUS
  <2> QED
    BY <2>1 DEF Frames, Files!Frame
<1>3. gs = [fs EXCEPT ![h] = t]
  BY DEF Files!AddFrame
<1> HIDE DEF f
<1>4. t \in Seq(Frames) /\ Len(t) = Len(s) + 1
  BY <1>1, <1>2
<1>5. t[Len(s) + 1] = f /\ \A i \in 1..Len(s) : t[i] = s[i]
  BY <1>1, <1>2
<1> HIDE DEF s, t, gs
<1>6. gs \in [Files!Hours -> Seq(Frames)] /\ gs[h] = t /\ \A k \in Files!Hours \ {h} : gs[k] = fs[k]
  BY <1>0, <1>3, <1>4
<1>7. Keeps(s, t)
  BY <1>1, <1>4, <1>5 DEF Keeps
<1>8. \A k \in Files!Hours : Keeps(hourFiles[k], gs[k])
  <2>1. \A k \in Files!Hours \ {h} : Keeps(hourFiles[k], gs[k])
    BY <1>0, <1>6
  <2>2. Keeps(hourFiles[h], s) /\ gs[h] = t
    BY <1>0, <1>6 DEF s
  <2>3. Keeps(hourFiles[h], t)
    BY <2>2, <1>7 DEF Keeps
  <2> QED
    BY <2>1, <2>2, <2>3
<1>9. gs[h] # <<>> /\ ~Files!Last(gs[h]).closed
  <2>1. Len(gs[h]) \in Nat \ {0} /\ gs[h][Len(gs[h])] = f
    BY <1>1, <1>4, <1>5, <1>6
  <2> QED
    BY <2>1, <1>2 DEF Files!Last
<1>10. ASSUME NEW k \in Files!Hours \ broken, NEW i \in 1..Len(gs[k])
       PROVE  gs[k][i].closed \/ (k = h /\ i = Len(gs[k]))
  <2>1. CASE k # h
    BY <2>1, <1>0, <1>6
  <2>2. CASE k = h /\ i \in 1..Len(s)
    BY <2>2, <1>0, <1>5, <1>6 DEF s
  <2>3. CASE k = h /\ i = Len(s) + 1
    BY <2>3, <1>4, <1>6
  <2> QED
    BY <2>1, <2>2, <2>3, <1>1, <1>4, <1>6
<1> QED
  BY <1>6, <1>8, <1>9, <1>10 DEF gs, fs

(* A write closes the file of the hour before, or extends its own frame.   *)
LEMMA WriteKeepsFiles ==
    ASSUME Files!FilesAssumption, FilesInv, Files!Write
    PROVE  FilesInv' /\ \A h \in Files!Hours : Keeps(hourFiles[h], hourFiles'[h])
<1>1. /\ Files!Hour(tick) \in Files!Hours /\ tick \in Int /\ hourKey' = Files!Hour(tick) /\ isOpen' = TRUE
      /\ running /\ UNCHANGED <<tick, running, broken>>
  BY HoursOfTheClock DEF Files!Write, FilesInv, Files!FilesAssumption
<1>2. /\ hourFiles' \in [Files!Hours -> Seq(Frames)]
      /\ \A h \in Files!Hours : Keeps(hourFiles[h], hourFiles'[h])
      /\ hourFiles'[Files!Hour(tick)] # <<>> /\ ~Files!Last(hourFiles'[Files!Hour(tick)]).closed
      /\ \A h \in Files!Hours \ broken : \A i \in 1..Len(hourFiles'[h]) :
             hourFiles'[h][i].closed \/ (h = Files!Hour(tick) /\ i = Len(hourFiles'[h]))
  <2>1. CASE hourKey = Files!Hour(tick)
    <3>1. FileOpen(Files!Hour(tick))
      BY <2>1, <1>1, NoHourIsNone DEF FileOpen, FilesInv
    <3>2. hourFiles' = Files!AddLine(hourFiles, Files!Hour(tick), tick)
      BY <2>1 DEF Files!Write
    <3> DEFINE gs == Files!AddLine(hourFiles, Files!Hour(tick), tick)
    <3>3. /\ gs \in [Files!Hours -> Seq(Frames)]
          /\ \A h \in Files!Hours : Keeps(hourFiles[h], gs[h])
          /\ gs[Files!Hour(tick)] # <<>> /\ ~Files!Last(gs[Files!Hour(tick)]).closed
          /\ \A h \in Files!Hours \ broken : \A i \in 1..Len(gs[h]) :
                 gs[h][i].closed \/ (h = Files!Hour(tick) /\ i = Len(gs[h]))
      BY <3>1, <1>1, AddingLine
    <3> HIDE DEF gs
    <3> QED
      BY <3>2, <3>3 DEF gs
  <2>2. CASE hourKey # Files!Hour(tick)
    <3> DEFINE gs == Files!AddFrame(Files!CloseFrame(hourFiles, hourKey, isOpen), Files!Hour(tick), tick)
    <3>1. /\ gs \in [Files!Hours -> Seq(Frames)]
          /\ \A h \in Files!Hours : Keeps(hourFiles[h], gs[h])
          /\ gs[Files!Hour(tick)] # <<>> /\ ~Files!Last(gs[Files!Hour(tick)]).closed
          /\ \A h \in Files!Hours \ broken : \A i \in 1..Len(gs[h]) :
                 gs[h][i].closed \/ (h = Files!Hour(tick) /\ i = Len(gs[h]))
      BY <1>1, AddingFrame
    <3>2. hourFiles' = gs
      BY <2>2 DEF Files!Write
    <3> HIDE DEF gs
    <3> QED
      BY <3>1, <3>2
  <2> QED
    BY <2>1, <2>2
<1> QED
  BY <1>1, <1>2 DEF FilesInv, FileOpen

(* The graceful end closes what is open.                                   *)
LEMMA ShutdownKeepsFiles ==
    ASSUME FilesInv, Files!Shutdown
    PROVE  FilesInv' /\ \A h \in Files!Hours : Keeps(hourFiles[h], hourFiles'[h])
<1>1. /\ hourFiles' = Files!CloseFrame(hourFiles, hourKey, isOpen)
      /\ running' = FALSE /\ isOpen' = FALSE /\ UNCHANGED <<tick, hourKey, broken>>
  BY DEF Files!Shutdown
<1>2. /\ hourFiles' \in [Files!Hours -> Seq(Frames)]
      /\ \A h \in Files!Hours : Keeps(hourFiles[h], hourFiles'[h])
      /\ \A h \in Files!Hours \ broken : \A i \in 1..Len(hourFiles'[h]) : hourFiles'[h][i].closed
  BY <1>1, Closing
<1> QED
  BY <1>1, <1>2 DEF FilesInv, FileOpen

(* A crash cuts the open frame short, or takes it away.                    *)
LEMMA CrashKeepsFiles ==
    ASSUME FilesInv, Files!Crash
    PROVE  FilesInv' /\ \A h \in Files!Hours : Keeps(hourFiles[h], hourFiles'[h])
<1>1. /\ running' = FALSE /\ isOpen' = FALSE /\ UNCHANGED <<tick, hourKey>>
      /\ broken' = IF isOpen THEN broken \cup {hourKey} ELSE broken
  BY DEF Files!Crash
<1>2. CASE ~isOpen
  <2>1. hourFiles' = hourFiles /\ broken' = broken
    BY <1>2 DEF Files!Crash
  <2> QED
    BY <1>1, <1>2, <2>1 DEF FilesInv, FileOpen, Keeps
<1>3. CASE isOpen
  <2> DEFINE s == hourFiles[hourKey]
  <2>1. hourKey \in Files!Hours /\ s \in Seq(Frames) /\ s # <<>> /\ ~Files!Last(s).closed
    BY <1>3 DEF FilesInv, FileOpen
  <2>2. /\ Files!Last(s) = s[Len(s)] /\ Files!Last(s) \in Frames /\ Len(s) \in Nat \ {0}
        /\ Files!Front(s) \in Seq(Frames) /\ Len(Files!Front(s)) = Len(s) - 1
        /\ \A i \in 1..Len(s) - 1 : Files!Front(s)[i] = s[i]
    <3>1. Len(s) \in Nat \ {0}
      BY <2>1
    <3>2. Files!Last(s) \in Frames
      BY <2>1, <3>1 DEF Files!Last
    <3> HIDE DEF s
    <3> QED
      BY <2>1, <3>2, Replacing
  <2>3. PICK kept \in 0..Len(Files!Last(s).lines) :
          hourFiles' = [hourFiles EXCEPT ![hourKey] =
              IF kept = 0 THEN Files!Front(s)
              ELSE Files!ReplaceLast(s, Files!Frame(SubSeq(Files!Last(s).lines, 1, kept), FALSE))]
    BY <1>3 DEF Files!Crash
  <2>4. PICK t \in Seq(Frames) : hourFiles' = [hourFiles EXCEPT ![hourKey] = t] /\ Keeps(s, t)
    <3>1. CASE kept = 0
      <4>1. Keeps(s, Files!Front(s))
        BY <2>1, <2>2 DEF Keeps
      <4> QED
        BY <4>1, <3>1, <2>2, <2>3
    <3>2. CASE kept # 0
      <4> DEFINE f == Files!Frame(SubSeq(Files!Last(s).lines, 1, kept), FALSE)
      <4>1. Files!Last(s).lines \in Seq(Int) /\ kept \in 1..Len(Files!Last(s).lines)
        BY <3>2, <2>2, <2>3 DEF Frames
      <4>2. f \in Frames
        <5>1. SubSeq(Files!Last(s).lines, 1, kept) \in Seq(Int)
          BY <4>1
        <5> QED
          BY <5>1 DEF Frames, Files!Frame
      <4>3. hourFiles' = [hourFiles EXCEPT ![hourKey] = Files!ReplaceLast(s, f)]
        BY <3>2, <2>3
      <4> HIDE DEF f, s
      <4>4. /\ Files!ReplaceLast(s, f) \in Seq(Frames) /\ Len(Files!ReplaceLast(s, f)) = Len(s)
            /\ \A i \in 1..Len(s) - 1 : Files!ReplaceLast(s, f)[i] = s[i]
        BY <2>1, <4>2, Replacing
      <4>5. Keeps(s, Files!ReplaceLast(s, f))
        BY <2>1, <2>2, <4>4 DEF Keeps
      <4> QED
        BY <4>3, <4>4, <4>5
    <3> QED
      BY <3>1, <3>2
  <2>5. /\ hourFiles' \in [Files!Hours -> Seq(Frames)] /\ hourFiles'[hourKey] = t
        /\ \A h \in Files!Hours \ {hourKey} : hourFiles'[h] = hourFiles[h]
    BY <2>1, <2>4 DEF FilesInv
  <2>6. \A h \in Files!Hours : Keeps(hourFiles[h], hourFiles'[h])
    BY <2>4, <2>5 DEF Keeps, FilesInv
  <2>7. broken' = broken \cup {hourKey}
    BY <1>1, <1>3
  <2>8. \A h \in Files!Hours \ broken' : \A i \in 1..Len(hourFiles'[h]) : hourFiles'[h][i].closed
    BY <2>5, <2>7 DEF FilesInv, FileOpen
  <2> QED
    BY <1>1, <2>5, <2>6, <2>8 DEF FilesInv, FileOpen
<1> QED
  BY <1>2, <1>3

(* Every step keeps the invariant and every finished frame.                *)
LEMMA StepKeepsFiles ==
    ASSUME Files!FilesAssumption, FilesInv, [Files!Next]_(Files!vars)
    PROVE  FilesInv' /\ \A h \in Files!Hours : Keeps(hourFiles[h], hourFiles'[h])
<1>1. CASE Files!Restart
  BY <1>1, NoHourIsNone DEF Files!Restart, FilesInv, FileOpen, Keeps
<1>2. CASE Files!Tick
  BY <1>2 DEF Files!Tick, FilesInv, FileOpen, Keeps, Files!FilesAssumption
<1>3. CASE UNCHANGED Files!vars
  BY <1>3 DEF Files!vars, FilesInv, FileOpen, Keeps
<1> QED
  BY <1>1, <1>2, <1>3, WriteKeepsFiles, ShutdownKeepsFiles, CrashKeepsFiles DEF Files!Next

-----------------------------------------------------------------------------
(* A step of the composition is a step of the part or leaves it alone.     *)
LEMMA FilesStep == [CaptureNext]_captureVars => [Files!Next]_(Files!vars)
  BY DEF CaptureNext, captureVars, fileVars, Files!vars

(* The hour files satisfy their invariant in the whole composition.        *)
LEMMA FilesInvHolds == CaptureSpec => []FilesInv
<1>0. Files!FilesAssumption
  BY PartsAssumption
<1>1. Files!Init => FilesInv
  <2> SUFFICES ASSUME Files!Init PROVE FilesInv
    OBVIOUS
  <2>1. <<>> \in Seq(Frames)
    OBVIOUS
  <2>2. hourFiles \in [Files!Hours -> Seq(Frames)] /\ \A h \in Files!Hours : hourFiles[h] = <<>>
    BY <2>1 DEF Files!Init
  <2>3. \A h \in Files!Hours : 1..Len(hourFiles[h]) = {}
    BY <2>2
  <2>4. /\ tick \in 0..FileTicks /\ running \in BOOLEAN /\ hourKey = Files!NoHour
        /\ isOpen = FALSE /\ broken = {}
    BY <1>0 DEF Files!Init, Files!FilesAssumption
  <2> QED
    BY <2>2, <2>3, <2>4 DEF FilesInv, FileOpen
<1>2. CaptureInit => FilesInv
  BY <1>1 DEF CaptureInit
<1>3. FilesInv /\ [CaptureNext]_captureVars => FilesInv'
  BY <1>0, FilesStep, StepKeepsFiles
<1> QED
  BY <1>2, <1>3, PTL DEF CaptureSpec

(* No finished frame is touched again by any later write, rotation,        *)
(* shutdown, crash or process.                                             *)
THEOREM FinishedFramesStay == CaptureSpec => ClosedFramesImmutable
<1> DEFINE Stay == \A h \in Files!Hours : \A i \in DOMAIN hourFiles[h] :
               hourFiles[h][i].closed => i \in DOMAIN hourFiles'[h] /\ hourFiles'[h][i] = hourFiles[h][i]
<1>0. Files!FilesAssumption
  BY PartsAssumption
<1>1. FilesInv /\ [CaptureNext]_captureVars => [Stay]_(Files!vars)
  <2> SUFFICES ASSUME FilesInv, [CaptureNext]_captureVars PROVE Stay
    OBVIOUS
  <2>1. /\ hourFiles \in [Files!Hours -> Seq(Frames)] /\ hourFiles' \in [Files!Hours -> Seq(Frames)]
        /\ \A h \in Files!Hours : Keeps(hourFiles[h], hourFiles'[h])
    BY <1>0, FilesStep, StepKeepsFiles DEF FilesInv, Files!Hours
  <2>2. \A h \in Files!Hours : DOMAIN hourFiles[h] = 1..Len(hourFiles[h]) /\ DOMAIN hourFiles'[h] = 1..Len(hourFiles'[h])
    BY <2>1
  <2> QED
    BY <2>1, <2>2 DEF Keeps
<1> QED
  BY <1>1, FilesInvHolds, PTL DEF CaptureSpec, ClosedFramesImmutable, Files!ClosedFramesImmutable

(* What a file reads as: the lines of its frames one after the other.      *)
LinesOf(s) == [i \in 1..Len(s) |-> s[i].lines]

(* The files part flattens with the operator of the module it is in.       *)
LEMMA FlattenNames == \A s : Files!FlattenSeq(s) = FlattenSeq(s)
BY DEF Files!FlattenSeq, FlattenSeq

(* What a file reads back is its frames' lines, one after another.         *)
LEMMA LinesFlatten ==
    ASSUME NEW s \in Seq(Frames)
    PROVE  /\ LinesOf(s) \in Seq(Seq(Int)) /\ Files!Lines(s) = FlattenSeq(LinesOf(s))
           /\ Files!Lines(s) \in Seq(Int)
<1>1. DOMAIN s = 1..Len(s) /\ Len(s) \in Nat /\ \A i \in 1..Len(s) : s[i].lines \in Seq(Int)
  <2>1. \A i \in 1..Len(s) : s[i] \in Frames
    OBVIOUS
  <2> QED BY <2>1 DEF Frames
<1>2. LinesOf(s) \in Seq(Seq(Int))
  BY <1>1 DEF LinesOf
<1>3. Files!Lines(s) = FlattenSeq(LinesOf(s))
  BY <1>1, FlattenNames DEF Files!Lines, LinesOf
<1> QED BY <1>2, <1>3, FlattenType

(* A frame appended to a file is read back last.                           *)
LEMMA LinesOfMore ==
    ASSUME NEW s \in Seq(Frames), NEW f \in Frames
    PROVE  Files!Lines(Append(s, f)) = Files!Lines(s) \o f.lines
<1> DEFINE t == Append(s, f)
<1>1. t \in Seq(Frames) /\ Len(t) = Len(s) + 1 /\ Len(s) \in Nat /\ t[Len(s) + 1] = f
      /\ \A i \in 1..Len(s) : t[i] = s[i]
  OBVIOUS
<1>2. LinesOf(s) \in Seq(Seq(Int)) /\ Len(LinesOf(s)) = Len(s) /\ f.lines \in Seq(Int)
      /\ \A i \in 1..Len(s) : LinesOf(s)[i] = s[i].lines
  <2>1. LinesOf(s) \in Seq(Seq(Int))
    BY LinesFlatten
  <2>2. Len(s) \in Nat /\ f.lines \in Seq(Int)
    BY DEF Frames
  <2>3. Len(LinesOf(s)) = Len(s) /\ \A i \in 1..Len(s) : LinesOf(s)[i] = s[i].lines
    BY <2>2 DEF LinesOf
  <2> QED BY <2>1, <2>2, <2>3
<1>3. Append(LinesOf(s), f.lines) = [i \in 1..(Len(s) + 1) |-> IF i <= Len(s) THEN LinesOf(s)[i] ELSE f.lines]
  BY <1>1, <1>2
<1> HIDE DEF t
<1>4. LinesOf(t) = Append(LinesOf(s), f.lines)
  <2>1. \A i \in 1..(Len(s) + 1) : t[i].lines = IF i <= Len(s) THEN LinesOf(s)[i] ELSE f.lines
    <3> SUFFICES ASSUME NEW i \in 1..(Len(s) + 1)
                 PROVE  t[i].lines = IF i <= Len(s) THEN LinesOf(s)[i] ELSE f.lines
      OBVIOUS
    <3>1. CASE i <= Len(s)
      <4>1. i \in 1..Len(s)
        BY <3>1, <1>1
      <4> QED BY <4>1, <3>1, <1>1, <1>2
    <3>2. CASE ~(i <= Len(s))
      <4>1. i = Len(s) + 1
        BY <3>2, <1>1
      <4> QED BY <4>1, <3>2, <1>1
    <3> QED BY <3>1, <3>2
  <2> QED BY <2>1, <1>1, <1>3 DEF LinesOf
<1>5. FlattenSeq(LinesOf(t)) = FlattenSeq(LinesOf(s)) \o f.lines
  BY <1>2, <1>4, FlattenAppend
<1>6. Files!Lines(t) = Files!Lines(s) \o f.lines
  BY <1>1, <1>5, LinesFlatten
<1> QED BY <1>6 DEF t

(* What a file reads back ends with the lines of its last frame.           *)
LEMMA LinesOfLast ==
    ASSUME NEW s \in Seq(Frames), s # <<>>
    PROVE  /\ Files!Front(s) \in Seq(Frames) /\ Files!Last(s) \in Frames
           /\ Files!Lines(s) = Files!Lines(Files!Front(s)) \o Files!Last(s).lines
           /\ \A f \in Frames : Files!Lines(Files!ReplaceLast(s, f)) = Files!Lines(Files!Front(s)) \o f.lines
<1>1. Files!Front(s) \in Seq(Frames) /\ Files!Last(s) \in Frames
  <2>1. Len(s) \in Nat \ {0}
    OBVIOUS
  <2>2. Files!Last(s) \in Frames
    BY <2>1 DEF Files!Last
  <2> QED BY <2>2, Replacing
<1>2. Append(Files!Front(s), Files!Last(s)) = s
  <2>1. /\ Len(s) \in Nat \ {0} /\ Files!Last(s) = s[Len(s)] /\ Len(Files!Front(s)) = Len(s) - 1
        /\ \A i \in 1..Len(s) - 1 : Files!Front(s)[i] = s[i]
    BY <1>1, Replacing
  <2> QED BY <2>1, <1>1
<1>3. Files!Lines(s) = Files!Lines(Files!Front(s)) \o Files!Last(s).lines
  BY <1>1, <1>2, LinesOfMore
<1>4. \A f \in Frames : Files!Lines(Files!ReplaceLast(s, f)) = Files!Lines(Files!Front(s)) \o f.lines
  BY <1>1, LinesOfMore DEF Files!ReplaceLast
<1> QED BY <1>1, <1>3, <1>4

(* Closing a frame leaves what the files read as.                          *)
LEMMA ClosingReads ==
    ASSUME FilesInv, NEW h \in Files!Hours
    PROVE  Files!Lines(Files!CloseFrame(hourFiles, hourKey, isOpen)[h]) = Files!Lines(hourFiles[h])
<1> DEFINE s == hourFiles[hourKey]
           f == Files!Frame(Files!Last(s).lines, TRUE)
<1>1. CASE ~isOpen \/ h # hourKey
  BY <1>1 DEF Files!CloseFrame, FilesInv
<1>2. CASE isOpen /\ h = hourKey
  <2>1. h \in Files!Hours /\ s \in Seq(Frames) /\ s # <<>>
    BY <1>2 DEF FilesInv, FileOpen
  <2>2. Files!CloseFrame(hourFiles, hourKey, isOpen)[h] = Files!ReplaceLast(s, f)
    BY <1>2, <2>1 DEF Files!CloseFrame, FilesInv
  <2> HIDE DEF s
  <2>3. Files!Last(s) \in Frames
    BY <2>1, LinesOfLast
  <2>4. f \in Frames /\ f.lines = Files!Last(s).lines
    BY <2>3 DEF Frames, Files!Frame
  <2> HIDE DEF f
  <2>5. Files!Lines(Files!ReplaceLast(s, f)) = Files!Lines(s)
    BY <2>1, <2>4, LinesOfLast
  <2> QED BY <1>2, <2>2, <2>5 DEF s
<1> QED BY <1>1, <1>2

(* A write adds its line to what its hour reads as, and nothing else.      *)
LEMMA WritingReads ==
    ASSUME Files!FilesAssumption, FilesInv, Files!Write, NEW h \in Files!Hours
    PROVE  Files!Lines(hourFiles'[h]) =
               IF h = Files!Hour(tick) THEN Append(Files!Lines(hourFiles[h]), tick)
               ELSE Files!Lines(hourFiles[h])
<1> DEFINE k == Files!Hour(tick)
<1>1. k \in Files!Hours /\ tick \in Int /\ hourFiles[h] \in Seq(Frames) /\ hourFiles[k] \in Seq(Frames)
  BY HoursOfTheClock DEF FilesInv, Files!FilesAssumption
<1> HIDE DEF k
<1>2. CASE hourKey = k
  <2> DEFINE s == hourFiles[k]
             f == Files!Frame(Append(Files!Last(s).lines, tick), FALSE)
  <2>1. s \in Seq(Frames) /\ s # <<>>
    <3>1. FileOpen(k)
      BY <1>1, <1>2, NoHourIsNone DEF FileOpen, FilesInv, Files!Write
    <3> QED BY <3>1, <1>1 DEF FilesInv
  <2>2. hourFiles' = [hourFiles EXCEPT ![k] = Files!ReplaceLast(s, f)]
    BY <1>2 DEF Files!Write, Files!AddLine, k
  <2> HIDE DEF s
  <2>3. Files!Last(s) \in Frames /\ Files!Last(s).lines \in Seq(Int)
    BY <2>1, LinesOfLast DEF Frames
  <2>4. f \in Frames /\ f.lines = Append(Files!Last(s).lines, tick)
    BY <2>3, <1>1 DEF Frames, Files!Frame
  <2> HIDE DEF f
  <2>5. /\ Files!Lines(s) = Files!Lines(Files!Front(s)) \o Files!Last(s).lines
        /\ Files!Lines(Files!ReplaceLast(s, f)) = Files!Lines(Files!Front(s)) \o f.lines
        /\ Files!Lines(Files!Front(s)) \in Seq(Int)
    BY <2>1, <2>4, LinesOfLast, LinesFlatten
  <2>6. \A a, b \in Seq(Int) : a \o Append(b, tick) = Append(a \o b, tick)
    BY <1>1
  <2>7. Files!Lines(Files!ReplaceLast(s, f)) = Append(Files!Lines(s), tick)
    BY <2>3, <2>4, <2>5, <2>6
  <2>8. hourFiles'[k] = Files!ReplaceLast(s, f) /\ (h # k => hourFiles'[h] = hourFiles[h])
    BY <2>2, <1>1 DEF FilesInv
  <2> QED BY <2>7, <2>8 DEF k, s
<1>3. CASE hourKey # k
  <2> DEFINE fs == Files!CloseFrame(hourFiles, hourKey, isOpen)
             f == Files!Frame(<<tick>>, FALSE)
  <2>1. fs \in [Files!Hours -> Seq(Frames)]
    BY Closing
  <2>2. \A g \in Files!Hours : Files!Lines(fs[g]) = Files!Lines(hourFiles[g])
    BY ClosingReads
  <2>3. hourFiles' = [fs EXCEPT ![k] = Append(@, f)]
    BY <1>3 DEF Files!Write, Files!AddFrame, k
  <2>4. f \in Frames /\ f.lines = <<tick>>
    BY <1>1 DEF Frames, Files!Frame
  <2> HIDE DEF fs, f
  <2>5. Files!Lines(Append(fs[k], f)) = Files!Lines(fs[k]) \o <<tick>> /\ Files!Lines(fs[k]) \in Seq(Int)
    BY <1>1, <2>1, <2>4, LinesOfMore, LinesFlatten
  <2>6. Files!Lines(Append(fs[k], f)) = Append(Files!Lines(hourFiles[k]), tick)
    BY <1>1, <2>2, <2>5
  <2>7. hourFiles'[k] = Append(fs[k], f) /\ (h # k => hourFiles'[h] = fs[h])
    BY <1>1, <2>1, <2>3
  <2> QED BY <2>2, <2>6, <2>7 DEF k
<1> QED BY <1>2, <1>3

(* A crash leaves a beginning of what the open file read as.               *)
LEMMA CrashReads ==
    ASSUME FilesInv, Files!Crash, NEW h \in Files!Hours
    PROVE  \E n \in 0..Len(Files!Lines(hourFiles[h])) :
               Files!Lines(hourFiles'[h]) = SubSeq(Files!Lines(hourFiles[h]), 1, n)
<1> DEFINE old == Files!Lines(hourFiles[h])
<1>0. old \in Seq(Int) /\ Len(old) \in Nat /\ SubSeq(old, 1, Len(old)) = old
  <2>1. old \in Seq(Int)
    BY LinesFlatten DEF FilesInv
  <2> HIDE DEF old
  <2> QED BY <2>1
<1>1. CASE ~isOpen \/ h # hourKey
  <2>1. hourFiles'[h] = hourFiles[h]
    BY <1>1 DEF Files!Crash, FilesInv
  <2> QED BY <1>0, <2>1
<1>2. CASE isOpen /\ h = hourKey
  <2> DEFINE s == hourFiles[h]
             front == Files!Lines(Files!Front(s))
             last == Files!Last(s).lines
  <2>1. s \in Seq(Frames) /\ s # <<>>
    BY <1>2 DEF FilesInv, FileOpen
  <2>2. PICK kept \in 0..Len(last) :
          hourFiles' = [hourFiles EXCEPT ![h] =
              IF kept = 0 THEN Files!Front(s)
              ELSE Files!ReplaceLast(s, Files!Frame(SubSeq(last, 1, kept), FALSE))]
    BY <1>2 DEF Files!Crash
  <2>3. hourFiles'[h] = IF kept = 0 THEN Files!Front(s)
                        ELSE Files!ReplaceLast(s, Files!Frame(SubSeq(last, 1, kept), FALSE))
    BY <2>2 DEF FilesInv
  <2> HIDE DEF s
  <2>4. /\ front \in Seq(Int) /\ last \in Seq(Int) /\ Files!Lines(s) = front \o last
        /\ \A f \in Frames : Files!Lines(Files!ReplaceLast(s, f)) = front \o f.lines
    <3>1. Files!Front(s) \in Seq(Frames) /\ Files!Last(s) \in Frames
      BY <2>1, LinesOfLast
    <3> QED BY <2>1, <3>1, LinesOfLast, LinesFlatten DEF Frames
  <2> HIDE DEF front, last
  <2>5. Len(front) \in Nat /\ Len(last) \in Nat /\ kept \in Nat /\ kept <= Len(last)
    BY <2>4
  <2> DEFINE n == Len(front) + kept
  <2>6. n \in 0..Len(front \o last)
    BY <2>4, <2>5
  <2>7. CASE kept = 0
    <3>1. Files!Lines(hourFiles'[h]) = front
      BY <2>3, <2>7 DEF front
    <3>2. SubSeq(front \o last, 1, n) = front
      BY <2>4, <2>5, <2>7
    <3> QED BY <2>4, <2>6, <3>1, <3>2 DEF s
  <2>8. CASE kept # 0
    <3> DEFINE piece == SubSeq(last, 1, kept)
    <3>1. piece \in Seq(Int) /\ Len(piece) = kept /\ \A i \in 1..kept : piece[i] = last[i]
      BY <2>4, <2>5, <2>8
    <3>2. Files!Frame(piece, FALSE) \in Frames /\ Files!Frame(piece, FALSE).lines = piece
      BY <3>1 DEF Frames, Files!Frame
    <3>3. Files!Lines(hourFiles'[h]) = front \o piece
      BY <2>3, <2>4, <2>8, <3>2
    <3>4. SubSeq(front \o last, 1, n) = front \o piece
      <4>1. /\ SubSeq(front \o last, 1, n) \in Seq(Int) /\ Len(SubSeq(front \o last, 1, n)) = n
            /\ \A i \in 1..n : SubSeq(front \o last, 1, n)[i] = (front \o last)[i]
        BY <2>4, <2>5, <2>6
      <4>2. front \o piece \in Seq(Int) /\ Len(front \o piece) = n
        BY <2>4, <2>5, <3>1
      <4>3. \A i \in 1..n : (front \o piece)[i] = (front \o last)[i]
        BY <2>4, <2>5, <3>1
      <4> QED BY <4>1, <4>2, <4>3
    <3> QED BY <2>4, <2>6, <3>3, <3>4 DEF s
  <2> QED BY <2>7, <2>8
<1> QED BY <1>1, <1>2

InOrder(s) == \A i, j \in 1..Len(s) : i < j => s[i] <= s[j]

(* Sequences in order, each after the one before, are one in order.        *)
LEMMA FlattenInOrder ==
    ASSUME NEW S \in Seq(Seq(Int)), \A k \in 1..Len(S) : InOrder(S[k]),
           \A k, l \in 1..Len(S) : k < l =>
               \A i \in 1..Len(S[k]), j \in 1..Len(S[l]) : S[k][i] <= S[l][j]
    PROVE  FlattenSeq(S) \in Seq(Int) /\ InOrder(FlattenSeq(S))
<1>0. Len(S) \in Nat /\ FlattenSeq(S) \in Seq(Int) /\ \A k \in 1..Len(S) : S[k] \in Seq(Int)
  BY FlattenType
<1>1. CASE Len(S) = 0
  <2>1. FlattenSeq(S) = S
    BY <1>1 DEF FlattenSeq
  <2> QED BY <1>0, <1>1, <2>1 DEF InOrder
<1>2. CASE Len(S) # 0
  <2>1. PICK g : /\ FlattenSeq(S) = g[Len(S)] /\ g[1] = S[1]
                 /\ \A i \in Nat : i + 1 \in 2..Len(S) => g[i + 1] = g[i] \o S[i + 1]
    BY <1>0, <1>2, FlattenDef
  <2> DEFINE From(x, n) == \E k \in 1..n : \E i \in 1..Len(S[k]) : S[k][i] = x
             Good(n) == /\ g[n] \in Seq(Int) /\ InOrder(g[n])
                        /\ \A i \in 1..Len(g[n]) : From(g[n][i], n)
             N == {n \in Nat : n = 0 \/ n > Len(S) \/ Good(n)}
  <2>2. Good(1)
    BY <1>0, <1>2, <2>1
  <2>3. ASSUME NEW n \in Nat \ {0}, n + 1 \in 2..Len(S), Good(n) PROVE Good(n + 1)
    <3> DEFINE a == g[n]
               b == S[n + 1]
    <3>1. g[n + 1] = a \o b /\ a \in Seq(Int) /\ b \in Seq(Int) /\ n + 1 \in 1..Len(S) /\ InOrder(b)
      <4>1. n + 1 \in 1..Len(S) /\ n \in Nat
        BY <1>0, <2>3
      <4>2. g[n + 1] = a \o b /\ a \in Seq(Int)
        BY <2>1, <2>3, <4>1
      <4> QED BY <1>0, <4>1, <4>2
    <3>2. /\ InOrder(a) /\ \A i \in 1..Len(a) : From(a[i], n)
      BY <2>3
    <3>3. \A i \in 1..Len(a), j \in 1..Len(b) : a[i] <= b[j]
      <4> SUFFICES ASSUME NEW i \in 1..Len(a), NEW j \in 1..Len(b) PROVE a[i] <= b[j]
        OBVIOUS
      <4>1. PICK k \in 1..n : \E x \in 1..Len(S[k]) : S[k][x] = a[i]
        BY <3>2
      <4>2. k \in 1..Len(S) /\ k < n + 1
        BY <1>0, <3>1
      <4> QED BY <3>1, <4>1, <4>2
    <3> HIDE DEF a, b
    <3>4. a \o b \in Seq(Int) /\ Len(a \o b) = Len(a) + Len(b) /\ Len(a) \in Nat /\ Len(b) \in Nat
      BY <3>1
    <3>5. /\ \A i \in 1..Len(a) : (a \o b)[i] = a[i]
          /\ \A i \in Len(a) + 1..Len(a) + Len(b) : (a \o b)[i] = b[i - Len(a)] /\ i - Len(a) \in 1..Len(b)
      BY <3>1, <3>4
    <3>6. InOrder(a \o b)
      <4> SUFFICES ASSUME NEW i \in 1..Len(a \o b), NEW j \in 1..Len(a \o b), i < j
                   PROVE  (a \o b)[i] <= (a \o b)[j]
        BY DEF InOrder
      <4>1. CASE j \in 1..Len(a)
        <5>1. i \in 1..Len(a)
          BY <4>1, <3>4
        <5> QED BY <4>1, <5>1, <3>2, <3>5 DEF InOrder
      <4>2. CASE i \in 1..Len(a) /\ j \in Len(a) + 1..Len(a) + Len(b)
        BY <4>2, <3>3, <3>5
      <4>3. CASE i \in Len(a) + 1..Len(a) + Len(b)
        <5>1. j \in Len(a) + 1..Len(a) + Len(b)
          BY <4>3, <3>4
        <5>2. i - Len(a) \in 1..Len(b) /\ j - Len(a) \in 1..Len(b) /\ i - Len(a) < j - Len(a)
          BY <4>3, <5>1, <3>4
        <5>3. b[i - Len(a)] <= b[j - Len(a)]
          BY <5>2, <3>1 DEF InOrder
        <5> QED BY <4>3, <5>1, <5>3, <3>5
      <4> QED BY <4>1, <4>2, <4>3, <3>4
    <3>7. \A i \in 1..Len(a \o b) : From((a \o b)[i], n + 1)
      <4> SUFFICES ASSUME NEW i \in 1..Len(a \o b) PROVE From((a \o b)[i], n + 1)
        OBVIOUS
      <4>1. CASE i \in 1..Len(a)
        <5>1. PICK k \in 1..n : \E x \in 1..Len(S[k]) : S[k][x] = a[i]
          BY <4>1, <3>2
        <5>2. k \in 1..(n + 1)
          OBVIOUS
        <5> QED BY <4>1, <5>1, <5>2, <3>5
      <4>2. CASE i \in Len(a) + 1..Len(a) + Len(b)
        <5>1. n + 1 \in 1..(n + 1)
          OBVIOUS
        <5> QED BY <4>2, <5>1, <3>5 DEF b
      <4> QED BY <4>1, <4>2, <3>4
    <3> HIDE DEF From
    <3> QED BY <3>1, <3>4, <3>6, <3>7 DEF a, b
  <2> HIDE DEF Good
  <2>4. 0 \in N /\ \A n \in Nat : n \in N => n + 1 \in N
    BY <1>0, <2>2, <2>3
  <2> HIDE DEF N
  <2>5. Nat \subseteq N
    BY <2>4, SetInduction
  <2>6. Good(Len(S))
    <3>1. Len(S) \in N
      BY <1>0, <2>5
    <3> QED BY <1>0, <1>2, <3>1 DEF N
  <2> QED BY <1>0, <2>1, <2>6 DEF Good
<1> QED BY <1>1, <1>2

(* What an hour file reads as until time t: lines of its hour, in order.   *)
HourLog(s, h, t) ==
    /\ s \in Seq(Int) /\ InOrder(s)
    /\ \A i \in 1..Len(s) : s[i] \in 0..t /\ Files!Hour(s[i]) = h

ReadInv ==
    /\ written \in [Files!Hours -> Seq(Int)]
    /\ \A h \in Files!Hours \ broken : Files!Lines(hourFiles[h]) = written[h]
    /\ \A h \in Files!Hours : HourLog(Files!Lines(hourFiles[h]), h, tick)

(* An hour's log stays one as time passes, as it grows and as it is cut.   *)
LEMMA LogGrows ==
    ASSUME NEW s, NEW h, NEW t \in Nat, HourLog(s, h, t)
    PROVE  /\ HourLog(s, h, t + 1)
           /\ h = Files!Hour(t) => HourLog(Append(s, t), h, t)
           /\ \A n \in 0..Len(s) : HourLog(SubSeq(s, 1, n), h, t)
<1>1. s \in Seq(Int) /\ InOrder(s) /\ \A i \in 1..Len(s) : s[i] \in 0..t /\ Files!Hour(s[i]) = h
  BY DEF HourLog
<1>2. HourLog(s, h, t + 1)
  BY <1>1 DEF HourLog
<1>3. ASSUME h = Files!Hour(t) PROVE HourLog(Append(s, t), h, t)
  <2> DEFINE a == Append(s, t)
  <2>1. a \in Seq(Int) /\ Len(a) = Len(s) + 1 /\ Len(s) \in Nat /\ a[Len(s) + 1] = t
        /\ \A i \in 1..Len(s) : a[i] = s[i]
    BY <1>1
  <2> HIDE DEF a
  <2>2. \A i \in 1..Len(a) : a[i] \in 0..t /\ Files!Hour(a[i]) = h
    <3> SUFFICES ASSUME NEW i \in 1..Len(a) PROVE a[i] \in 0..t /\ Files!Hour(a[i]) = h
      OBVIOUS
    <3>1. CASE i \in 1..Len(s)
      BY <3>1, <1>1, <2>1
    <3>2. CASE i = Len(s) + 1
      <4>1. a[i] = t /\ t \in 0..t
        BY <3>2, <2>1
      <4> QED BY <4>1, <1>3
    <3> QED BY <3>1, <3>2, <2>1
  <2>3. InOrder(a)
    <3> SUFFICES ASSUME NEW i \in 1..Len(a), NEW j \in 1..Len(a), i < j PROVE a[i] <= a[j]
      BY DEF InOrder
    <3>1. i \in 1..Len(s)
      BY <2>1
    <3>2. CASE j = Len(s) + 1
      BY <3>2, <2>1, <2>2
    <3>3. CASE j # Len(s) + 1
      <4>1. j \in 1..Len(s)
        BY <3>3, <2>1
      <4> QED BY <3>1, <4>1, <1>1, <2>1 DEF InOrder
    <3> QED BY <3>2, <3>3
  <2>4. HourLog(a, h, t)
    BY <2>1, <2>2, <2>3 DEF HourLog
  <2> QED BY <2>4 DEF a
<1>4. ASSUME NEW n \in 0..Len(s) PROVE HourLog(SubSeq(s, 1, n), h, t)
  <2> DEFINE a == SubSeq(s, 1, n)
  <2>1. a \in Seq(Int) /\ Len(a) = n /\ n \in Nat /\ n <= Len(s) /\ \A i \in 1..n : a[i] = s[i]
    BY <1>1
  <2> HIDE DEF a
  <2>2. 1..n \subseteq 1..Len(s)
    BY <1>1, <2>1
  <2>3. InOrder(a)
    BY <1>1, <2>1, <2>2 DEF InOrder
  <2>4. HourLog(a, h, t)
    BY <1>1, <2>1, <2>2, <2>3 DEF HourLog
  <2> QED BY <2>4 DEF a
<1> QED BY <1>2, <1>3, <1>4

(* Every step of the writer keeps what the files read back.                *)
LEMMA StepKeepsReads ==
    ASSUME Files!FilesAssumption, FilesInv, ReadInv, [Files!Next]_(Files!vars)
    PROVE  ReadInv'
<1>0. PICK t \in Nat : t = tick
  BY DEF FilesInv, Files!FilesAssumption
<1>1. CASE Files!Write
  <2>1. /\ \A h \in Files!Hours : Files!Lines(hourFiles'[h]) =
               IF h = Files!Hour(t) THEN Append(Files!Lines(hourFiles[h]), t) ELSE Files!Lines(hourFiles[h])
        /\ written' = [written EXCEPT ![Files!Hour(t)] = Append(@, t)]
        /\ UNCHANGED <<tick, broken>> /\ t \in Int
    BY <1>0, <1>1, WritingReads DEF Files!Write
  <2>2. \A h \in Files!Hours : HourLog(Files!Lines(hourFiles'[h]), h, t)
    BY <1>0, <2>1, LogGrows DEF ReadInv
  <2>3. /\ written' \in [Files!Hours -> Seq(Int)]
        /\ \A h \in Files!Hours : written'[h] = IF h = Files!Hour(t) THEN Append(written[h], t) ELSE written[h]
    <3>1. PICK k \in Files!Hours : k = Files!Hour(t)
      BY <1>0, HoursOfTheClock DEF FilesInv
    <3>2. written \in [Files!Hours -> Seq(Int)] /\ Append(written[k], t) \in Seq(Int)
      BY <3>1, <2>1 DEF ReadInv
    <3> QED BY <2>1, <3>1, <3>2
  <2> QED BY <1>0, <2>1, <2>2, <2>3 DEF ReadInv
<1>2. CASE Files!Shutdown
  <2>1. /\ \A h \in Files!Hours : Files!Lines(hourFiles'[h]) = Files!Lines(hourFiles[h])
        /\ UNCHANGED <<tick, written, broken>>
    BY <1>2, ClosingReads DEF Files!Shutdown
  <2> QED BY <2>1 DEF ReadInv
<1>3. CASE Files!Crash
  <2>1. \A h \in Files!Hours : \E n \in 0..Len(Files!Lines(hourFiles[h])) :
            Files!Lines(hourFiles'[h]) = SubSeq(Files!Lines(hourFiles[h]), 1, n)
    BY <1>3, CrashReads
  <2>2. \A h \in Files!Hours : HourLog(Files!Lines(hourFiles'[h]), h, t)
    BY <1>0, <2>1, LogGrows DEF ReadInv
  <2>3. \A h \in Files!Hours \ broken' : h \notin broken /\ hourFiles'[h] = hourFiles[h]
    BY <1>3 DEF Files!Crash, FilesInv
  <2>4. UNCHANGED <<tick, written>>
    BY <1>3 DEF Files!Crash
  <2> QED BY <1>0, <2>2, <2>3, <2>4 DEF ReadInv
<1>4. CASE Files!Restart
  BY <1>4 DEF Files!Restart, ReadInv
<1>5. CASE Files!Tick
  <2>1. tick' = t + 1 /\ UNCHANGED <<hourFiles, written, broken>>
    BY <1>0, <1>5 DEF Files!Tick
  <2> QED BY <1>0, <2>1, LogGrows DEF ReadInv
<1>6. CASE UNCHANGED Files!vars
  BY <1>6 DEF Files!vars, ReadInv
<1> QED BY <1>1, <1>2, <1>3, <1>4, <1>5, <1>6 DEF Files!Next

(* What the hour files read as, in the whole composition.                  *)
LEMMA ReadInvHolds == CaptureSpec => []ReadInv
<1>0. Files!FilesAssumption
  BY PartsAssumption
<1>1. Files!Init => ReadInv
  <2> SUFFICES ASSUME Files!Init PROVE ReadInv
    OBVIOUS
  <2>1. /\ \A h \in Files!Hours : hourFiles[h] = <<>> /\ written[h] = <<>>
        /\ written \in [Files!Hours -> Seq(Int)]
    BY DEF Files!Init
  <2>2. Files!Lines(<<>>) = <<>>
    <3>1. LinesOf(<<>>) = <<>>
      BY DEF LinesOf
    <3>2. <<>> \in Seq(Frames) /\ FlattenSeq(<<>>) = <<>>
      BY DEF FlattenSeq
    <3> QED BY <3>1, <3>2, LinesFlatten
  <2>3. \A h : HourLog(<<>>, h, tick)
    BY DEF HourLog, InOrder
  <2> QED BY <2>1, <2>2, <2>3 DEF ReadInv
<1>2. CaptureInit => ReadInv
  BY <1>1 DEF CaptureInit
<1>3. FilesInv /\ ReadInv /\ [CaptureNext]_captureVars => ReadInv'
  BY <1>0, FilesStep, StepKeepsReads
<1> QED
  BY <1>2, <1>3, FilesInvHolds, PTL DEF CaptureSpec

(* The hours of a day in order are the numbers from none.                  *)
LEMMA HoursInOrder ==
    ASSUME Files!FilesAssumption
    PROVE  /\ DOMAIN Files!HourOrder = 1..Cardinality(Files!Hours) /\ Cardinality(Files!Hours) \in Nat
           /\ \A k \in 1..Cardinality(Files!Hours) :
                  Files!HourOrder[k] = k - 1 /\ Files!HourOrder[k] \in Files!Hours
<1> DEFINE m == FileTicks \div HourTicks
           rank(h) == Cardinality({g \in Files!Hours : g < h})
<1>1. m \in Nat /\ Files!Hours = 0..m
  BY DEF Files!FilesAssumption, Files!Hours
<1> HIDE DEF m
<1>2. Cardinality(Files!Hours) = m + 1
  BY <1>1, FS_Interval
<1>3. ASSUME NEW h \in Files!Hours PROVE rank(h) = h
  <2>1. h \in Nat /\ {g \in Files!Hours : g < h} = 0..(h - 1)
    BY <1>1
  <2>2. h - 1 \in Int /\ 0 \in Int
    BY <2>1
  <2>3. Cardinality(0..(h - 1)) = IF 0 > h - 1 THEN 0 ELSE (h - 1) - 0 + 1
    BY ONLY <2>2, FS_Interval
  <2>4. (IF 0 > h - 1 THEN 0 ELSE (h - 1) - 0 + 1) = h
    BY <2>1
  <2> QED BY <2>1, <2>3, <2>4
<1>4. Files!HourOrder = [k \in 1..Cardinality(Files!Hours) |-> CHOOSE h \in Files!Hours : rank(h) = k - 1]
  BY DEF Files!HourOrder, Files!Cardinality, Cardinality
<1> HIDE DEF rank
<1>5. \A k \in 1..(m + 1) : (CHOOSE h \in Files!Hours : rank(h) = k - 1) = k - 1 /\ k - 1 \in Files!Hours
  <2> SUFFICES ASSUME NEW k \in 1..(m + 1)
               PROVE  (CHOOSE h \in Files!Hours : rank(h) = k - 1) = k - 1 /\ k - 1 \in Files!Hours
    OBVIOUS
  <2>1. k - 1 \in Files!Hours
    BY <1>1
  <2>2. \A h \in Files!Hours : rank(h) = k - 1 <=> h = k - 1
    BY <1>3
  <2> QED BY <2>1, <2>2
<1> DEFINE at(k) == CHOOSE h \in Files!Hours : rank(h) = k - 1
<1>6. Files!HourOrder = [k \in 1..(m + 1) |-> at(k)] /\ \A k \in 1..(m + 1) : at(k) = k - 1 /\ k - 1 \in Files!Hours
  BY <1>2, <1>4, <1>5
<1> HIDE DEF at
<1> QED BY <1>1, <1>2, <1>6

(* Hours in order, each in receive order: the day is in receive order.     *)
LEMMA ReadsInOrder == Files!FilesAssumption /\ FilesInv /\ ReadInv => Files!DayInReceiveOrder
<1> SUFFICES ASSUME Files!FilesAssumption, FilesInv, ReadInv PROVE Files!DayInReceiveOrder
  OBVIOUS
<1> DEFINE n == Cardinality(Files!Hours)
           S == [k \in 1..n |-> Files!Lines(hourFiles[k - 1])]
<1>1. n \in Nat /\ \A k \in 1..n : k - 1 \in Files!Hours /\ Files!HourOrder[k] = k - 1
  BY HoursInOrder
<1>2. Files!DayLines = FlattenSeq(S)
  <2>1. S = [i \in DOMAIN Files!HourOrder |-> Files!Lines(hourFiles[Files!HourOrder[i]])]
    BY HoursInOrder
  <2> HIDE DEF S
  <2> QED BY <2>1, FlattenNames DEF Files!DayLines
<1>3. \A k \in 1..n : HourLog(S[k], k - 1, tick)
  BY <1>1 DEF ReadInv
<1>4. S \in Seq(Seq(Int)) /\ Len(S) = n
  <2>1. \A k \in 1..n : S[k] \in Seq(Int)
    BY <1>3 DEF HourLog
  <2>2. S = [k \in 1..n |-> S[k]]
    OBVIOUS
  <2> HIDE DEF S
  <2>3. S \in [1..n -> Seq(Int)]
    BY <2>1, <2>2
  <2> QED BY <1>1, <2>3
<1> HIDE DEF S, n
<1>5. \A x, y \in Nat : Files!Hour(x) < Files!Hour(y) => x <= y
  BY DEF Files!Hour, Files!FilesAssumption
<1>6. \A k, l \in 1..n : k < l => \A i \in 1..Len(S[k]), j \in 1..Len(S[l]) : S[k][i] <= S[l][j]
  <2> SUFFICES ASSUME NEW k \in 1..n, NEW l \in 1..n, k < l,
                      NEW i \in 1..Len(S[k]), NEW j \in 1..Len(S[l])
               PROVE  S[k][i] <= S[l][j]
    OBVIOUS
  <2>1. tick \in Nat
    BY DEF FilesInv, Files!FilesAssumption
  <2>2. S[k][i] \in Nat /\ Files!Hour(S[k][i]) = k - 1 /\ S[l][j] \in Nat /\ Files!Hour(S[l][j]) = l - 1
    <3>1. HourLog(S[k], k - 1, tick) /\ HourLog(S[l], l - 1, tick)
      BY <1>3
    <3>2. /\ S[k][i] \in 0..tick /\ Files!Hour(S[k][i]) = k - 1
          /\ S[l][j] \in 0..tick /\ Files!Hour(S[l][j]) = l - 1
      BY <3>1 DEF HourLog
    <3> QED BY <2>1, <3>2
  <2>3. k - 1 < l - 1
    BY <1>1
  <2> QED BY <2>2, <2>3, <1>5
<1>7. FlattenSeq(S) \in Seq(Int) /\ InOrder(FlattenSeq(S))
  BY <1>3, <1>4, <1>6, FlattenInOrder DEF HourLog
<1>8. DOMAIN FlattenSeq(S) = 1..Len(FlattenSeq(S))
  BY <1>7
<1> QED BY <1>2, <1>7, <1>8 DEF Files!DayInReceiveOrder, InOrder

(* Unless a crash cut it, an hour file reads back what it was given, and a *)
(* day reads back in receive order, whatever cut it.                       *)
THEOREM FilesReadBackAlways == CaptureSpec => []FilesReadBack
<1>0. Files!FilesAssumption
  BY PartsAssumption
<1>1. FilesInv /\ ReadInv => Files!HourReadsBack
  <2> SUFFICES ASSUME FilesInv, ReadInv, NEW h \in Files!Hours \ broken
               PROVE  Files!Decodes(hourFiles[h]) /\ Files!Lines(hourFiles[h]) = written[h]
    BY DEF Files!HourReadsBack
  <2>1. Files!Decodes(hourFiles[h])
    <3>1. hourFiles[h] \in Seq(Frames) /\ Len(hourFiles[h]) \in Nat
      BY DEF FilesInv
    <3>2. \A i \in 1..(Len(hourFiles[h]) - 1) : i \in 1..Len(hourFiles[h]) /\ i # Len(hourFiles[h])
      BY <3>1
    <3> QED BY <3>2 DEF Files!Decodes, FilesInv
  <2> QED BY <2>1 DEF ReadInv
<1>2. FilesInv /\ ReadInv => FilesReadBack
  BY <1>0, <1>1, ReadsInOrder DEF FilesReadBack
<1> QED BY <1>2, FilesInvHolds, ReadInvHolds, PTL
-----------------------------------------------------------------------------
(***************************************************************************)
(* Session markers: sorting them, pairing them, and what the pairs are     *)
(* true of, for any number of processes that record one after another.     *)
(***************************************************************************)

MarkerLine == [event : {"start", "end"}, ts : Nat]

(* Markers by the clock: a strict order of the lines but for equal ones.   *)
LEMMA MarkersAhead ==
    ASSUME NEW m \in Seq(MarkerLine)
    PROVE  LinearBefore([i \in 1..Len(m) |-> Ahead(m, i)], Len(m))
<1> DEFINE n == Len(m)
           B == [i \in 1..n |-> Ahead(m, i)]
<1>1. n \in Nat /\ DOMAIN m = 1..n /\ \A i \in 1..n : m[i] \in MarkerLine
  OBVIOUS
<1> DEFINE Key(i) == 2 * m[i].ts + (IF m[i].event = "start" THEN 1 ELSE 0)
<1>2. \A i \in 1..n : Key(i) \in Nat
  BY <1>1 DEF MarkerLine
<1>3. \A i, j \in 1..n : OrderMarkers(m[i], m[j]) <=> Key(i) < Key(j)
  BY <1>1 DEF OrderMarkers, MarkerLine
<1> HIDE DEF Key
<1>4. \A i, j \in 1..n : j \in B[i] <=> Key(j) < Key(i) \/ (Key(j) = Key(i) /\ j < i)
  <2> SUFFICES ASSUME NEW i \in 1..n, NEW j \in 1..n
               PROVE  j \in Ahead(m, i) <=> Key(j) < Key(i) \/ (Key(j) = Key(i) /\ j < i)
    OBVIOUS
  <2>1. j \in Ahead(m, i) <=> IF j < i THEN ~(Key(i) < Key(j)) ELSE Key(j) < Key(i)
    BY <1>1, <1>3 DEF Ahead
  <2> QED BY <2>1, <1>2
<1>5. \A i \in 1..n : B[i] \subseteq 1..n
  BY <1>1 DEF Ahead
<1>6. \A i \in 1..n : i \notin B[i]
  BY <1>2, <1>4
<1>7. \A i, j \in 1..n : i # j => i \in B[j] \/ j \in B[i]
  BY <1>2, <1>4
<1>8. ASSUME NEW i \in 1..n, NEW j \in 1..n, i \in B[j], NEW k \in B[i] PROVE k \in B[j]
  <2>1. k \in 1..n
    BY <1>5
  <2> HIDE DEF B
  <2> QED BY <1>2, <1>4, <1>8, <2>1
<1> HIDE DEF B
<1>9. LinearBefore(B, n)
  BY <1>5, <1>6, <1>7, <1>8 DEF LinearBefore
<1> QED BY <1>9 DEF B

(* Sorting the markers moves them about, and leaves no later one in front. *)
LEMMA MarkersByTheClock ==
    ASSUME NEW m \in Seq(MarkerLine)
    PROVE  /\ ByTheClock(m) \in Seq(MarkerLine) /\ Len(ByTheClock(m)) = Len(m)
           /\ \A k \in 1..Len(m) : ByTheClock(m)[k] \in ToSet(m)
           /\ \A c \in ToSet(m) : \E k \in 1..Len(m) : ByTheClock(m)[k] = c
           /\ \A k, l \in 1..Len(m) : k < l => ~OrderMarkers(ByTheClock(m)[l], ByTheClock(m)[k])
<1> DEFINE n == Len(m)
           B == [i \in 1..n |-> Ahead(m, i)]
           place == [i \in DOMAIN m |-> Cardinality(Ahead(m, i)) + 1]
           at(k) == CHOOSE i \in DOMAIN m : place[i] = k
           s == ByTheClock(m)
<1>1. n \in Nat /\ DOMAIN m = 1..n /\ \A i \in 1..n : m[i] \in MarkerLine
  OBVIOUS
<1>2. LinearBefore(B, n)
  BY MarkersAhead
<1>3. \A i \in 1..n : place[i] = Cardinality(B[i]) + 1 /\ B[i] = Ahead(m, i)
  BY <1>1
<1>4. s = [k \in 1..n |-> m[at(k)]]
  BY <1>1 DEF ByTheClock
<1> HIDE DEF B, place, s
<1>5. /\ \A i \in 1..n : Cardinality(B[i]) \in Nat /\ Cardinality(B[i]) + 1 \in 1..n
      /\ \A i, j \in 1..n : i \in B[j] <=> Cardinality(B[i]) < Cardinality(B[j])
      /\ \A k \in 1..n : \E i \in 1..n : Cardinality(B[i]) + 1 = k
  BY <1>1, <1>2, Ranking
<1>6. \A k \in 1..n : at(k) \in 1..n /\ Cardinality(B[at(k)]) + 1 = k
  BY <1>1, <1>3, <1>5
<1> HIDE DEF at
<1>7. s \in Seq(MarkerLine) /\ Len(s) = n
  BY <1>1, <1>4, <1>6
<1>8. \A k \in 1..n : s[k] \in ToSet(m)
  BY <1>1, <1>4, <1>6 DEF ToSet
<1>9. ASSUME NEW c \in ToSet(m) PROVE \E k \in 1..n : s[k] = c
  <2>1. PICK i \in 1..n : m[i] = c
    BY <1>1 DEF ToSet
  <2> DEFINE k == Cardinality(B[i]) + 1
  <2>2. k \in 1..n
    BY <1>5
  <2>3. at(k) = i
    <3>1. at(k) \in 1..n /\ Cardinality(B[at(k)]) + 1 = k
      BY <1>6, <2>2
    <3>2. \A j \in 1..n : Cardinality(B[j]) \in Int
      BY <1>5
    <3>3. ~(Cardinality(B[at(k)]) < Cardinality(B[i])) /\ ~(Cardinality(B[i]) < Cardinality(B[at(k)]))
      BY <3>1, <3>2
    <3>4. at(k) \notin B[i] /\ i \notin B[at(k)]
      BY <3>1, <3>3, <1>5
    <3> QED BY <3>1, <3>4, <1>2 DEF LinearBefore
  <2> QED BY <2>1, <2>2, <2>3, <1>4
<1>10. ASSUME NEW k \in 1..n, NEW l \in 1..n, k < l PROVE ~OrderMarkers(s[l], s[k])
  <2>1. at(k) \in 1..n /\ at(l) \in 1..n /\ s[k] = m[at(k)] /\ s[l] = m[at(l)]
    BY <1>4, <1>6
  <2>2. at(k) \in B[at(l)]
    <3>1. Cardinality(B[at(k)]) + 1 = k /\ Cardinality(B[at(l)]) + 1 = l
      BY <1>6
    <3>2. Cardinality(B[at(k)]) \in Nat /\ Cardinality(B[at(l)]) \in Nat
      BY <1>5, <2>1
    <3>3. Cardinality(B[at(k)]) < Cardinality(B[at(l)])
      BY <3>1, <3>2, <1>10
    <3> QED BY <3>3, <1>5, <2>1
  <2>3. at(k) \in Ahead(m, at(l))
    BY <2>1, <2>2, <1>3
  <2> QED BY <2>1, <2>3, <1>1 DEF Ahead, OrderMarkers, MarkerLine
<1> QED BY <1>7, <1>8, <1>9, <1>10 DEF s

(* The last message before an instant, if there is one.                    *)
LEMMA LastIsBefore ==
    ASSUME NEW rec \in SUBSET Nat, NEW b \in Nat
    PROVE  /\ LastActivity(rec, b) \in Int /\ LastActivity(rec, b) < b
           /\ LastActivity(rec, b) # Absent => LastActivity(rec, b) \in rec
           /\ \A t \in rec : t < b => t <= LastActivity(rec, b)
<1> DEFINE E == {t \in rec : t < b}
<1>1. IsFiniteSet(E) /\ E \in SUBSET Nat
  <2>1. \A t \in E : t <= b
    OBVIOUS
  <2> QED BY <2>1, FS_BoundedSetOfNaturals
<1>2. CASE E = {}
  <2>1. LastActivity(rec, b) = Absent
    BY <1>2 DEF LastActivity
  <2> QED BY <2>1, <1>2 DEF Absent
<1>3. CASE E # {}
  <2>1. LastActivity(rec, b) = Max(E)
    BY <1>3 DEF LastActivity
  <2>2. \E x \in E : \A y \in E : x >= y
    <3> HIDE DEF E
    <3> QED BY <1>1, <1>3, GreatestExists
  <2>3. Max(E) \in E /\ \A y \in E : Max(E) >= y
    <3> HIDE DEF E
    <3> QED BY <2>2 DEF Max
  <2>4. Max(E) \in rec /\ Max(E) < b /\ Max(E) \in Nat
    BY <2>3
  <2>5. \A t \in rec : t < b => t <= Max(E)
    BY <2>3, <2>4
  <2> HIDE DEF E
  <2> QED BY <2>1, <2>4, <2>5
<1> QED BY <1>2, <1>3

(* What one marker after another adds to the derived gaps.                 *)
Between(a, b, rec) ==
    IF b.event = "end" THEN {}
    ELSE IF a.event = "end" THEN AddGap({}, "downtime", a.ts, b.ts)
         ELSE AddGap({}, "unclean", UncleanBegin(rec, a.ts, b.ts), b.ts)

(* The gaps derived after k markers, and what the loop remembers then.     *)
GapsUpTo(s, k, rec) == UNION {Between(s[j], s[j + 1], rec) : j \in 1..(k - 1)}
Remembers(x, s, k, rec) ==
    /\ x.gaps = GapsUpTo(s, k, rec)
    /\ k = 0 => x.pendingEnd = Absent /\ x.openStart = Absent
    /\ k # 0 /\ s[k].event = "end" => x.pendingEnd = s[k].ts /\ x.openStart = Absent
    /\ k # 0 /\ s[k].event = "start" => x.pendingEnd = Absent /\ x.openStart = s[k].ts

LoopStates == [pendingEnd : Int, openStart : Int,
               gaps : SUBSET [kind : {"downtime", "unclean"}, window : Int \X Int]]

(* One turn of the loop stays among its states.                            *)
LEMMA PairType ==
    ASSUME NEW rec \in SUBSET Nat, NEW x \in LoopStates, NEW m \in MarkerLine
    PROVE  Pair(rec, x, m) \in LoopStates
<1> DEFINE GapSet == [kind : {"downtime", "unclean"}, window : Int \X Int]
<1>1. m.ts \in Nat /\ m.event \in {"start", "end"}
  BY DEF MarkerLine
<1>2. x.pendingEnd \in Int /\ x.openStart \in Int /\ x.gaps \in SUBSET GapSet
  BY DEF LoopStates
<1>3. UncleanBegin(rec, x.openStart, m.ts) \in Int
  BY <1>1, <1>2, LastIsBefore DEF UncleanBegin
<1>4. \A k \in {"downtime", "unclean"}, a, b \in Int : AddGap(x.gaps, k, a, b) \in SUBSET GapSet
  <2> SUFFICES ASSUME NEW k \in {"downtime", "unclean"}, NEW a \in Int, NEW b \in Int
               PROVE  AddGap(x.gaps, k, a, b) \in SUBSET GapSet
    OBVIOUS
  <2>1. Gap(k, a, b) \in GapSet
    BY DEF Gap
  <2> HIDE DEF GapSet
  <2> QED BY <2>1, <1>2 DEF AddGap
<1>5. GapsAt(rec, x, m.ts) \in SUBSET GapSet
  <2> HIDE DEF GapSet
  <2> QED BY <1>1, <1>2, <1>3, <1>4 DEF GapsAt
<1>6. LoopStates = [pendingEnd : Int, openStart : Int, gaps : SUBSET GapSet]
  BY DEF LoopStates
<1> HIDE DEF GapSet
<1>7. CASE m.event = "end"
  <2>1. Pair(rec, x, m) = [x EXCEPT !.pendingEnd = m.ts, !.openStart = Absent]
    BY <1>7 DEF Pair
  <2>2. Pair(rec, x, m) = [pendingEnd |-> m.ts, openStart |-> Absent, gaps |-> x.gaps]
    BY <2>1 DEF LoopStates
  <2> QED BY <2>2, <1>1, <1>2, <1>6 DEF Absent
<1>8. CASE m.event # "end"
  <2>1. Pair(rec, x, m) = [pendingEnd |-> Absent, openStart |-> m.ts, gaps |-> GapsAt(rec, x, m.ts)]
    BY <1>8 DEF Pair
  <2> QED BY <2>1, <1>1, <1>5, <1>6 DEF Absent
<1> QED BY <1>7, <1>8

(* One turn of the loop adds what the marker before and this one leave.    *)
LEMMA PairAdds ==
    ASSUME NEW rec \in SUBSET Nat, NEW s \in Seq(MarkerLine), NEW k \in 1..Len(s),
           NEW x \in LoopStates, Remembers(x, s, k - 1, rec)
    PROVE  Remembers(Pair(rec, x, s[k]), s, k, rec)
<1> DEFINE m == s[k]
           y == Pair(rec, x, m)
<1>0. k \in Nat \ {0} /\ Len(s) \in Nat /\ \A j \in 1..Len(s) : s[j] \in MarkerLine
  OBVIOUS
<1>1. m \in MarkerLine /\ m.ts \in Nat /\ m.event \in {"start", "end"} /\ k \in Nat \ {0}
  BY <1>0 DEF MarkerLine
<1>2. k # 1 => /\ k - 1 \in 1..Len(s) /\ s[k - 1].ts \in Nat /\ s[k - 1].event \in {"start", "end"}
  <2> SUFFICES ASSUME k # 1
               PROVE  k - 1 \in 1..Len(s) /\ s[k - 1].ts \in Nat /\ s[k - 1].event \in {"start", "end"}
    OBVIOUS
  <2>1. k - 1 \in 1..Len(s)
    BY <1>0
  <2> QED BY <1>0, <2>1 DEF MarkerLine
<1>3. x.gaps = GapsUpTo(s, k - 1, rec)
  BY DEF Remembers
<1>4. k = 1 => GapsUpTo(s, k, rec) = {} /\ GapsUpTo(s, k - 1, rec) = {}
  BY DEF GapsUpTo
<1>5. k # 1 => GapsUpTo(s, k, rec) = GapsUpTo(s, k - 1, rec) \cup Between(s[k - 1], m, rec)
  <2> SUFFICES ASSUME k # 1
               PROVE  GapsUpTo(s, k, rec) = GapsUpTo(s, k - 1, rec) \cup Between(s[k - 1], m, rec)
    OBVIOUS
  <2>1. 1..(k - 1) = 1..(k - 1 - 1) \cup {k - 1} /\ (k - 1) + 1 = k
    BY <1>1
  <2> DEFINE P(j) == Between(s[j], s[j + 1], rec)
  <2>2. P(k - 1) = Between(s[k - 1], m, rec)
    BY <2>1
  <2> HIDE DEF P
  <2>3. UNION {P(j) : j \in 1..(k - 1)} = (UNION {P(j) : j \in 1..(k - 1 - 1)}) \cup P(k - 1)
    BY <2>1
  <2> QED BY <2>2, <2>3 DEF GapsUpTo, P
<1>6. CASE m.event = "end"
  <2>1. /\ y.pendingEnd = m.ts /\ y.openStart = Absent /\ y.gaps = x.gaps
    BY <1>6 DEF Pair, LoopStates
  <2>2. k # 1 => Between(s[k - 1], m, rec) = {}
    BY <1>6 DEF Between
  <2>3. y.gaps = GapsUpTo(s, k, rec)
    BY <2>1, <2>2, <1>3, <1>4, <1>5
  <2> QED BY <2>1, <2>3, <1>1, <1>6 DEF Remembers
<1>7. CASE m.event = "start"
  <2>1. y.pendingEnd = Absent /\ y.openStart = m.ts /\ y.gaps = GapsAt(rec, x, m.ts)
    BY <1>7 DEF Pair
  <2>2. GapsAt(rec, x, m.ts) = GapsUpTo(s, k, rec)
    <3>1. CASE k = 1
      <4>1. x.pendingEnd = Absent /\ x.openStart = Absent
        BY <3>1 DEF Remembers
      <4> QED BY <4>1, <3>1, <1>3, <1>4 DEF GapsAt
    <3>2. CASE k # 1
      <4>1. \A kind, a, b : AddGap(x.gaps, kind, a, b) = x.gaps \cup AddGap({}, kind, a, b)
        BY DEF AddGap
      <4>2. CASE s[k - 1].event = "end"
        <5>1. x.pendingEnd = s[k - 1].ts /\ x.pendingEnd # Absent
          BY <3>2, <4>2, <1>2 DEF Remembers, Absent
        <5>2. GapsAt(rec, x, m.ts) = AddGap(x.gaps, "downtime", s[k - 1].ts, m.ts)
          BY <5>1 DEF GapsAt
        <5>3. Between(s[k - 1], m, rec) = AddGap({}, "downtime", s[k - 1].ts, m.ts)
          BY <4>2, <1>7 DEF Between
        <5> QED BY <5>2, <5>3, <4>1, <1>3, <1>5, <3>2
      <4>3. CASE s[k - 1].event = "start"
        <5>1. x.pendingEnd = Absent /\ x.openStart = s[k - 1].ts /\ x.openStart # Absent
          BY <3>2, <4>3, <1>2 DEF Remembers, Absent
        <5>2. GapsAt(rec, x, m.ts) = AddGap(x.gaps, "unclean", UncleanBegin(rec, s[k - 1].ts, m.ts), m.ts)
          BY <5>1 DEF GapsAt
        <5>3. Between(s[k - 1], m, rec) = AddGap({}, "unclean", UncleanBegin(rec, s[k - 1].ts, m.ts), m.ts)
          BY <4>3, <1>7 DEF Between
        <5> QED BY <5>2, <5>3, <4>1, <1>3, <1>5, <3>2
      <4> QED BY <4>2, <4>3, <3>2, <1>2
    <3> QED BY <3>1, <3>2
  <2> QED BY <2>1, <2>2, <1>1, <1>7 DEF Remembers
<1> QED BY <1>1, <1>6, <1>7

(* The derived gaps are what neighbouring markers leave between them.      *)
LEMMA DerivedBetween ==
    ASSUME NEW m \in Seq(MarkerLine), NEW rec \in SUBSET Nat
    PROVE  DeriveGaps(m, rec) = GapsUpTo(ByTheClock(m), Len(m), rec)
<1> DEFINE s == ByTheClock(m)
           n == Len(m)
           base == [pendingEnd |-> Absent, openStart |-> Absent, gaps |-> {}]
           G == [i \in 1..n |-> [x \in LoopStates |-> Pair(rec, x, s[i])]]
           Fold(h) == h = [t \in SUBSET DOMAIN s |-> IF t = {} THEN base
                                                     ELSE Pair(rec, h[t \ {Max(t)}], s[Max(t)])]
           it == CHOOSE h : Fold(h)
<1>1. DeriveGaps(m, rec) = it[DOMAIN s].gaps
  BY DEF DeriveGaps, FoldLeft, MapThenFoldSet
<1>2. s \in Seq(MarkerLine) /\ Len(s) = n /\ n \in Nat /\ DOMAIN s = 1..n
  BY MarkersByTheClock
<1>3. base \in LoopStates
  BY DEF LoopStates, Absent
<1> HIDE DEF s, base
<1>4. \A i \in 1..n : s[i] \in MarkerLine
  BY <1>2
<1>5. \A i \in 1..n : \A x \in LoopStates : Pair(rec, x, s[i]) \in LoopStates
  BY <1>4, PairType
<1>6. G \in [1..n -> [LoopStates -> LoopStates]]
  BY <1>5
<1>7. \A i \in 1..n : \A x \in LoopStates : G[i][x] = Pair(rec, x, s[i])
  OBVIOUS
<1> HIDE DEF G
<1>8. PICK g \in [SUBSET (1..n) -> LoopStates] : FoldOf(g, base, G, n)
  BY <1>2, <1>3, <1>6, FoldExists
<1>9. Fold(g)
  <2>1. \A t \in SUBSET (1..n) : t # {} => Max(t) \in 1..n /\ g[t \ {Max(t)}] \in LoopStates
    BY <1>2, MaxIsOne
  <2>2. \A t \in SUBSET (1..n) : g[t] = IF t = {} THEN base ELSE G[Max(t)][g[t \ {Max(t)}]]
    BY <1>8 DEF FoldOf
  <2>3. \A t \in SUBSET (1..n) : g[t] = IF t = {} THEN base ELSE Pair(rec, g[t \ {Max(t)}], s[Max(t)])
    BY <2>1, <2>2, <1>7
  <2>4. g = [t \in SUBSET (1..n) |-> g[t]]
    OBVIOUS
  <2> QED BY <2>3, <2>4, <1>2
<1>10. Fold(it)
  BY <1>9
<1> HIDE DEF it
<1>11. \A t \in SUBSET (1..n) : it[t] = IF t = {} THEN base ELSE Pair(rec, it[t \ {Max(t)}], s[Max(t)])
  BY <1>10, <1>2
<1> DEFINE K == {k \in Nat : k <= n => it[1..k] \in LoopStates /\ Remembers(it[1..k], s, k, rec)}
<1>12. 0 \in K
  <2>1. 1..0 = {} /\ 1..0 \in SUBSET (1..n)
    OBVIOUS
  <2>2. it[1..0] = base
    BY <2>1, <1>11
  <2>3. GapsUpTo(s, 0, rec) = {}
    BY DEF GapsUpTo
  <2>4. Remembers(base, s, 0, rec)
    BY <2>3 DEF Remembers, base
  <2> QED BY <2>2, <2>4, <1>3
<1>13. ASSUME NEW k \in Nat, k \in K PROVE k + 1 \in K
  <2> SUFFICES ASSUME k + 1 <= n
               PROVE  it[1..(k + 1)] \in LoopStates /\ Remembers(it[1..(k + 1)], s, k + 1, rec)
    OBVIOUS
  <2>1. it[1..k] \in LoopStates /\ Remembers(it[1..k], s, k, rec) /\ k + 1 \in 1..n /\ (k + 1) - 1 = k
    BY <1>13, <1>2
  <2>2. 1..(k + 1) \in SUBSET (1..n) /\ 1..(k + 1) # {} /\ k + 1 \in 1..(k + 1)
    <3>1. 1..(k + 1) \subseteq 1..n
      BY <2>1
    <3>2. k + 1 \in 1..(k + 1)
      BY <2>1
    <3> QED BY <3>1, <3>2
  <2>3. Max(1..(k + 1)) \in 1..(k + 1) /\ \A i \in 1..(k + 1) : i <= Max(1..(k + 1))
    BY <1>2, <2>2, MaxIsOne
  <2>4. Max(1..(k + 1)) = k + 1 /\ (1..(k + 1)) \ {k + 1} = 1..k
    BY <2>2, <2>3
  <2>5. it[1..(k + 1)] = Pair(rec, it[1..k], s[k + 1])
    BY <1>11, <2>2, <2>4
  <2>6. s[k + 1] \in MarkerLine
    BY <1>4, <2>1
  <2>7. it[1..(k + 1)] \in LoopStates
    BY <2>1, <2>5, <2>6, PairType
  <2>8. Remembers(Pair(rec, it[1..k], s[k + 1]), s, k + 1, rec)
    <3> DEFINE x == it[1..k]
               j == k + 1
    <3>1. x \in LoopStates /\ Remembers(x, s, j - 1, rec) /\ j \in 1..Len(s)
      BY <2>1, <1>2
    <3> HIDE DEF x, j
    <3>2. Remembers(Pair(rec, x, s[j]), s, j, rec)
      BY <3>1, <1>2, PairAdds
    <3> QED BY <3>2 DEF x, j
  <2> QED BY <2>5, <2>7, <2>8
<1> HIDE DEF K
<1>14. Nat \subseteq K
  BY <1>12, <1>13, SetInduction
<1>15. n \in K
  BY <1>14, <1>2
<1>16. Remembers(it[1..n], s, n, rec)
  BY <1>15, <1>2 DEF K
<1>17. it[1..n].gaps = GapsUpTo(s, n, rec)
  BY <1>16 DEF Remembers
<1> QED BY <1>1, <1>2, <1>17 DEF s

(* Two markers with no other between them.                                 *)
Neighbours(L, a, b) ==
    /\ a \in L /\ b \in L /\ ~OrderMarkers(b, a)
    /\ \A c \in L : ~(OrderMarkers(a, c) /\ OrderMarkers(c, b))

(* The lines of a sidecar have the types of markers.                       *)
LEMMA LinesAreMarkers ==
    ASSUME NEW m \in Seq(MarkerLine), NEW c \in ToSet(m)
    PROVE  c \in MarkerLine /\ c.ts \in Nat /\ c.event \in {"start", "end"}
<1>1. PICK i \in DOMAIN m : m[i] = c
  BY DEF ToSet
<1>2. c \in MarkerLine
  BY <1>1
<1> QED BY <1>2 DEF MarkerLine

(* A sorted sidecar has neighbours next to each other.                     *)
LEMMA NextToEachOther ==
    ASSUME NEW m \in Seq(MarkerLine), NEW k \in 1..Len(m) - 1
    PROVE  Neighbours(ToSet(m), ByTheClock(m)[k], ByTheClock(m)[k + 1])
<1> DEFINE s == ByTheClock(m)
           n == Len(m)
<1>1. /\ \A l \in 1..n : s[l] \in ToSet(m)
      /\ \A c \in ToSet(m) : \E l \in 1..n : s[l] = c
      /\ \A i, l \in 1..n : i < l => ~OrderMarkers(s[l], s[i])
  BY MarkersByTheClock
<1> HIDE DEF s
<1>2. n \in Nat /\ k \in 1..n /\ k + 1 \in 1..n /\ k < k + 1 /\ k \in Nat
  OBVIOUS
<1>3. ASSUME NEW c \in ToSet(m), OrderMarkers(s[k], c), OrderMarkers(c, s[k + 1]) PROVE FALSE
  <2>1. PICK l \in 1..n : s[l] = c
    BY <1>1
  <2>2. c.ts \in Nat /\ c.event \in {"start", "end"}
    BY LinesAreMarkers
  <2>3. ~(l < k) /\ ~(k + 1 < l)
    BY <1>1, <1>2, <1>3, <2>1
  <2>4. l = k \/ l = k + 1
    BY <1>2, <2>3
  <2>5. ~OrderMarkers(c, c)
    BY <2>2 DEF OrderMarkers
  <2> QED BY <2>1, <2>4, <2>5, <1>3
<1>4. Neighbours(ToSet(m), s[k], s[k + 1])
  BY <1>1, <1>2, <1>3 DEF Neighbours
<1> QED BY <1>4 DEF s

(* Every derived gap is what two neighbours leave between them.            *)
LEMMA GapBetween ==
    ASSUME NEW m \in Seq(MarkerLine), NEW rec \in SUBSET Nat, NEW g \in DeriveGaps(m, rec)
    PROVE  \E a, b \in ToSet(m) : Neighbours(ToSet(m), a, b) /\ g \in Between(a, b, rec)
<1>1. PICK k \in 1..(Len(m) - 1) : g \in Between(ByTheClock(m)[k], ByTheClock(m)[k + 1], rec)
  BY DerivedBetween DEF GapsUpTo
<1>2. Neighbours(ToSet(m), ByTheClock(m)[k], ByTheClock(m)[k + 1])
  BY NextToEachOther
<1> QED BY <1>1, <1>2 DEF Neighbours

(* Between an earlier and a later marker every instant has two neighbours  *)
(* around it, and what they leave between them is derived.                 *)
LEMMA TickBetween ==
    ASSUME NEW m \in Seq(MarkerLine), NEW rec \in SUBSET Nat, NEW x \in Nat,
           \E c \in ToSet(m) : c.ts <= x, \E d \in ToSet(m) : x < d.ts
    PROVE  \E a, b \in ToSet(m) : /\ Neighbours(ToSet(m), a, b) /\ a.ts <= x /\ x < b.ts
                                  /\ Between(a, b, rec) \subseteq DeriveGaps(m, rec)
<1> DEFINE s == ByTheClock(m)
           n == Len(m)
           P == {k \in 1..n : s[k].ts <= x}
<1>1. /\ s \in Seq(MarkerLine) /\ Len(s) = n
      /\ \A l \in 1..n : s[l] \in ToSet(m)
      /\ \A c \in ToSet(m) : \E l \in 1..n : s[l] = c
      /\ \A i, l \in 1..n : i < l => ~OrderMarkers(s[l], s[i])
  BY MarkersByTheClock
<1>2. n \in Nat /\ DeriveGaps(m, rec) = GapsUpTo(s, n, rec)
  BY DerivedBetween
<1> HIDE DEF s
<1>3. \A l \in 1..n : s[l].ts \in Nat
  BY <1>1, LinesAreMarkers
<1>4. P \in SUBSET Nat /\ IsFiniteSet(P) /\ P # {}
  <2>1. P # {}
    BY <1>1
  <2>2. IsFiniteSet(1..n) /\ P \subseteq 1..n
    BY <1>2, FS_Interval
  <2> QED BY <2>1, <2>2, <1>2, FS_Subset
<1>5. PICK k \in P : \A l \in P : k >= l
  <2> HIDE DEF P
  <2> QED BY <1>4, GreatestExists
<1>6. k + 1 \in 1..n /\ k \in 1..(n - 1) /\ s[k].ts <= x
  <2>1. PICK d \in 1..n : x < s[d].ts
    BY <1>1
  <2>2. k \in 1..n /\ s[k].ts <= x
    OBVIOUS
  <2>3. OrderMarkers(s[k], s[d])
    BY <2>1, <2>2, <1>3 DEF OrderMarkers
  <2>4. ~(d < k) /\ d # k
    BY <2>1, <2>2, <2>3, <1>1, <1>3
  <2> QED BY <2>1, <2>2, <2>4, <1>2
<1>7. x < s[k + 1].ts
  <2>1. k + 1 \notin P
    BY <1>5, <1>6, <1>2
  <2> QED BY <2>1, <1>3, <1>6
<1>8. Neighbours(ToSet(m), s[k], s[k + 1])
  BY <1>6, NextToEachOther DEF s
<1>9. Between(s[k], s[k + 1], rec) \subseteq DeriveGaps(m, rec)
  BY <1>2, <1>6 DEF GapsUpTo
<1> QED BY <1>6, <1>7, <1>8, <1>9 DEF Neighbours

(* What the sidecar says, what an ending process is about to say, and when *)
(* a recorder died.                                                        *)
StartOf(a) == Marker("start", a) \in ToSet(lines)
EndOf(e) == Marker("end", e) \in ToSet(lines)
Ended(e) == EndOf(e) \/ \E p \in Procs : status[p] = "ending" /\ stamp[p] = e
Died(e) == \E p \in Procs : died[p] = e

SessTypes ==
    /\ clock \in Nat /\ lines \in Seq(MarkerLine)
    /\ received \subseteq Nat /\ dead \subseteq Nat
    /\ status \in [Procs -> Sessions!Statuses]
    /\ stamp \in [Procs -> Nat \cup {Absent}]
    /\ died \in [Procs -> Nat \cup {Absent}]
    /\ \A p \in Procs : status[p] # "unborn" => stamp[p] \in Nat

(* Nothing on record is later than the clock.                              *)
SessPast ==
    /\ \A t \in dead : t < clock
    /\ \A t \in received : t <= clock
    /\ \A a \in Nat : StartOf(a) \/ Ended(a) => a <= clock
    /\ \A p \in Procs : stamp[p] <= clock /\ died[p] <= clock
    /\ \A p \in Procs : status[p] # "crashed" => died[p] = Absent

(* A process that records does so alone and after all that is over.        *)
SessLatest ==
    \A p \in Procs : status[p] \in Sessions!Recording =>
        /\ \A q \in Procs : status[q] \in Sessions!Recording => q = p
        /\ \A t \in dead : t < stamp[p]
        /\ \A a \in Nat : StartOf(a) \/ Ended(a) => a <= stamp[p]
        /\ \A q \in Procs : died[q] <= stamp[p]
        /\ status[p] = "up" => StartOf(stamp[p])

(* From a to e a recorder ran; none was stopped in between.                *)
Alive(a, e) == \A t \in dead : ~(a <= t /\ t < e)
Quiet(a, e) == \A b \in Nat : Ended(b) => ~(a < b /\ b < e)

(* Every end, message and death is of a session with a start on record.    *)
SessEnds ==
    \A e \in Nat : Ended(e) =>
        \E a \in Nat : StartOf(a) /\ a < e /\ Alive(a, e) /\ Quiet(a, e)
SessData ==
    \A t \in received :
        \E a \in Nat : StartOf(a) /\ a <= t /\ Alive(a, t) /\ Quiet(a, t)
SessDeaths ==
    \A e \in Nat : Died(e) => \E a \in Nat : StartOf(a) /\ a <= e /\ Quiet(a, e)

(* Past e, what was started at a is no more: starts and messages after it  *)
(* are those of later processes.                                           *)
Closes(a, e) ==
    /\ a <= e
    /\ \A b \in Nat : StartOf(b) /\ a < b => e <= b
    /\ \A p \in Procs : status[p] = "starting" /\ a < stamp[p] => e <= stamp[p]
    /\ \A t \in received : e < t => \E b \in Nat : StartOf(b) /\ a < b /\ b <= t

(* Every start is of a recorder that is up, ended or died.                 *)
SessStarts ==
    \A a \in Nat : StartOf(a) =>
        \/ \E p \in Procs : status[p] = "up" /\ stamp[p] = a
        \/ \E e \in Nat : ((Ended(e) /\ a < e) \/ Died(e)) /\ Closes(a, e)

SessInv == /\ SessTypes /\ SessPast /\ SessLatest
           /\ SessEnds /\ SessData /\ SessDeaths /\ SessStarts

(* The session part computes with the operators of the module it is in.    *)
LEMMA SessionNames ==
    /\ \A m, rec : Sessions!DeriveGaps(m, rec) = DeriveGaps(m, rec)
    /\ \A e, t : Sessions!Marker(e, t) = Marker(e, t)
    /\ \A s : Sessions!ToSet(s) = ToSet(s)
    /\ Sessions!Absent = Absent
    /\ \A m, n : Sessions!OrderMarkers(m, n) = OrderMarkers(m, n)
BY DEF Sessions!Pair, Pair, Sessions!GapsAt, GapsAt, Sessions!AddGap, AddGap, Sessions!Gap, Gap,
       Sessions!Absent, Absent, Sessions!UncleanBegin, UncleanBegin, Sessions!LastActivity,
       LastActivity, Sessions!Max, Max, Sessions!ByTheClock, ByTheClock, Sessions!Ahead, Ahead,
       Sessions!OrderMarkers, OrderMarkers, Sessions!Cardinality, Cardinality,
       Sessions!DeriveGaps, DeriveGaps, Sessions!FoldLeft, FoldLeft,
       Sessions!MapThenFoldSet, MapThenFoldSet, Sessions!Marker, Marker, Sessions!ToSet, ToSet

(* A line appended is one more line of the sidecar.                        *)
LEMMA OneLineMore ==
    ASSUME NEW m \in Seq(MarkerLine), NEW c \in MarkerLine
    PROVE  Append(m, c) \in Seq(MarkerLine) /\ ToSet(Append(m, c)) = ToSet(m) \cup {c}
<1> DEFINE n == Len(m)
           s == Append(m, c)
<1>1. n \in Nat /\ DOMAIN m = 1..n /\ s \in Seq(MarkerLine) /\ Len(s) = n + 1 /\ DOMAIN s = 1..(n + 1)
  OBVIOUS
<1>2. \A i \in 1..n : s[i] = m[i]
  OBVIOUS
<1>3. s[n + 1] = c
  OBVIOUS
<1> HIDE DEF s
<1>4. ASSUME NEW x \in ToSet(s) PROVE x \in ToSet(m) \cup {c}
  <2>1. PICK i \in 1..(n + 1) : s[i] = x
    BY <1>1 DEF ToSet
  <2>2. i \in 1..n \/ i = n + 1
    BY <1>1
  <2> QED BY <2>1, <2>2, <1>1, <1>2, <1>3 DEF ToSet
<1>5. ASSUME NEW x \in ToSet(m) \cup {c} PROVE x \in ToSet(s)
  <2>1. CASE x = c
    BY <2>1, <1>1, <1>3 DEF ToSet
  <2>2. CASE x \in ToSet(m)
    <3>1. PICK i \in 1..n : m[i] = x
      BY <2>2, <1>1 DEF ToSet
    <3>2. i \in 1..(n + 1) /\ s[i] = x
      BY <3>1, <1>1, <1>2
    <3> QED BY <3>2, <1>1 DEF ToSet
  <2> QED BY <2>1, <2>2
<1>6. ToSet(s) = ToSet(m) \cup {c}
  BY <1>4, <1>5
<1> QED BY <1>1, <1>6 DEF s

(* A marker tells its event and its time.                                  *)
LEMMA MarkersDiffer ==
    /\ \A a, b : Marker("start", a) # Marker("end", b)
    /\ \A e, a, b : Marker(e, a) = Marker(e, b) => a = b
    /\ \A e \in {"start", "end"}, t \in Nat : Marker(e, t) \in MarkerLine
BY DEF Marker, MarkerLine

(* The sidecar's lines as the actions change them.                         *)
LEMMA StartLogged ==
    ASSUME SessTypes, NEW s \in Nat, lines' = Append(lines, Marker("start", s))
    PROVE  /\ lines' \in Seq(MarkerLine)
           /\ \A a \in Nat : StartOf(a)' <=> StartOf(a) \/ a = s
           /\ \A a \in Nat : EndOf(a)' <=> EndOf(a)
BY OneLineMore, MarkersDiffer DEF SessTypes, StartOf, EndOf

(* The end marker of a process is one more end in the sidecar.             *)
LEMMA EndLogged ==
    ASSUME SessTypes, NEW s \in Nat, lines' = Append(lines, Marker("end", s))
    PROVE  /\ lines' \in Seq(MarkerLine)
           /\ \A a \in Nat : StartOf(a)' <=> StartOf(a)
           /\ \A a \in Nat : EndOf(a)' <=> EndOf(a) \/ a = s
BY OneLineMore, MarkersDiffer DEF SessTypes, StartOf, EndOf

(* Steps that leave the sidecar alone leave what it says alone.            *)
LEMMA SidecarKept ==
    ASSUME UNCHANGED lines
    PROVE  \A a : (StartOf(a)' <=> StartOf(a)) /\ (EndOf(a)' <=> EndOf(a))
BY DEF StartOf, EndOf

(* The clock moves; while no process records, the tick passed is dead.     *)
LEMMA TickKeepsSessions ==
    ASSUME SessInv, Sessions!Tick
    PROVE  SessInv'
<1>1. /\ clock' = clock + 1 /\ UNCHANGED <<status, stamp, lines, received, died>>
      /\ \/ dead' = dead
         \/ dead' = dead \cup {clock} /\ \A p \in Procs : status[p] \notin Sessions!Recording
  BY DEF Sessions!Tick
<1>2. \A a : (StartOf(a)' <=> StartOf(a)) /\ (Ended(a)' <=> Ended(a)) /\ (Died(a)' <=> Died(a))
  BY <1>1, SidecarKept DEF Ended, Died
<1>3. SessTypes /\ SessPast
  BY DEF SessInv
<1>31. clock \in Nat /\ dead \subseteq Nat
  BY <1>3 DEF SessTypes
<1>4. SessTypes'
  <2>1. clock' \in Nat
    BY <1>1, <1>31
  <2>2. dead' \subseteq Nat
    BY <1>1, <1>31
  <2> QED BY <2>1, <2>2, <1>1, <1>3 DEF SessTypes
<1>5. SessPast'
  <2>1. clock \in Nat /\ stamp \in [Procs -> Nat \cup {Absent}] /\ died \in [Procs -> Nat \cup {Absent}]
    BY <1>3 DEF SessTypes
  <2>2. (\A t \in dead : t < clock + 1) /\ \A t \in received : t <= clock + 1
    BY <1>3, <2>1 DEF SessTypes, SessPast
  <2>3. \A p \in Procs : stamp[p] <= clock + 1 /\ died[p] <= clock + 1
    BY <1>3, <2>1 DEF SessPast, Absent
  <2>4. \A a \in Nat : StartOf(a) \/ Ended(a) => a <= clock + 1
    BY <1>3, <2>1 DEF SessPast
  <2> QED BY <1>1, <1>2, <1>3, <2>1, <2>2, <2>3, <2>4 DEF SessPast
<1>6. SessLatest'
  BY <1>1, <1>2 DEF SessInv, SessLatest
<1>7. \A a, e \in Nat : (Quiet(a, e)' <=> Quiet(a, e)) /\ (Closes(a, e)' <=> Closes(a, e))
  BY <1>1, <1>2 DEF Quiet, Closes
<1>8. \A a, e \in Nat : e <= clock /\ Alive(a, e) => Alive(a, e)'
  <2> SUFFICES ASSUME NEW a \in Nat, NEW e \in Nat, e <= clock, NEW t \in dead',
                      \A u \in dead : ~(a <= u /\ u < e)
               PROVE  ~(a <= t /\ t < e)
    BY DEF Alive
  <2>1. CASE t \in dead
    BY <2>1
  <2>2. CASE t \notin dead
    <3>1. t = clock /\ clock \in Nat
      BY <2>2, <1>1, <1>31
    <3> QED BY ONLY <3>1, e <= clock, e \in Nat
  <2> QED BY <2>1, <2>2
<1>9. SessEnds'
  BY <1>2, <1>3, <1>7, <1>8 DEF SessInv, SessEnds, SessPast
<1>10. SessData'
  BY <1>1, <1>2, <1>3, <1>7, <1>8 DEF SessInv, SessData, SessPast, SessTypes
<1>11. SessDeaths'
  BY <1>2, <1>7 DEF SessInv, SessDeaths
<1>12. SessStarts'
  BY <1>1, <1>2, <1>7 DEF SessInv, SessStarts
<1> QED BY <1>4, <1>5, <1>6, <1>9, <1>10, <1>11, <1>12 DEF SessInv

(* A process starts at the clock's time, after all that is on record.      *)
LEMMA StartKeepsSessions ==
    ASSUME SessInv, NEW p \in Procs, Sessions!Start(p)
    PROVE  SessInv'
<1>1. /\ status[p] = "unborn" /\ \A q \in Procs : status[q] \notin Sessions!Recording
      /\ status' = [status EXCEPT ![p] = "starting"] /\ stamp' = [stamp EXCEPT ![p] = clock]
      /\ UNCHANGED <<clock, lines, received, died, dead>>
  BY DEF Sessions!Start
<1>2. SessTypes /\ SessPast
  BY DEF SessInv
<1>3. /\ status'[p] = "starting" /\ stamp'[p] = clock /\ clock \in Nat
      /\ \A q \in Procs : q # p => status'[q] = status[q] /\ stamp'[q] = stamp[q]
  BY <1>1, <1>2 DEF SessTypes
<1>4. \A a : (StartOf(a)' <=> StartOf(a)) /\ (Ended(a)' <=> Ended(a)) /\ (Died(a)' <=> Died(a))
  BY <1>1, <1>3, SidecarKept DEF Ended, Died
<1>5. SessTypes'
  BY <1>1, <1>2, <1>3 DEF SessTypes, Sessions!Statuses
<1>6. SessPast'
  BY <1>1, <1>2, <1>3, <1>4 DEF SessPast, SessTypes
<1>7. SessLatest'
  <2>1. \A q \in Procs : status'[q] \in Sessions!Recording => q = p
    BY <1>1, <1>3
  <2> QED BY <2>1, <1>1, <1>2, <1>3, <1>4 DEF SessLatest, SessPast
<1>8. \A a, e \in Nat : (Quiet(a, e)' <=> Quiet(a, e)) /\ (Alive(a, e)' <=> Alive(a, e))
  BY <1>1, <1>4 DEF Quiet, Alive
<1>9. \A a, e \in Nat : e <= clock /\ Closes(a, e) => Closes(a, e)'
  BY <1>1, <1>3, <1>4 DEF Closes
<1>10. SessEnds'
  BY <1>4, <1>8 DEF SessInv, SessEnds
<1>11. SessData'
  BY <1>1, <1>2, <1>4, <1>8 DEF SessInv, SessData, SessTypes
<1>12. SessDeaths'
  BY <1>4, <1>8 DEF SessInv, SessDeaths
<1>13. SessStarts'
  <2> SUFFICES ASSUME NEW a \in Nat, StartOf(a)
               PROVE  \/ \E q \in Procs : status'[q] = "up" /\ stamp'[q] = a
                      \/ \E e \in Nat : ((Ended(e)' /\ a < e) \/ Died(e)') /\ Closes(a, e)'
    BY <1>4 DEF SessStarts
  <2>1. CASE \E q \in Procs : status[q] = "up" /\ stamp[q] = a
    BY <2>1, <1>1, <1>3
  <2>2. CASE \E e \in Nat : ((Ended(e) /\ a < e) \/ Died(e)) /\ Closes(a, e)
    <3>1. \A e \in Nat : Ended(e) \/ Died(e) => e <= clock
      BY <1>2 DEF SessPast, Died
    <3> QED BY <2>2, <3>1, <1>4, <1>9
  <2> QED BY <2>1, <2>2 DEF SessInv, SessStarts
<1> QED BY <1>5, <1>6, <1>7, <1>10, <1>11, <1>12, <1>13 DEF SessInv

(* It writes its start: the line says when, and is of a recorder that is up.*)
LEMMA LogStartKeepsSessions ==
    ASSUME SessInv, NEW p \in Procs, Sessions!LogStart(p)
    PROVE  SessInv'
<1> DEFINE s == stamp[p]
<1>1. /\ status[p] = "starting" /\ status' = [status EXCEPT ![p] = "up"]
      /\ lines' = Append(lines, Marker("start", s))
      /\ UNCHANGED <<clock, stamp, received, died, dead>>
  BY SessionNames DEF Sessions!LogStart
<1>2. SessTypes /\ SessPast
  BY DEF SessInv
<1>3. /\ status'[p] = "up" /\ s \in Nat
      /\ \A q \in Procs : q # p => status'[q] = status[q]
  BY <1>1, <1>2 DEF SessTypes
<1>4. /\ lines' \in Seq(MarkerLine)
      /\ \A a \in Nat : StartOf(a)' <=> StartOf(a) \/ a = s
      /\ \A a \in Nat : EndOf(a)' <=> EndOf(a)
  BY <1>1, <1>2, <1>3, StartLogged
<1>5. \A a \in Nat : (Ended(a)' <=> Ended(a)) /\ (Died(a)' <=> Died(a))
  BY <1>1, <1>3, <1>4 DEF Ended, Died
<1>6. SessTypes'
  BY <1>1, <1>2, <1>3, <1>4 DEF SessTypes, Sessions!Statuses
<1>7. SessPast'
  BY <1>1, <1>2, <1>3, <1>4, <1>5 DEF SessPast, SessTypes
<1>8. p \in Procs /\ status[p] \in Sessions!Recording
  BY <1>1 DEF Sessions!Recording
<1>9. SessLatest'
  <2>1. \A q \in Procs : status'[q] \in Sessions!Recording => q = p
    BY <1>8, <1>3 DEF SessInv, SessLatest
  <2>2. /\ \A t \in dead : t < s
        /\ \A a \in Nat : StartOf(a) \/ Ended(a) => a <= s
        /\ \A q \in Procs : died[q] <= s
    BY <1>8 DEF SessInv, SessLatest
  <2>3. \A a \in Nat : StartOf(a)' \/ Ended(a)' => a <= s
    BY <2>2, <1>3, <1>4, <1>5
  <2> QED BY <2>1, <2>2, <2>3, <1>1, <1>3, <1>4 DEF SessLatest
<1>10. \A a, e \in Nat : (Quiet(a, e)' <=> Quiet(a, e)) /\ (Alive(a, e)' <=> Alive(a, e))
  BY <1>1, <1>5 DEF Quiet, Alive
<1>11. \A a, e \in Nat : Closes(a, e) => Closes(a, e)'
  <2> SUFFICES ASSUME NEW a \in Nat, NEW e \in Nat, Closes(a, e) PROVE Closes(a, e)'
    OBVIOUS
  <2>1. \A b \in Nat : StartOf(b)' /\ a < b => e <= b
    BY <1>1, <1>3, <1>4 DEF Closes
  <2>2. \A q \in Procs : status'[q] = "starting" /\ a < stamp'[q] => e <= stamp'[q]
    BY <1>1, <1>3 DEF Closes
  <2>3. \A t \in received' : e < t => \E b \in Nat : StartOf(b)' /\ a < b /\ b <= t
    BY <1>1, <1>4 DEF Closes
  <2> QED BY <2>1, <2>2, <2>3 DEF Closes
<1>12. SessEnds'
  BY <1>4, <1>5, <1>10 DEF SessInv, SessEnds
<1>13. SessData'
  BY <1>1, <1>2, <1>4, <1>10 DEF SessInv, SessData, SessTypes
<1>14. SessDeaths'
  BY <1>4, <1>5, <1>10 DEF SessInv, SessDeaths
<1>15. SessStarts'
  <2> SUFFICES ASSUME NEW a \in Nat, StartOf(a)'
               PROVE  \/ \E q \in Procs : status'[q] = "up" /\ stamp'[q] = a
                      \/ \E e \in Nat : ((Ended(e)' /\ a < e) \/ Died(e)') /\ Closes(a, e)'
    BY DEF SessStarts
  <2>1. CASE a = s
    BY <2>1, <1>1, <1>3
  <2>2. CASE StartOf(a)
    <3>1. CASE \E q \in Procs : status[q] = "up" /\ stamp[q] = a
      BY <3>1, <1>1, <1>3
    <3>2. CASE \E e \in Nat : ((Ended(e) /\ a < e) \/ Died(e)) /\ Closes(a, e)
      BY <3>2, <1>5, <1>11
    <3> QED BY <2>2, <3>1, <3>2 DEF SessInv, SessStarts
  <2> QED BY <1>4, <2>1, <2>2
<1> QED BY <1>6, <1>7, <1>9, <1>12, <1>13, <1>14, <1>15 DEF SessInv

(* A message is of the recorder that is up, whose start is on record.      *)
LEMMA RecordKeepsSessions ==
    ASSUME SessInv, NEW p \in Procs, Sessions!Record(p)
    PROVE  SessInv'
<1>0. PICK s \in Nat, c \in Nat : s = stamp[p] /\ c = clock
  BY DEF SessInv, SessTypes, Sessions!Record
<1> USE <1>0
<1>1. /\ status[p] = "up" /\ received' = received \cup {c}
      /\ c = clock /\ s = stamp[p] /\ UNCHANGED <<clock, status, stamp, lines, died, dead>>
  BY <1>0 DEF Sessions!Record
<1>2. SessTypes /\ SessPast
  BY DEF SessInv
<1>3. s \in Nat /\ c \in Nat /\ s <= c
  BY <1>1, <1>2 DEF SessTypes, SessPast
<1>4. \A a : (StartOf(a)' <=> StartOf(a)) /\ (Ended(a)' <=> Ended(a)) /\ (Died(a)' <=> Died(a))
  BY <1>1, SidecarKept DEF Ended, Died
<1>5. /\ \A t \in dead : t < s
      /\ \A a \in Nat : StartOf(a) \/ Ended(a) => a <= s
      /\ \A q \in Procs : died[q] <= s
      /\ StartOf(s)
  BY <1>1 DEF SessInv, SessLatest, Sessions!Recording
<1>6. SessTypes'
  <2>1. received' \subseteq Nat
    BY <1>1, <1>2, <1>3 DEF SessTypes
  <2> QED BY <2>1, <1>1, <1>2 DEF SessTypes
<1>7. SessPast'
  <2>1. \A t \in received' : t <= c
    BY <1>1, <1>2, <1>3 DEF SessPast
  <2> QED BY <2>1, <1>1, <1>2, <1>4 DEF SessPast
<1>8. SessLatest'
  BY <1>1, <1>4 DEF SessInv, SessLatest
<1>9. \A a, e \in Nat : (Quiet(a, e)' <=> Quiet(a, e)) /\ (Alive(a, e)' <=> Alive(a, e))
  BY <1>1, <1>4 DEF Quiet, Alive
<1>10. SessEnds'
  BY <1>4, <1>9 DEF SessInv, SessEnds
<1>11. SessData'
  <2>1. \A t \in received : \E a \in Nat : StartOf(a)' /\ a <= t /\ Alive(a, t)' /\ Quiet(a, t)'
    BY <1>2, <1>4, <1>9 DEF SessInv, SessData, SessTypes
  <2>2. Alive(s, c) /\ Quiet(s, c)
    <3>1. \A t \in dead : ~(s <= t /\ t < c)
      BY <1>2, <1>3, <1>5 DEF SessTypes
    <3>2. \A b \in Nat : Ended(b) => ~(s < b /\ b < c)
      BY <1>3, <1>5
    <3> QED BY <3>1, <3>2 DEF Alive, Quiet
  <2>3. StartOf(s)' /\ s <= c /\ Alive(s, c)' /\ Quiet(s, c)'
    BY <2>2, <1>3, <1>4, <1>5, <1>9
  <2>4. \A t \in received' : t \in received \/ t = c
    BY <1>1
  <2>5. \A t \in received' : \E a \in Nat : StartOf(a)' /\ a <= t /\ Alive(a, t)' /\ Quiet(a, t)'
    BY <2>1, <2>3, <2>4, <1>3
  <2> QED BY <2>5 DEF SessData
<1>12. SessDeaths'
  BY <1>4, <1>9 DEF SessInv, SessDeaths
<1>13. \A a, e \in Nat : a < s /\ Closes(a, e) => Closes(a, e)'
  <2> SUFFICES ASSUME NEW a \in Nat, NEW e \in Nat, a < s, Closes(a, e) PROVE Closes(a, e)'
    OBVIOUS
  <2>1. \A t \in received' : e < t => \E b \in Nat : StartOf(b) /\ a < b /\ b <= t
    BY <1>1, <1>3, <1>5 DEF Closes
  <2> QED BY <2>1, <1>1, <1>4 DEF Closes
<1>14. SessStarts'
  <2> SUFFICES ASSUME NEW a \in Nat, StartOf(a)
               PROVE  \/ \E q \in Procs : status'[q] = "up" /\ stamp'[q] = a
                      \/ \E e \in Nat : ((Ended(e)' /\ a < e) \/ Died(e)') /\ Closes(a, e)'
    BY <1>4 DEF SessStarts
  <2>1. CASE a = s
    BY <2>1, <1>1
  <2>2. CASE a # s
    <3>1. a < s
      BY <2>2, <1>3, <1>5
    <3>2. \/ \E q \in Procs : status[q] = "up" /\ stamp[q] = a
          \/ \E e \in Nat : ((Ended(e) /\ a < e) \/ Died(e)) /\ Closes(a, e)
      BY DEF SessInv, SessStarts
    <3> QED BY <3>1, <3>2, <1>1, <1>4, <1>13
  <2> QED BY <2>1, <2>2
<1> QED BY <1>6, <1>7, <1>8, <1>10, <1>11, <1>12, <1>14 DEF SessInv

(* It reads the time of its end: from then on nothing it did is later.     *)
LEMMA StopKeepsSessions ==
    ASSUME SessInv, NEW p \in Procs, Sessions!Stop(p)
    PROVE  SessInv'
<1>0. PICK s \in Nat, c \in Nat : s = stamp[p] /\ c = clock
  BY DEF SessInv, SessTypes, Sessions!Stop
<1> USE <1>0
<1>1. /\ status[p] = "up" /\ c > s
      /\ status' = [status EXCEPT ![p] = "ending"] /\ stamp' = [stamp EXCEPT ![p] = c]
      /\ c = clock /\ s = stamp[p] /\ UNCHANGED <<clock, lines, received, died, dead>>
  BY <1>0 DEF Sessions!Stop
<1>2. SessTypes /\ SessPast
  BY DEF SessInv
<1>3. s \in Nat /\ c \in Nat /\ s < c
  BY <1>1, <1>2 DEF SessTypes, SessPast
<1>4. /\ status'[p] = "ending" /\ stamp'[p] = c
      /\ \A q \in Procs : q # p => status'[q] = status[q] /\ stamp'[q] = stamp[q]
  BY <1>1, <1>2 DEF SessTypes
<1>5. /\ \A t \in dead : t < s
      /\ \A a \in Nat : StartOf(a) \/ Ended(a) => a <= s
      /\ \A q \in Procs : died[q] <= s
      /\ StartOf(s)
      /\ \A q \in Procs : status[q] \in Sessions!Recording => q = p
  BY <1>1 DEF SessInv, SessLatest, Sessions!Recording
<1>6. \A a : (StartOf(a)' <=> StartOf(a)) /\ (EndOf(a)' <=> EndOf(a)) /\ (Died(a)' <=> Died(a))
  BY <1>1, SidecarKept DEF Died
<1>7. \A a : Ended(a)' <=> Ended(a) \/ a = c
  BY <1>1, <1>4, <1>6 DEF Ended
<1>8. SessTypes'
  BY <1>1, <1>2, <1>3, <1>4 DEF SessTypes, Sessions!Statuses
<1>9. SessPast'
  <2>1. \A a \in Nat : StartOf(a)' \/ Ended(a)' => a <= c
    BY <1>2, <1>3, <1>6, <1>7 DEF SessPast
  <2>2. \A q \in Procs : stamp'[q] <= c
    BY <1>2, <1>3, <1>4 DEF SessPast
  <2>3. \A q \in Procs : status'[q] # "crashed" => died[q] = Absent
    BY <1>1, <1>2, <1>4 DEF SessPast
  <2> QED BY <2>1, <2>2, <2>3, <1>1, <1>2 DEF SessPast
<1>10. SessLatest'
  <2>1. \A q \in Procs : status'[q] \notin Sessions!Recording
    BY <1>4, <1>5 DEF Sessions!Recording
  <2> QED BY <2>1 DEF SessLatest
<1>11. \A a, e \in Nat : (Alive(a, e)' <=> Alive(a, e))
  BY <1>1 DEF Alive
<1>12. \A a, e \in Nat : e <= c /\ Quiet(a, e) => Quiet(a, e)'
  <2> SUFFICES ASSUME NEW a \in Nat, NEW e \in Nat, e <= c, Quiet(a, e),
                      NEW b \in Nat, Ended(b)'
               PROVE  ~(a < b /\ b < e)
    BY DEF Quiet
  <2>1. CASE Ended(b)
    BY <2>1 DEF Quiet
  <2>2. CASE b = c
    BY <2>2, <1>3
  <2> QED BY <2>1, <2>2, <1>7
<1>13. SessEnds'
  <2> SUFFICES ASSUME NEW e \in Nat, Ended(e)'
               PROVE  \E a \in Nat : StartOf(a)' /\ a < e /\ Alive(a, e)' /\ Quiet(a, e)'
    BY DEF SessEnds
  <2>1. CASE Ended(e)
    <3>1. e <= c
      BY <2>1, <1>2 DEF SessPast
    <3>2. \E a \in Nat : StartOf(a) /\ a < e /\ Alive(a, e) /\ Quiet(a, e)
      BY <2>1 DEF SessInv, SessEnds
    <3> QED BY <3>1, <3>2, <1>6, <1>11, <1>12
  <2>2. CASE e = c
    <3>1. \A t \in dead : ~(s <= t /\ t < c)
      BY <1>2, <1>3, <1>5 DEF SessTypes
    <3>2. \A b \in Nat : Ended(b) => ~(s < b /\ b < c)
      BY <1>3, <1>5
    <3>3. Alive(s, c) /\ Quiet(s, c) /\ c <= c
      BY <3>1, <3>2, <1>3 DEF Alive, Quiet
    <3>4. StartOf(s)' /\ s < c /\ Alive(s, c)' /\ Quiet(s, c)'
      BY <3>3, <1>3, <1>5, <1>6, <1>11, <1>12
    <3> QED BY <3>4, <2>2, <1>3
  <2> QED BY <2>1, <2>2, <1>7
<1>14. SessData'
  BY <1>1, <1>2, <1>6, <1>11, <1>12 DEF SessInv, SessData, SessTypes, SessPast
<1>15. SessDeaths'
  <2>1. \A e \in Nat : Died(e) => e <= c
    BY <1>2 DEF SessPast, Died
  <2> QED BY <2>1, <1>6, <1>12 DEF SessInv, SessDeaths
<1>16. \A a, e \in Nat : Closes(a, e) => Closes(a, e)'
  <2> SUFFICES ASSUME NEW a \in Nat, NEW e \in Nat, Closes(a, e) PROVE Closes(a, e)'
    OBVIOUS
  <2>1. \A q \in Procs : status'[q] = "starting" /\ a < stamp'[q] => e <= stamp'[q]
    BY <1>4 DEF Closes
  <2> QED BY <2>1, <1>1, <1>6 DEF Closes
<1>17. Closes(s, c)'
  <2>1. \A b \in Nat : StartOf(b) => ~(s < b)
    BY <1>3, <1>5
  <2>2. \A q \in Procs : status'[q] # "starting"
    BY <1>4, <1>5 DEF Sessions!Recording
  <2>3. \A t \in received : ~(c < t)
    BY <1>2, <1>3 DEF SessPast, SessTypes
  <2> QED BY <2>1, <2>2, <2>3, <1>1, <1>3, <1>6 DEF Closes
<1>18. SessStarts'
  <2> SUFFICES ASSUME NEW a \in Nat, StartOf(a)
               PROVE  \/ \E q \in Procs : status'[q] = "up" /\ stamp'[q] = a
                      \/ \E e \in Nat : ((Ended(e)' /\ a < e) \/ Died(e)') /\ Closes(a, e)'
    BY <1>6 DEF SessStarts
  <2>1. CASE a = s
    <3>1. Ended(c)' /\ a < c /\ Closes(a, c)'
      BY <2>1, <1>3, <1>7, <1>17
    <3> QED BY <3>1, <1>3
  <2>2. CASE a # s
    <3>1. \/ \E q \in Procs : status[q] = "up" /\ stamp[q] = a
          \/ \E e \in Nat : ((Ended(e) /\ a < e) \/ Died(e)) /\ Closes(a, e)
      BY DEF SessInv, SessStarts
    <3> QED BY <3>1, <2>2, <1>4, <1>6, <1>7, <1>16
  <2> QED BY <2>1, <2>2
<1> QED BY <1>8, <1>9, <1>10, <1>13, <1>14, <1>15, <1>18 DEF SessInv

(* Writing the end changes nothing but where it is known from.             *)
LEMMA LogEndKeepsSessions ==
    ASSUME SessInv, NEW p \in Procs, Sessions!LogEnd(p)
    PROVE  SessInv'
<1> DEFINE s == stamp[p]
<1>1. /\ status[p] = "ending" /\ status' = [status EXCEPT ![p] = "ended"]
      /\ lines' = Append(lines, Marker("end", s))
      /\ UNCHANGED <<clock, stamp, received, died, dead>>
  BY SessionNames DEF Sessions!LogEnd
<1>2. SessTypes /\ SessPast
  BY DEF SessInv
<1>3. /\ status'[p] = "ended" /\ s \in Nat
      /\ \A q \in Procs : q # p => status'[q] = status[q]
  BY <1>1, <1>2 DEF SessTypes
<1>4. /\ lines' \in Seq(MarkerLine)
      /\ \A a \in Nat : StartOf(a)' <=> StartOf(a)
      /\ \A a \in Nat : EndOf(a)' <=> EndOf(a) \/ a = s
  BY <1>1, <1>2, <1>3, EndLogged
<1>5. \A a \in Nat : (Ended(a)' <=> Ended(a)) /\ (Died(a)' <=> Died(a))
  BY <1>1, <1>3, <1>4 DEF Ended, Died
<1>6. SessTypes'
  BY <1>1, <1>2, <1>3, <1>4 DEF SessTypes, Sessions!Statuses
<1>7. SessPast'
  BY <1>1, <1>2, <1>3, <1>4, <1>5 DEF SessPast, SessTypes
<1>8. \A q \in Procs : status'[q] \in {"starting", "up"} => status'[q] = status[q]
  BY <1>3
<1>9. SessLatest'
  <2>1. \A q \in Procs : status'[q] \in Sessions!Recording => status[q] \in Sessions!Recording
    BY <1>8 DEF Sessions!Recording
  <2> QED BY <2>1, <1>1, <1>2, <1>4, <1>5, <1>8 DEF SessInv, SessLatest, SessTypes
<1>10. \A a, e \in Nat : (Quiet(a, e)' <=> Quiet(a, e)) /\ (Alive(a, e)' <=> Alive(a, e))
  BY <1>1, <1>5 DEF Quiet, Alive
<1>11. \A a, e \in Nat : Closes(a, e) => Closes(a, e)'
  BY <1>1, <1>4, <1>8 DEF Closes
<1>12. SessEnds'
  BY <1>4, <1>5, <1>10 DEF SessInv, SessEnds
<1>13. SessData'
  BY <1>1, <1>2, <1>4, <1>10 DEF SessInv, SessData, SessTypes
<1>14. SessDeaths'
  BY <1>4, <1>5, <1>10 DEF SessInv, SessDeaths
<1>15. SessStarts'
  <2>1. \A q \in Procs : status[q] = "up" => status'[q] = "up" /\ stamp'[q] = stamp[q]
    BY <1>1, <1>3
  <2> QED BY <2>1, <1>4, <1>5, <1>11 DEF SessInv, SessStarts
<1> QED BY <1>6, <1>7, <1>9, <1>12, <1>13, <1>14, <1>15 DEF SessInv

(* It dies: in the middle of a session or after all it did was done.       *)
LEMMA DieKeepsSessions ==
    ASSUME SessInv, NEW p \in Procs, Sessions!Die(p)
    PROVE  SessInv'
<1>0. PICK s \in Nat, c \in Nat :
          s = stamp[p] /\ c = clock /\ status[p] \in {"starting", "up", "ending"}
  BY DEF SessInv, SessTypes, Sessions!Die
<1>00. PICK when \in Nat \cup {Absent} :
          when = CASE status[p] = "starting" -> Absent
                   [] status[p] = "up" -> c
                   [] status[p] = "ending" -> s
  BY <1>0
<1> USE <1>0, <1>00
<1>1. /\ status[p] \in {"starting", "up", "ending"}
      /\ status' = [status EXCEPT ![p] = "crashed"] /\ died' = [died EXCEPT ![p] = when]
      /\ c = clock /\ s = stamp[p] /\ UNCHANGED <<clock, stamp, lines, received, dead>>
  BY SessionNames DEF Sessions!Die
<1>2. SessTypes /\ SessPast
  BY DEF SessInv
<1>3. /\ status'[p] = "crashed" /\ died'[p] = when
      /\ s \in Nat /\ c \in Nat /\ s <= c
      /\ \A q \in Procs : q # p => status'[q] = status[q] /\ died'[q] = died[q]
  BY <1>1, <1>2 DEF SessTypes, SessPast
<1>4. /\ status[p] = "starting" => when = Absent
      /\ status[p] = "up" => when = c
      /\ status[p] = "ending" => when = s
      /\ died[p] = Absent
  BY <1>1, <1>2 DEF SessPast
<1>5. when \in Nat \cup {Absent} /\ when <= c
  BY <1>1, <1>3, <1>4 DEF Absent
<1>6. \A a : (StartOf(a)' <=> StartOf(a)) /\ (EndOf(a)' <=> EndOf(a))
  BY <1>1, SidecarKept
<1>7. /\ \A a \in Nat : Ended(a)' => Ended(a)
      /\ \A a \in Nat : Ended(a) => Ended(a)' \/ (status[p] = "ending" /\ a = s)
  BY <1>1, <1>3, <1>6 DEF Ended
<1>8. /\ \A a \in Nat : Died(a) => Died(a)'
      /\ \A a \in Nat : Died(a)' => Died(a) \/ a = when
      /\ when \in Nat => Died(when)'
  BY <1>3, <1>4 DEF Died, Absent
<1>9. SessTypes'
  BY <1>1, <1>2, <1>3, <1>5 DEF SessTypes, Sessions!Statuses
<1>10. SessPast'
  <2>1. \A a \in Nat : StartOf(a)' \/ Ended(a)' => a <= c
    BY <1>2, <1>6, <1>7 DEF SessPast
  <2>2. \A q \in Procs : died'[q] <= c
    BY <1>2, <1>3, <1>5 DEF SessPast
  <2>3. \A q \in Procs : status'[q] # "crashed" => died'[q] = Absent
    BY <1>2, <1>3 DEF SessPast
  <2> QED BY <2>1, <2>2, <2>3, <1>1, <1>2 DEF SessPast
<1>11. \A q \in Procs : status'[q] \in {"starting", "up"} => q # p /\ status'[q] = status[q]
  BY <1>3
<1>12. SessLatest'
  <2> SUFFICES ASSUME NEW q \in Procs, status'[q] \in Sessions!Recording
               PROVE  /\ \A r \in Procs : status'[r] \in Sessions!Recording => r = q
                      /\ \A t \in dead : t < stamp[q]
                      /\ \A a \in Nat : StartOf(a)' \/ Ended(a)' => a <= stamp[q]
                      /\ \A r \in Procs : died'[r] <= stamp[q]
                      /\ status'[q] = "up" => StartOf(stamp[q])'
    BY <1>1 DEF SessLatest
  <2>1. q # p /\ status[q] \in Sessions!Recording /\ status'[q] = status[q]
    BY <1>11 DEF Sessions!Recording
  <2>2. /\ \A r \in Procs : status[r] \in Sessions!Recording => r = q
        /\ \A t \in dead : t < stamp[q]
        /\ \A a \in Nat : StartOf(a) \/ Ended(a) => a <= stamp[q]
        /\ \A r \in Procs : died[r] <= stamp[q]
        /\ status[q] = "up" => StartOf(stamp[q])
    BY <2>1 DEF SessInv, SessLatest
  <2>3. status[p] = "ending" /\ Ended(s)
    BY <2>1, <2>2, <1>1 DEF Sessions!Recording, Ended
  <2>4. died'[p] <= stamp[q]
    BY <2>2, <2>3, <1>3, <1>4
  <2>5. PICK k \in Nat : k = stamp[q] /\ k = stamp'[q]
    BY <2>1, <1>1, <1>2 DEF SessTypes, Sessions!Recording
  <2>6. /\ \A a \in Nat : StartOf(a)' \/ Ended(a)' => a <= k
        /\ status'[q] = "up" => StartOf(k)'
    BY <2>1, <2>2, <2>5, <1>6, <1>7
  <2>7. \A r \in Procs : status'[r] \in Sessions!Recording => r = q
    BY <2>2, <1>3, <1>11 DEF Sessions!Recording
  <2>8. \A r \in Procs : died'[r] <= k
    BY <2>2, <2>4, <2>5, <1>3
  <2> QED BY <2>2, <2>5, <2>6, <2>7, <2>8
<1>13. \A a, e \in Nat : (Alive(a, e)' <=> Alive(a, e)) /\ (Quiet(a, e) => Quiet(a, e)')
  BY <1>1, <1>7 DEF Alive, Quiet
<1>14. SessEnds'
  BY <1>6, <1>7, <1>13 DEF SessInv, SessEnds
<1>15. SessData'
  BY <1>1, <1>2, <1>6, <1>13 DEF SessInv, SessData, SessTypes
<1>16. SessDeaths'
  <2> SUFFICES ASSUME NEW e \in Nat, Died(e)'
               PROVE  \E a \in Nat : StartOf(a)' /\ a <= e /\ Quiet(a, e)'
    BY DEF SessDeaths
  <2>1. CASE Died(e)
    BY <2>1, <1>6, <1>13 DEF SessInv, SessDeaths
  <2>2. CASE e = when /\ status[p] = "up"
    <3>1. StartOf(s) /\ \A b \in Nat : Ended(b) => b <= s
      BY <2>2 DEF SessInv, SessLatest, Sessions!Recording
    <3>2. Quiet(s, e)
      BY <3>1, <1>3 DEF Quiet
    <3> QED BY <3>1, <3>2, <2>2, <1>3, <1>4, <1>6, <1>13
  <2>3. CASE e = when /\ status[p] = "ending"
    <3>1. e = s /\ Ended(s)
      BY <2>3, <1>4 DEF Ended
    <3>2. PICK a \in Nat : StartOf(a) /\ a < e /\ Quiet(a, e)
      BY <3>1, <1>3 DEF SessInv, SessEnds
    <3> QED BY <3>2, <1>6, <1>13
  <2> QED BY <2>1, <2>2, <2>3, <1>1, <1>4, <1>8 DEF Absent
<1>17. \A a, e \in Nat : Closes(a, e) => Closes(a, e)'
  BY <1>1, <1>6, <1>11 DEF Closes
<1>18. SessStarts'
  <2> SUFFICES ASSUME NEW a \in Nat, StartOf(a)
               PROVE  \/ \E q \in Procs : status'[q] = "up" /\ stamp'[q] = a
                      \/ \E e \in Nat : ((Ended(e)' /\ a < e) \/ Died(e)') /\ Closes(a, e)'
    BY <1>6 DEF SessStarts
  <2>1. CASE status[p] = "up" /\ s = a
    <3>1. when = c /\ Died(c)'
      BY <2>1, <1>3, <1>4, <1>8
    <3>2. /\ \A b \in Nat : StartOf(b) => b <= s
          /\ \A q \in Procs : status[q] \in Sessions!Recording => q = p
      BY <2>1 DEF SessInv, SessLatest, Sessions!Recording
    <3>3. \A b \in Nat : StartOf(b)' => ~(a < b)
      BY <3>2, <2>1, <1>3, <1>6
    <3>4. \A q \in Procs : status'[q] # "starting"
      BY <3>2, <1>11 DEF Sessions!Recording
    <3>5. \A t \in received' : ~(c < t)
      BY <1>1, <1>2, <1>3 DEF SessPast, SessTypes
    <3>6. Closes(a, c)'
      BY <3>3, <3>4, <3>5, <2>1, <1>3 DEF Closes
    <3> QED BY <3>1, <3>6, <1>3
  <2>2. CASE ~(status[p] = "up" /\ s = a)
    <3>1. \/ \E q \in Procs : status[q] = "up" /\ stamp[q] = a
          \/ \E e \in Nat : ((Ended(e) /\ a < e) \/ Died(e)) /\ Closes(a, e)
      BY DEF SessInv, SessStarts
    <3>2. CASE \E q \in Procs : status[q] = "up" /\ stamp[q] = a
      BY <3>2, <2>2, <1>1, <1>3
    <3>3. ASSUME NEW e \in Nat, (Ended(e) /\ a < e) \/ Died(e), Closes(a, e)
          PROVE  (Ended(e)' /\ a < e) \/ Died(e)'
      BY <3>3, <1>3, <1>4, <1>7, <1>8
    <3> QED BY <3>1, <3>2, <3>3, <1>17
  <2> QED BY <2>1, <2>2
<1> QED BY <1>9, <1>10, <1>12, <1>14, <1>15, <1>16, <1>18 DEF SessInv

(* No process, no marker: the invariant of the sidecar holds at first.     *)
LEMMA SessionsBegin == Sessions!Init => SessInv
<1> SUFFICES ASSUME Sessions!Init PROVE SessInv
  OBVIOUS
<1>1. /\ clock = 0 /\ lines = <<>> /\ received = {} /\ dead = {}
      /\ status = [p \in Procs |-> "unborn"] /\ stamp = [p \in Procs |-> Absent]
      /\ died = [p \in Procs |-> Absent]
  BY SessionNames DEF Sessions!Init
<1>2. \A a : ~StartOf(a) /\ ~EndOf(a)
  BY <1>1 DEF StartOf, EndOf, ToSet
<1>3. \A a : ~Ended(a)
  BY <1>1, <1>2 DEF Ended
<1>4. \A e \in Nat : ~Died(e)
  BY <1>1 DEF Died, Absent
<1>5. SessTypes
  BY <1>1 DEF SessTypes, Sessions!Statuses
<1>6. SessPast
  BY <1>1, <1>2, <1>3 DEF SessPast, Absent
<1>7. SessLatest
  BY <1>1 DEF SessLatest, Sessions!Recording
<1>8. SessEnds /\ SessData /\ SessDeaths /\ SessStarts
  BY <1>1, <1>2, <1>3, <1>4 DEF SessEnds, SessData, SessDeaths, SessStarts
<1> QED BY <1>5, <1>6, <1>7, <1>8 DEF SessInv

(* Every step of a recorder process keeps what its sidecar is true of.     *)
LEMMA SessionsKeepInv == SessInv /\ [Sessions!Next]_sessionVars => SessInv'
<1> SUFFICES ASSUME SessInv, [Sessions!Next]_sessionVars PROVE SessInv'
  OBVIOUS
<1>1. CASE Sessions!Tick
  BY <1>1, TickKeepsSessions
<1>2. CASE \E p \in Procs : Sessions!Start(p)
  BY <1>2, StartKeepsSessions
<1>3. CASE \E p \in Procs : Sessions!LogStart(p)
  BY <1>3, LogStartKeepsSessions
<1>4. CASE \E p \in Procs : Sessions!Record(p)
  BY <1>4, RecordKeepsSessions
<1>5. CASE \E p \in Procs : Sessions!Stop(p)
  BY <1>5, StopKeepsSessions
<1>6. CASE \E p \in Procs : Sessions!LogEnd(p)
  BY <1>6, LogEndKeepsSessions
<1>7. CASE \E p \in Procs : Sessions!Die(p)
  BY <1>7, DieKeepsSessions
<1>8. CASE UNCHANGED sessionVars
  <2>1. UNCHANGED <<clock, status, stamp, lines, received, died, dead>>
    BY <1>8 DEF sessionVars
  <2>2. \A a : /\ (StartOf(a)' <=> StartOf(a)) /\ (Ended(a)' <=> Ended(a))
               /\ (Died(a)' <=> Died(a))
    BY <2>1, SidecarKept DEF Ended, Died
  <2>3. \A a, e \in Nat : /\ (Quiet(a, e)' <=> Quiet(a, e)) /\ (Closes(a, e)' <=> Closes(a, e))
                          /\ (Alive(a, e)' <=> Alive(a, e))
    BY <2>1, <2>2 DEF Quiet, Closes, Alive
  <2>4. SessTypes' /\ SessPast'
    BY <2>1, <2>2 DEF SessInv, SessTypes, SessPast
  <2>5. SessLatest'
    BY <2>1, <2>2 DEF SessInv, SessLatest
  <2>6. SessEnds' /\ SessDeaths' /\ SessStarts'
    BY <2>1, <2>2, <2>3 DEF SessInv, SessEnds, SessDeaths, SessStarts
  <2>7. SessData'
    BY <2>1, <2>2, <2>3 DEF SessInv, SessData, SessTypes
  <2> QED BY <2>4, <2>5, <2>6, <2>7 DEF SessInv
<1> QED BY <1>1, <1>2, <1>3, <1>4, <1>5, <1>6, <1>7, <1>8 DEF Sessions!Next

(* The gaps of a kind are what neighbouring markers leave between them.    *)
LEMMA WindowsOfAKind ==
    ASSUME SessInv, NEW kind, NEW w \in Sessions!Windows(kind)
    PROVE  \E a, b \in ToSet(lines) :
               /\ Neighbours(ToSet(lines), a, b)
               /\ \E g \in Between(a, b, received) : g.kind = kind /\ g.window = w
<1>1. lines \in Seq(MarkerLine) /\ received \in SUBSET Nat
  BY DEF SessInv, SessTypes
<1>2. PICK g \in DeriveGaps(lines, received) : g.kind = kind /\ g.window = w
  BY SessionNames DEF Sessions!Windows, Sessions!Derived
<1> QED BY <1>1, <1>2, GapBetween

(* A downtime gap lies between an end and a start with no marker between.  *)
LEMMA DowntimeWindows ==
    ASSUME SessInv, NEW w \in Sessions!Windows("downtime")
    PROVE  \E a, b \in Nat : /\ EndOf(a) /\ StartOf(b) /\ w = <<a, b>>
                             /\ \A s \in Nat : StartOf(s) => ~(a <= s /\ s < b)
<1>1. lines \in Seq(MarkerLine)
  BY DEF SessInv, SessTypes
<1>10. PICK a \in ToSet(lines), b \in ToSet(lines) :
          /\ Neighbours(ToSet(lines), a, b)
          /\ \E g \in Between(a, b, received) : g.kind = "downtime" /\ g.window = w
  BY WindowsOfAKind
<1>2. PICK g \in Between(a, b, received) : g.kind = "downtime" /\ g.window = w
  BY <1>10
<1>3. /\ a.ts \in Nat /\ a \in MarkerLine /\ a.event \in {"start", "end"}
      /\ b.ts \in Nat /\ b \in MarkerLine /\ b.event \in {"start", "end"}
  BY <1>1, LinesAreMarkers
<1>4. b.event = "start" /\ a.event = "end" /\ g = Gap("downtime", a.ts, b.ts)
  BY <1>2, <1>3 DEF Between, AddGap, Gap
<1>5. a = Marker("end", a.ts) /\ b = Marker("start", b.ts)
  BY <1>3, <1>4 DEF Marker, MarkerLine
<1>6. w = <<a.ts, b.ts>>
  BY <1>2, <1>4 DEF Gap
<1>7. ASSUME NEW s \in Nat, StartOf(s), a.ts <= s, s < b.ts PROVE FALSE
  <2> DEFINE c == Marker("start", s)
  <2>1. c \in ToSet(lines)
    BY <1>7 DEF StartOf
  <2>2. OrderMarkers(a, c) /\ OrderMarkers(c, b)
    BY <1>3, <1>4, <1>7 DEF OrderMarkers, Marker
  <2> QED BY <2>1, <2>2, <1>10 DEF Neighbours
<1> QED BY <1>3, <1>5, <1>6, <1>7 DEF EndOf, StartOf

(* An unclean gap lies between two starts with no marker between, and      *)
(* begins with the last message of the first, if it left any.              *)
LEMMA UncleanWindows ==
    ASSUME SessInv, NEW w \in Sessions!Windows("unclean")
    PROVE  \E a, b \in Nat : /\ StartOf(a) /\ StartOf(b) /\ a < b
                             /\ w = <<UncleanBegin(received, a, b), b>>
                             /\ \A s \in Nat : StartOf(s) => ~(a < s /\ s < b)
                             /\ \A e \in Nat : EndOf(e) => ~(a < e /\ e <= b)
<1>1. lines \in Seq(MarkerLine) /\ received \in SUBSET Nat
  BY DEF SessInv, SessTypes
<1>10. PICK a \in ToSet(lines), b \in ToSet(lines) :
          /\ Neighbours(ToSet(lines), a, b)
          /\ \E g \in Between(a, b, received) : g.kind = "unclean" /\ g.window = w
  BY WindowsOfAKind
<1>2. PICK g \in Between(a, b, received) : g.kind = "unclean" /\ g.window = w
  BY <1>10
<1>3. /\ a.ts \in Nat /\ a \in MarkerLine /\ a.event \in {"start", "end"}
      /\ b.ts \in Nat /\ b \in MarkerLine /\ b.event \in {"start", "end"}
  BY <1>1, LinesAreMarkers
<1>4. /\ b.event = "start" /\ a.event = "start"
      /\ UncleanBegin(received, a.ts, b.ts) # b.ts
      /\ g = Gap("unclean", UncleanBegin(received, a.ts, b.ts), b.ts)
  BY <1>2, <1>3 DEF Between, AddGap, Gap
<1>5. a = Marker("start", a.ts) /\ b = Marker("start", b.ts)
  BY <1>3, <1>4 DEF Marker, MarkerLine
<1>6. w = <<UncleanBegin(received, a.ts, b.ts), b.ts>>
  BY <1>2, <1>4 DEF Gap
<1>7. a.ts < b.ts
  <2>1. ~OrderMarkers(b, a)
    BY <1>10 DEF Neighbours
  <2>2. a.ts <= b.ts
    BY <2>1, <1>3 DEF OrderMarkers
  <2>3. LastActivity(received, b.ts) \in Int /\ LastActivity(received, b.ts) < b.ts
    BY <1>1, <1>3, LastIsBefore
  <2> QED BY <2>2, <2>3, <1>3, <1>4 DEF UncleanBegin
<1>8. ASSUME NEW s \in Nat, StartOf(s), a.ts < s, s < b.ts PROVE FALSE
  <2> DEFINE c == Marker("start", s)
  <2>1. c \in ToSet(lines)
    BY <1>8 DEF StartOf
  <2>2. OrderMarkers(a, c) /\ OrderMarkers(c, b)
    BY <1>3, <1>4, <1>8 DEF OrderMarkers, Marker
  <2> QED BY <2>1, <2>2, <1>10 DEF Neighbours
<1>9. ASSUME NEW e \in Nat, EndOf(e), a.ts < e, e <= b.ts PROVE FALSE
  <2> DEFINE c == Marker("end", e)
  <2>1. c \in ToSet(lines)
    BY <1>9 DEF EndOf
  <2>2. OrderMarkers(a, c) /\ OrderMarkers(c, b)
    BY <1>3, <1>4, <1>9 DEF OrderMarkers, Marker
  <2> QED BY <2>1, <2>2, <1>10 DEF Neighbours
<1> QED BY <1>3, <1>5, <1>6, <1>7, <1>8, <1>9 DEF EndOf, StartOf

(* The marker before an instant and the one after it, and what they leave. *)
LEMMA DeadTimeIsCovered == SessInv => Sessions!DeadTimeCovered
<1> DEFINE covered == Sessions!Windows("downtime") \cup Sessions!Windows("unclean")
<1> SUFFICES ASSUME SessInv, Sessions!StartTimes # {}, NEW t \in dead,
                    Sessions!Min(Sessions!StartTimes) <= t, t < Sessions!Max(Sessions!StartTimes)
             PROVE  t \in Sessions!TicksOf(covered)
  BY DEF Sessions!DeadTimeCovered
<1> DEFINE S == Sessions!StartTimes
<1>1. lines \in Seq(MarkerLine) /\ received \in SUBSET Nat /\ t \in Nat
  BY DEF SessInv, SessTypes
<1>2. S = {m.ts : m \in {n \in ToSet(lines) : n.event = "start"}}
  BY SessionNames DEF Sessions!StartTimes
<1>3. \A x \in S : x \in Nat /\ \E c \in ToSet(lines) : c.ts = x
  BY <1>1, <1>2, LinesAreMarkers
<1>4. S \in SUBSET Nat /\ IsFiniteSet(S) /\ S # {}
  <2>1. \A x \in S : x <= clock
    <3>1. ASSUME NEW c \in ToSet(lines), c.event = "start" PROVE c.ts <= clock
      <4>1. c \in MarkerLine /\ c.ts \in Nat
        BY <1>1, LinesAreMarkers
      <4>2. c = Marker("start", c.ts)
        BY <4>1, <3>1 DEF Marker, MarkerLine
      <4>3. StartOf(c.ts)
        BY <4>2 DEF StartOf
      <4> QED BY <4>1, <4>3 DEF SessInv, SessPast
    <3> QED BY <3>1, <1>2
  <2>2. clock \in Nat
    BY DEF SessInv, SessTypes
  <2> HIDE DEF S
  <2>3. S \in SUBSET Nat
    BY <1>3
  <2>4. IsFiniteSet(S)
    BY <2>1, <2>2, <2>3, FS_BoundedSetOfNaturals
  <2> QED BY <2>3, <2>4 DEF S
<1>5. Sessions!Min(S) \in S /\ Sessions!Max(S) \in S
  <2> HIDE DEF S
  <2>1. \E x \in S : \A y \in S : x >= y
    BY <1>4, GreatestExists
  <2>2. \E x \in S : \A y \in S : x <= y
    BY <1>4, LeastExists
  <2> QED BY <2>1, <2>2 DEF Sessions!Min, Sessions!Max
<1>6. (\E c \in ToSet(lines) : c.ts <= t) /\ \E d \in ToSet(lines) : t < d.ts
  BY <1>3, <1>5
<1>7. PICK a \in ToSet(lines), b \in ToSet(lines) :
          /\ Neighbours(ToSet(lines), a, b) /\ a.ts <= t /\ t < b.ts
          /\ Between(a, b, received) \subseteq DeriveGaps(lines, received)
  BY <1>1, <1>6, TickBetween
<1>8. /\ a.ts \in Nat /\ a \in MarkerLine /\ a.event \in {"start", "end"}
      /\ b.ts \in Nat /\ b \in MarkerLine /\ b.event \in {"start", "end"}
  BY <1>1, LinesAreMarkers
<1>9. ASSUME NEW s \in Nat, StartOf(s), t < s, s < b.ts PROVE FALSE
  <2> DEFINE c == Marker("start", s)
  <2>1. c \in ToSet(lines)
    BY <1>9 DEF StartOf
  <2>2. OrderMarkers(a, c) /\ OrderMarkers(c, b)
    BY <1>1, <1>7, <1>8, <1>9 DEF OrderMarkers, Marker
  <2> QED BY <2>1, <2>2, <1>7 DEF Neighbours
<1>10. b.event = "start"
  <2> SUFFICES ASSUME b.event = "end" PROVE FALSE
    BY <1>8
  <2>1. b = Marker("end", b.ts)
    BY <1>8 DEF Marker, MarkerLine
  <2>2. Ended(b.ts)
    BY <2>1 DEF Ended, EndOf
  <2>3. PICK s \in Nat : StartOf(s) /\ s < b.ts /\ Alive(s, b.ts)
    BY <2>2, <1>8 DEF SessInv, SessEnds
  <2>4. t < s
    BY <2>3, <1>1, <1>7, <1>8 DEF Alive
  <2> QED BY <2>3, <2>4, <1>9
<1>11. ASSUME NEW g \in DeriveGaps(lines, received), g.kind \in {"downtime", "unclean"},
              t \in Sessions!Ticks(g.window)
       PROVE  t \in Sessions!TicksOf(covered)
  <2>1. g.window \in covered
    BY <1>11, SessionNames DEF Sessions!Windows, Sessions!Derived
  <2> HIDE DEF covered
  <2> QED BY <2>1, <1>11 DEF Sessions!TicksOf
<1>12. CASE a.event = "end"
  <2> DEFINE g == Gap("downtime", a.ts, b.ts)
  <2>1. a.ts # b.ts
    BY <1>1, <1>7, <1>8
  <2>2. g \in DeriveGaps(lines, received)
    BY <2>1, <1>7, <1>10, <1>12 DEF Between, AddGap
  <2>3. g.kind = "downtime" /\ t \in Sessions!Ticks(g.window)
    BY <1>1, <1>7, <1>8 DEF Gap, Sessions!Ticks, Sessions!Begin, Sessions!End
  <2> QED BY <2>2, <2>3, <1>11
<1>13. CASE a.event = "start"
  <2> DEFINE begin == UncleanBegin(received, a.ts, b.ts)
             last == LastActivity(received, b.ts)
             g == Gap("unclean", begin, b.ts)
  <2>1. last \in Int /\ last < b.ts /\ (last # Absent => last \in received)
    BY <1>1, <1>8, LastIsBefore
  <2>2. begin = IF last > a.ts THEN last ELSE a.ts
    BY DEF UncleanBegin
  <2> HIDE DEF begin, last
  <2>3. last <= t
    <3> SUFFICES ASSUME t < last PROVE FALSE
      BY <2>1, <1>1
    <3>1. last \in received /\ last \in Nat
      BY <2>1, <1>1 DEF Absent
    <3>2. PICK s \in Nat : StartOf(s) /\ s <= last /\ Alive(s, last)
      BY <3>1 DEF SessInv, SessData
    <3>3. t < s
      BY <3>1, <3>2, <1>1 DEF Alive
    <3> QED BY <3>1, <3>2, <3>3, <2>1, <1>8, <1>9
  <2>4. begin \in Int /\ begin <= t /\ begin # b.ts
    BY <2>1, <2>2, <2>3, <1>1, <1>7, <1>8
  <2>5. g \in DeriveGaps(lines, received)
    BY <2>4, <1>7, <1>10, <1>13 DEF Between, AddGap, begin
  <2>6. g.kind = "unclean" /\ t \in Sessions!Ticks(g.window)
    BY <2>4, <1>1, <1>7, <1>8 DEF Gap, Sessions!Ticks, Sessions!Begin, Sessions!End
  <2> QED BY <2>5, <2>6, <1>11
<1> QED BY <1>8, <1>12, <1>13

(* A message inside a gap would have a start between the gap's ends.       *)
LEMMA NoDataIsSwallowed == SessInv => Sessions!NoDataInDowntime
<1> SUFFICES ASSUME SessInv, NEW t \in received,
                    NEW w \in Sessions!Windows("downtime") \cup Sessions!Windows("unclean"),
                    Sessions!Begin(w) < t, t < Sessions!End(w)
             PROVE  FALSE
  BY DEF Sessions!NoDataInDowntime
<1>1. received \in SUBSET Nat /\ t \in Nat
  BY DEF SessInv, SessTypes
<1>2. CASE w \in Sessions!Windows("downtime")
  <2>1. PICK a \in Nat, b \in Nat : /\ EndOf(a) /\ StartOf(b) /\ w = <<a, b>>
                                    /\ \A s \in Nat : StartOf(s) => ~(a <= s /\ s < b)
    BY <1>2, DowntimeWindows
  <2>2. a < t /\ t < b
    BY <2>1 DEF Sessions!Begin, Sessions!End
  <2>3. PICK s \in Nat : StartOf(s) /\ s <= t /\ Quiet(s, t)
    BY DEF SessInv, SessData
  <2>4. s < a
    BY <2>1, <2>2, <2>3, <1>1
  <2> QED BY <2>1, <2>2, <2>3, <2>4 DEF Quiet, Ended
<1>3. CASE w \in Sessions!Windows("unclean")
  <2>1. PICK a \in Nat, b \in Nat : w = <<UncleanBegin(received, a, b), b>>
    BY <1>3, UncleanWindows
  <2>2. /\ LastActivity(received, b) \in Int
        /\ \A u \in received : u < b => u <= LastActivity(received, b)
    BY <1>1, LastIsBefore
  <2>3. UncleanBegin(received, a, b) < t /\ t < b
    BY <2>1 DEF Sessions!Begin, Sessions!End
  <2> QED BY <2>2, <2>3, <1>1 DEF UncleanBegin
<1> QED BY <1>2, <1>3

(* Two starts in a row, with the ends all logged: the first one died.      *)
LEMMA UncleanIsADeath == SessInv => Sessions!UncleanMeansDeath
<1> SUFFICES ASSUME SessInv, Sessions!Settled, NEW w \in Sessions!Windows("unclean")
             PROVE  \E p \in Procs : Sessions!Begin(w) <= died[p] /\ died[p] <= Sessions!End(w)
  BY DEF Sessions!UncleanMeansDeath
<1>1. received \in SUBSET Nat
  BY DEF SessInv, SessTypes
<1>2. PICK a \in Nat, b \in Nat : /\ StartOf(a) /\ StartOf(b) /\ a < b
                                  /\ w = <<UncleanBegin(received, a, b), b>>
                                  /\ \A s \in Nat : StartOf(s) => ~(a < s /\ s < b)
                                  /\ \A e \in Nat : EndOf(e) => ~(a < e /\ e <= b)
  BY UncleanWindows
<1>3. /\ LastActivity(received, b) \in Int /\ LastActivity(received, b) < b
      /\ LastActivity(received, b) # Absent => LastActivity(received, b) \in received
  BY <1>1, LastIsBefore
<1>4. ~\E p \in Procs : status[p] = "up" /\ stamp[p] = a
  BY <1>2 DEF SessInv, SessLatest, Sessions!Recording
<1>5. PICK e \in Nat : ((Ended(e) /\ a < e) \/ Died(e)) /\ Closes(a, e)
  BY <1>2, <1>4 DEF SessInv, SessStarts
<1>6. e <= b
  BY <1>2, <1>5 DEF Closes
<1>7. \A x \in Nat : Ended(x) => EndOf(x)
  BY DEF Ended, Sessions!Settled
<1>8. Died(e)
  BY <1>2, <1>5, <1>6, <1>7
<1>9. LastActivity(received, b) <= e
  <2> DEFINE last == LastActivity(received, b)
  <2> SUFFICES ASSUME e < last PROVE FALSE
    BY <1>3
  <2>1. last \in received /\ last \in Nat
    BY <1>1, <1>3 DEF Absent
  <2>2. PICK s \in Nat : StartOf(s) /\ a < s /\ s <= last
    BY <2>1, <1>5 DEF Closes
  <2> HIDE DEF last
  <2> QED BY <2>1, <2>2, <1>2, <1>3 DEF last
<1>10. UncleanBegin(received, a, b) <= e
  BY <1>5, <1>9 DEF UncleanBegin, Closes
<1> QED BY <1>2, <1>6, <1>8, <1>10 DEF Died, Sessions!Begin, Sessions!End

(* A death after an end marker has a start of its own after that marker.   *)
LEMMA DeathIsNotClean == SessInv => Sessions!DeathNeverClean
<1> SUFFICES ASSUME SessInv, NEW p \in Procs, NEW w \in Sessions!Windows("downtime"),
                    Sessions!Begin(w) < died[p], died[p] \in Sessions!Ticks(w)
             PROVE  FALSE
  BY DEF Sessions!DeathNeverClean, Sessions!TicksOf
<1>1. PICK a \in Nat, b \in Nat : /\ EndOf(a) /\ StartOf(b) /\ w = <<a, b>>
                                  /\ \A s \in Nat : StartOf(s) => ~(a <= s /\ s < b)
  BY DowntimeWindows
<1>2. PICK e \in Nat : e = died[p] /\ a < e /\ e < b
  BY <1>1 DEF Sessions!Begin, Sessions!End, Sessions!Ticks
<1>3. Died(e)
  BY <1>2 DEF Died
<1>4. PICK s \in Nat : StartOf(s) /\ s <= e /\ Quiet(s, e)
  BY <1>3 DEF SessInv, SessDeaths
<1>5. s < a
  BY <1>1, <1>2, <1>4
<1> QED BY <1>1, <1>2, <1>4, <1>5 DEF Quiet, Ended

(* A step of the composition is one of the sessions, or leaves them alone. *)
LEMMA SessionsStep == [CaptureNext]_captureVars => [Sessions!Next]_sessionVars
  BY DEF CaptureNext, captureVars, sessionVars

(* What the sidecar says of its processes stays true of the composition.   *)
THEOREM SessInvHolds == CaptureSpec => []SessInv
<1>1. CaptureInit => SessInv
  BY SessionsBegin DEF CaptureInit
<1>2. SessInv /\ [CaptureNext]_captureVars => SessInv'
  BY SessionsStep, SessionsKeepInv
<1> QED BY <1>1, <1>2, PTL DEF CaptureSpec

(* Derived downtime covers every dead tick between two starts and swallows *)
(* no message, for any number of processes and whatever they race for.     *)
THEOREM DowntimeIsTheTruth == CaptureSpec => []DowntimeIsTrue
<1>1. SessInv => DowntimeIsTrue
  BY DeadTimeIsCovered, NoDataIsSwallowed DEF DowntimeIsTrue
<1> QED BY <1>1, SessInvHolds, PTL

(* An unclean gap holds a death, and no death passes as a planned stop.    *)
THEOREM CausesStayApart == CaptureSpec => []CausesApart
<1>1. SessInv => CausesApart
  BY UncleanIsADeath, DeathIsNotClean DEF CausesApart
<1> QED BY <1>1, SessInvHolds, PTL
-----------------------------------------------------------------------------
(***************************************************************************)
(* The timeline of a venue over several lives of the recorder: what the    *)
(* sidecars, put together, say of the past.                                *)
(***************************************************************************)

Newest == Last(markers)
Logged == ToSet(markers)

(* A tick before a start of the recorder is one of its past lives.         *)
LaterStart(t) == \E c \in Logged : c.event = "start" /\ t < c.ts

(* Two neighbouring markers leave a gap that counts the tick as its own.   *)
Covered(t) ==
    \E a, b \in Logged :
        /\ Neighbours(Logged, a, b) /\ b.event = "start" /\ a.ts < b.ts
        /\ a.ts - Grace <= t /\ t < b.ts
        /\ a.event = "start" => \A u \in raw : u < b.ts => u - Grace <= t

(* The gap that the next start will close counts the tick as its own.      *)
Pending(t) ==
    /\ Newest.ts - Grace <= t
    /\ Newest.event = "start" => \A u \in raw : u - Grace <= t

(* A lost tick no sidecar shows yet: the running recorder knows of it, or  *)
(* the next one will derive it.                                            *)
OpenLoss(t) == ~LaterStart(t) /\ (IF alive THEN Known(t) ELSE Pending(t))

TimeTypes ==
    TypeOK /\ alive \in BOOLEAN /\ markers \in Seq(MarkerLine) /\ markers # <<>>

(* Each marker is later than those before it.                              *)
MarkersGrow ==
    /\ Newest \in Logged
    /\ \A c \in Logged : c = Newest \/ c.ts < Newest.ts
    /\ \A c, d \in Logged : c.ts = d.ts => c = d
    /\ \E c \in Logged : c.event = "start"

(* A running recorder has its start as the newest marker, and what it has  *)
(* not logged yet began after that and after the last message.             *)
LifeInv ==
    alive => /\ SinceRecent /\ OutagePending
             /\ Newest.event = "start"
             /\ disconnect # NoTime => Newest.ts <= disconnect
             /\ since # NoTime => Newest.ts <= since /\ \A u \in raw : u <= since

(* No message between the end of a recorder and the start of the next.     *)
StopsAreSilent ==
    /\ ~alive /\ Newest.event = "end" => \A u \in raw : u <= Newest.ts
    /\ \A a, b \in Logged :
           Neighbours(Logged, a, b) /\ a.event = "end" /\ b.event = "start" =>
               \A u \in raw : ~(a.ts < u /\ u < b.ts)

LossesKept == \A t \in missed \ abandoned : InGap(t) \/ Covered(t) \/ OpenLoss(t)

TimeInv ==
    /\ TimeTypes /\ MarkersGrow
    /\ steady => /\ DiskInPast /\ NoCaptureInsideGap /\ Newest.ts <= now
                 /\ LifeInv /\ StopsAreSilent /\ LossesKept

(* The newest marker is a line of the sidecar, of the types of one.        *)
LEMMA NewestIsALine ==
    ASSUME TimeTypes
    PROVE  /\ Newest = markers[Len(markers)] /\ Newest \in Logged
           /\ Newest.ts \in Nat /\ Newest.event \in {"start", "end"}
           /\ \A c \in Logged : c \in MarkerLine /\ c.ts \in Nat /\ c.event \in {"start", "end"}
<1>1. markers \in Seq(MarkerLine) /\ markers # <<>>
  BY DEF TimeTypes
<1>2. Len(markers) \in 1..Len(markers) /\ DOMAIN markers = 1..Len(markers)
  BY <1>1
<1>3. Newest = markers[Len(markers)]
  BY DEF Newest, Last
<1>4. Newest \in Logged
  BY <1>2, <1>3 DEF Logged, ToSet
<1> QED BY <1>1, <1>3, <1>4, LinesAreMarkers DEF Logged

(* A later marker appended is the newest, and a neighbour of the one that  *)
(* was; the others keep their neighbours.                                  *)
LEMMA MarkerLogged ==
    ASSUME TimeTypes, MarkersGrow, NEW e \in {"start", "end"}, NEW s \in Nat, Newest.ts < s,
           markers' = Append(markers, Marker(e, s))
    PROVE  /\ markers' \in Seq(MarkerLine) /\ markers' # <<>> /\ MarkersGrow'
           /\ Newest' = Marker(e, s) /\ Logged' = Logged \cup {Marker(e, s)}
           /\ Neighbours(Logged', Newest, Marker(e, s))
           /\ \A a, b \in Logged : Neighbours(Logged, a, b) => Neighbours(Logged', a, b)
           /\ \A a, b \in Logged' : Neighbours(Logged', a, b) =>
                  \/ a \in Logged /\ b \in Logged /\ Neighbours(Logged, a, b)
                  \/ a = Newest /\ b = Marker(e, s)
                  \/ a = b
<1> DEFINE c == Marker(e, s)
           L == Logged
<1>1. markers \in Seq(MarkerLine) /\ c \in MarkerLine /\ c.ts = s /\ c.event = e
  BY MarkersDiffer DEF TimeTypes, Marker
<1>2. markers' \in Seq(MarkerLine) /\ Logged' = L \cup {c}
  BY <1>1, OneLineMore DEF Logged
<1>3. Len(markers') = Len(markers) + 1 /\ markers'[Len(markers) + 1] = c /\ markers' # <<>>
  BY <1>1
<1>4. Newest' = c
  BY <1>3 DEF Newest, Last
<1>5. /\ Newest \in L /\ Newest.ts \in Nat
      /\ \A d \in L : d.ts \in Nat /\ d.event \in {"start", "end"}
  BY NewestIsALine
<1> HIDE DEF c
<1>6. /\ \A d \in L : d = Newest \/ d.ts < Newest.ts
      /\ \A a, b \in L : a.ts = b.ts => a = b
  BY DEF MarkersGrow
<1> HIDE DEF L
<1>7. \A d \in L : d.ts < c.ts /\ OrderMarkers(d, c) /\ ~OrderMarkers(c, d)
  <2> SUFFICES ASSUME NEW d \in L PROVE d.ts < c.ts /\ OrderMarkers(d, c) /\ ~OrderMarkers(c, d)
    OBVIOUS
  <2>1. d.ts < c.ts
    BY <1>1, <1>5, <1>6
  <2> QED BY <2>1, <1>1, <1>5 DEF OrderMarkers
<1>8. c \notin L /\ ~OrderMarkers(c, c)
  BY <1>1, <1>7 DEF OrderMarkers
<1>9. MarkersGrow'
  <2>1. \A a, b \in L \cup {c} : a.ts = b.ts => a = b
    BY <1>1, <1>5, <1>6, <1>7
  <2>2. \E d \in L \cup {c} : d.event = "start"
    BY DEF MarkersGrow, L
  <2> QED BY <2>1, <2>2, <1>2, <1>4, <1>7 DEF MarkersGrow
<1>10. Neighbours(L \cup {c}, Newest, c)
  <2>1. ASSUME NEW d \in L, OrderMarkers(Newest, d) PROVE FALSE
    BY <2>1, <1>5, <1>6 DEF OrderMarkers
  <2> QED BY <2>1, <1>5, <1>7, <1>8 DEF Neighbours
<1>11. \A a, b \in L : Neighbours(L, a, b) => Neighbours(L \cup {c}, a, b)
  BY <1>7 DEF Neighbours
<1>12. ASSUME NEW a \in L \cup {c}, NEW b \in L \cup {c}, Neighbours(L \cup {c}, a, b)
       PROVE  \/ a \in L /\ b \in L /\ Neighbours(L, a, b)
              \/ a = Newest /\ b = c
              \/ a = b
  <2>1. CASE a \in L /\ b \in L
    BY <1>12, <2>1 DEF Neighbours
  <2>2. CASE a = c
    BY <1>7, <1>12, <2>2 DEF Neighbours
  <2>3. CASE a \in L /\ b = c
    <3>1. a = Newest \/ a.ts < Newest.ts
      BY <2>3, <1>6
    <3>2. ~OrderMarkers(a, Newest)
      BY <1>5, <1>7, <1>12, <2>3 DEF Neighbours
    <3> QED BY <2>3, <3>1, <3>2 DEF OrderMarkers
  <2> QED BY <2>1, <2>2, <2>3
<1> QED BY <1>2, <1>3, <1>4, <1>9, <1>10, <1>11, <1>12 DEF c, L

(* What begins in a step begins with the clock's time.                     *)
LEMMA LossesBeginNow ==
    TypeOK /\ steady' /\ [Next]_vars =>
        /\ now' \in {now, now + 1}
        /\ disconnect' \in {disconnect, now, NoTime} /\ since' \in {since, now, NoTime}
        /\ missed' \subseteq missed \cup {now}
        /\ raw' = raw \/ (raw' = raw \cup {now} /\ since = NoTime)
<1> SUFFICES ASSUME TypeOK, steady', [Next]_vars
             PROVE  /\ now' \in {now, now + 1}
                    /\ disconnect' \in {disconnect, now, NoTime} /\ since' \in {since, now, NoTime}
                    /\ missed' \subseteq missed \cup {now}
                    /\ raw' = raw \/ (raw' = raw \cup {now} /\ since = NoTime)
  OBVIOUS
<1>1. CASE Tick
  BY <1>1 DEF Tick, process, files
<1>2. CASE Capture
  BY <1>2 DEF Capture, Frame
<1>3. CASE Loop
  BY <1>3 DEF Loop, process, files, history, ConnectFails, ConnectFirst, GapLogFails, HandleFailure,
         NegativeGap, Subscribe, KeepaliveFails, AbortEnds, LeaveEnds, CloseOnStop, Reconnect,
         BackoffEnds, BackoffOverflows, Abort
<1>4. CASE Environment /\ ~Tick /\ ~Capture
  BY <1>4 DEF Environment, process, files, history, HandleFailure, VenueDrops, LinkDies,
         VenueClosesCleanly, CaptureFails, WriterNotOpen, SetStop, ClockStepsBack, Abort
<1>5. CASE UNCHANGED vars
  BY <1>5 DEF vars, process, files, history
<1> QED BY <1>1, <1>2, <1>3, <1>4, <1>5 DEF Next

(* A tick in a gap of the sidecar stays in it.                             *)
LEMMA InGapStays == ASSUME TypeOK, [Next]_vars, NEW t, InGap(t) PROVE InGap(t)'
<1>1. CASE Reconnect
  BY <1>1, ReconnectAppends DEF InGap
<1>2. CASE UNCHANGED gaps
  BY <1>2 DEF InGap
<1> QED BY <1>1, <1>2, OnlyReconnectLogs

(* A tick that two markers cover stays covered: later messages are later.  *)
LEMMA CoveredStays ==
    ASSUME TimeTypes, MarkersGrow, Newest.ts <= now, NEW t, Covered(t),
           raw' \subseteq raw \cup {now},
           \A a, b \in Logged : Neighbours(Logged, a, b) => Neighbours(Logged', a, b)
    PROVE  Covered(t)'
<1>1. PICK a \in Logged, b \in Logged :
          /\ Neighbours(Logged, a, b) /\ b.event = "start" /\ a.ts < b.ts
          /\ a.ts - Grace <= t /\ t < b.ts
          /\ a.event = "start" => \A u \in raw : u < b.ts => u - Grace <= t
  BY DEF Covered
<1>2. Neighbours(Logged', a, b) /\ a \in Logged' /\ b \in Logged'
  BY <1>1 DEF Neighbours
<1>3. ~(now < b.ts)
  BY NewestIsALine DEF MarkersGrow, TimeTypes, TypeOK, Time
<1>4. a.event = "start" => \A u \in raw' : u < b.ts => u - Grace <= t
  BY <1>1, <1>3
<1> QED BY <1>1, <1>2, <1>4 DEF Covered

(* A step of the running recorder keeps the timeline.                      *)
LEMMA RunKeepsTimeline == ASSUME TimeInv, Run PROVE TimeInv'
<1>1. alive /\ [Next]_vars /\ markers' = markers /\ alive' = alive /\ abandoned' = abandoned
  BY DEF Run, session
<1>2. TimeTypes /\ MarkersGrow
  BY DEF TimeInv
<1>3. TimeTypes' /\ Newest' = Newest /\ Logged' = Logged
  BY <1>1, <1>2, TypeStep DEF TimeTypes, Newest, Logged
<1>4. MarkersGrow'
  BY <1>2, <1>3 DEF MarkersGrow
<1> SUFFICES ASSUME steady'
             PROVE  /\ DiskInPast' /\ NoCaptureInsideGap' /\ Newest'.ts <= now'
                    /\ LifeInv' /\ StopsAreSilent' /\ LossesKept'
  BY <1>3, <1>4 DEF TimeInv
<1>5. steady /\ TypeOK
  BY <1>1, <1>2, SteadyBefore DEF TimeTypes
<1>6. /\ DiskInPast /\ NoCaptureInsideGap /\ Newest.ts <= now
      /\ LifeInv /\ StopsAreSilent /\ LossesKept
  BY <1>5 DEF TimeInv
<1>7. /\ SinceRecent /\ OutagePending /\ Newest.event = "start"
      /\ disconnect # NoTime => Newest.ts <= disconnect
      /\ since # NoTime => Newest.ts <= since /\ \A u \in raw : u <= since
  BY <1>1, <1>6 DEF LifeInv
<1>8. /\ now' \in {now, now + 1}
      /\ disconnect' \in {disconnect, now, NoTime} /\ since' \in {since, now, NoTime}
      /\ missed' \subseteq missed \cup {now}
      /\ raw' = raw \/ (raw' = raw \cup {now} /\ since = NoTime)
  BY <1>1, <1>5, LossesBeginNow
<1>9. now \in Nat /\ raw \subseteq Nat /\ Newest.ts \in Nat /\ \A u \in raw : u <= now
  BY <1>2, <1>5, <1>6, NewestIsALine DEF TypeOK, Time, DiskInPast
<1>10. DiskInPast' /\ NoCaptureInsideGap' /\ SinceRecent' /\ OutagePending'
  BY <1>1, <1>5, <1>6, <1>7, DiskStep, CaptureStep, SinceStep, OutageStep
<1>11. Newest'.ts <= now'
  BY <1>3, <1>6, <1>8, <1>9
<1>12. LifeInv'
  <2>1. disconnect' # NoTime => Newest.ts <= disconnect'
    BY <1>6, <1>7, <1>8
  <2>2. since' # NoTime => Newest.ts <= since' /\ \A u \in raw' : u <= since'
    <3>1. CASE since' = now
      <4>1. \A u \in raw' : u <= now
        <5>1. \A u \in raw \cup {now} : u <= now
          BY <1>9
        <5>2. raw' \subseteq raw \cup {now}
          BY <1>8
        <5> QED BY <5>1, <5>2
      <4> QED BY <3>1, <4>1, <1>6
    <3>2. CASE since' = since /\ since # NoTime
      BY <3>2, <1>7, <1>8
    <3> QED BY <3>1, <3>2, <1>8
  <2> QED BY <2>1, <2>2, <1>3, <1>7, <1>10 DEF LifeInv
<1>13. StopsAreSilent'
  <2>1. \A b \in Logged : ~(now < b.ts)
    BY <1>2, <1>6, <1>9, NewestIsALine DEF MarkersGrow
  <2> QED BY <2>1, <1>1, <1>3, <1>6, <1>8 DEF StopsAreSilent
<1>14. LossesKept'
  <2> SUFFICES ASSUME NEW t \in missed' \ abandoned'
               PROVE  InGap(t)' \/ Covered(t)' \/ OpenLoss(t)'
    BY DEF LossesKept
  <2>1. LaterStart(t)' <=> LaterStart(t)
    BY <1>3 DEF LaterStart
  <2>2. CASE t \notin missed
    <3>1. Known(t)'
      BY <2>2, <1>1, <1>5, <1>6, <1>7, KnownStep
    <3>2. t = now
      BY <2>2, <1>8
    <3>3. \A b \in Logged : ~(t < b.ts)
      BY <3>2, <1>2, <1>6, <1>9, NewestIsALine DEF MarkersGrow
    <3> QED BY <3>1, <3>3, <2>1, <1>1 DEF OpenLoss, LaterStart
  <2>3. CASE t \in missed
    <3>1. InGap(t) \/ Covered(t) \/ OpenLoss(t)
      BY <2>3, <1>1, <1>6 DEF LossesKept
    <3>2. CASE InGap(t)
      BY <3>2, <1>1, <1>5, InGapStays
    <3>3. CASE Covered(t)
      <4>1. raw' \subseteq raw \cup {now}
        BY <1>8
      <4> QED BY <4>1, <3>3, <1>2, <1>3, <1>6, CoveredStays
    <3>4. CASE OpenLoss(t)
      <4>1. Known(t) /\ ~LaterStart(t)
        BY <3>4, <1>1 DEF OpenLoss
      <4>2. Known(t)'
        BY <4>1, <1>1, <1>5, <1>6, <1>7, KnownStep
      <4> QED BY <4>1, <4>2, <2>1, <1>1 DEF OpenLoss
    <3> QED BY <3>1, <3>2, <3>3, <3>4
  <2> QED BY <2>2, <2>3
<1> QED BY <1>10, <1>11, <1>12, <1>13, <1>14

(* A shutdown leaves to the next start what it did not log, but for the    *)
(* outage that it forgets.                                                 *)
LEMMA ShutdownKeepsTimeline == ASSUME TimeInv, Shutdown PROVE TimeInv'
<1>1. /\ alive /\ pc \in Terminal /\ now > Newest.ts /\ alive' = FALSE
      /\ fileOpen' = FALSE /\ markers' = Append(markers, Marker("end", now))
      /\ abandoned' = IF disconnect = NoTime THEN abandoned
                      ELSE abandoned \cup {t \in missed : t >= disconnect - Grace}
      /\ UNCHANGED <<now, stop, pc, attempt, disconnect, gaps, raw, fileHour, since, observed,
                     missed, steady>>
  BY DEF Shutdown, Newest, process, history
<1>2. TimeTypes /\ MarkersGrow
  BY DEF TimeInv
<1>3. now \in Nat /\ Newest.ts \in Nat /\ raw \subseteq Nat /\ missed \subseteq Nat /\ Grace \in Nat
  BY <1>2, NewestIsALine, GraceBound DEF TimeTypes, TypeOK, Time
<1>4. /\ markers' \in Seq(MarkerLine) /\ markers' # <<>> /\ MarkersGrow'
      /\ Newest' = Marker("end", now) /\ Logged' = Logged \cup {Marker("end", now)}
      /\ \A a, b \in Logged : Neighbours(Logged, a, b) => Neighbours(Logged', a, b)
      /\ \A a, b \in Logged' : Neighbours(Logged', a, b) =>
             \/ a \in Logged /\ b \in Logged /\ Neighbours(Logged, a, b)
             \/ a = Newest /\ b = Marker("end", now)
             \/ a = b
  <2>1. Newest.ts < now
    BY <1>1, <1>3
  <2> QED BY <2>1, <1>1, <1>2, <1>3, MarkerLogged
<1>5. Newest'.ts = now /\ Newest'.event = "end"
  BY <1>4 DEF Marker
<1>6. TimeTypes'
  BY <1>1, <1>2, <1>4 DEF TimeTypes, TypeOK
<1> SUFFICES ASSUME steady
             PROVE  /\ DiskInPast' /\ NoCaptureInsideGap' /\ Newest'.ts <= now'
                    /\ LifeInv' /\ StopsAreSilent' /\ LossesKept'
  BY <1>1, <1>4, <1>6 DEF TimeInv
<1>7. /\ DiskInPast /\ NoCaptureInsideGap /\ Newest.ts <= now
      /\ LifeInv /\ StopsAreSilent /\ LossesKept
  BY DEF TimeInv
<1>8. DiskInPast' /\ NoCaptureInsideGap'
  BY <1>1, <1>7 DEF DiskInPast, NoCaptureInsideGap
<1>9. Newest'.ts <= now' /\ LifeInv'
  BY <1>1, <1>3, <1>5 DEF LifeInv
<1>10. StopsAreSilent'
  <2>1. \A u \in raw' : u <= Newest'.ts
    BY <1>1, <1>5, <1>7 DEF DiskInPast
  <2>2. ASSUME NEW a \in Logged', NEW b \in Logged', Neighbours(Logged', a, b),
               a.event = "end", b.event = "start"
        PROVE  \A u \in raw : ~(a.ts < u /\ u < b.ts)
    <3>1. a # b /\ b # Marker("end", now)
      BY <2>2 DEF Marker
    <3>2. a \in Logged /\ b \in Logged /\ Neighbours(Logged, a, b)
      BY <3>1, <2>2, <1>4
    <3> QED BY <3>2, <2>2, <1>7 DEF StopsAreSilent
  <2> QED BY <2>1, <2>2, <1>1 DEF StopsAreSilent
<1>11. LossesKept'
  <2> SUFFICES ASSUME NEW t \in missed' \ abandoned'
               PROVE  InGap(t)' \/ Covered(t)' \/ OpenLoss(t)'
    BY DEF LossesKept
  <2>1. t \in missed \ abandoned /\ (disconnect # NoTime => ~(t >= disconnect - Grace))
    BY <1>1
  <2>2. InGap(t) \/ Covered(t) \/ OpenLoss(t)
    BY <2>1, <1>7 DEF LossesKept
  <2>3. CASE InGap(t)
    BY <2>3, <1>1 DEF InGap
  <2>4. CASE Covered(t)
    BY <2>4, <1>1, <1>2, <1>4, <1>7, CoveredStays
  <2>5. CASE OpenLoss(t)
    <3>1. Known(t) /\ ~LaterStart(t)
      BY <2>5, <1>1 DEF OpenLoss
    <3>2. since = NoTime
      BY <1>1, <1>7 DEF LifeInv, SinceRecent, Terminal
    <3>3. disconnect # NoTime => ~(disconnect - Grace <= t)
      <4>1. disconnect \in Nat \cup {-1} /\ t \in Nat
        BY <1>2, <1>3, <2>1 DEF TimeTypes, TypeOK, TimeOrNone, Time, NoTime
      <4> QED BY <4>1, <2>1, <1>3
    <3>4. InGap(t) \/ now - Grace <= t
      BY <3>1, <3>2, <3>3 DEF Known, Accounted
    <3>5. ~LaterStart(t)'
      BY <3>1, <1>4 DEF LaterStart, Marker
    <3>6. now - Grace <= t => Pending(t)'
      BY <1>5 DEF Pending
    <3>7. CASE InGap(t)
      BY <3>7, <2>3
    <3>8. CASE now - Grace <= t
      BY <3>5, <3>6, <3>8, <1>1 DEF OpenLoss
    <3> QED BY <3>4, <3>7, <3>8
  <2> QED BY <2>2, <2>3, <2>4, <2>5
<1> QED BY <1>8, <1>9, <1>10, <1>11

(* A crash leaves the next start what the process had not logged: its own  *)
(* start and its last message were before all of it.                       *)
LEMMA CrashKeepsTimeline == ASSUME TimeInv, Crash PROVE TimeInv'
<1>1. /\ alive /\ alive' = FALSE
      /\ UNCHANGED <<now, stop, pc, attempt, disconnect, gaps, raw, fileHour, fileOpen, since,
                     observed, missed, steady, markers, abandoned>>
  BY DEF Crash, vars, process, files, history
<1>2. TimeTypes /\ MarkersGrow
  BY DEF TimeInv
<1>3. /\ now \in Nat /\ Newest.ts \in Nat /\ raw \subseteq Nat /\ missed \subseteq Nat /\ Grace \in Nat
      /\ disconnect \in Nat \cup {-1} /\ since \in Nat \cup {-1}
  BY <1>2, NewestIsALine, GraceBound DEF TimeTypes, TypeOK, TimeOrNone, Time, NoTime
<1>4. Newest' = Newest /\ Logged' = Logged
  BY <1>1 DEF Newest, Logged
<1>5. TimeTypes' /\ MarkersGrow'
  BY <1>1, <1>2, <1>4 DEF TimeTypes, TypeOK, MarkersGrow
<1> SUFFICES ASSUME steady
             PROVE  /\ DiskInPast' /\ NoCaptureInsideGap' /\ Newest'.ts <= now'
                    /\ LifeInv' /\ StopsAreSilent' /\ LossesKept'
  BY <1>1, <1>5 DEF TimeInv
<1>6. /\ DiskInPast /\ NoCaptureInsideGap /\ Newest.ts <= now
      /\ LifeInv /\ StopsAreSilent /\ LossesKept
  BY DEF TimeInv
<1>7. /\ SinceRecent /\ OutagePending /\ Newest.event = "start"
      /\ disconnect # NoTime => Newest.ts <= disconnect
      /\ since # NoTime => Newest.ts <= since /\ \A u \in raw : u <= since
  BY <1>1, <1>6 DEF LifeInv
<1>8. DiskInPast' /\ NoCaptureInsideGap' /\ Newest'.ts <= now' /\ LifeInv' /\ StopsAreSilent'
  BY <1>1, <1>4, <1>6, <1>7 DEF DiskInPast, NoCaptureInsideGap, LifeInv, StopsAreSilent
<1>9. LossesKept'
  <2> SUFFICES ASSUME NEW t \in missed \ abandoned
               PROVE  InGap(t)' \/ Covered(t)' \/ OpenLoss(t)'
    BY <1>1 DEF LossesKept
  <2>0. t \in Nat
    BY <1>3
  <2>1. InGap(t) \/ Covered(t) \/ OpenLoss(t)
    BY <1>6 DEF LossesKept
  <2>2. CASE InGap(t)
    BY <2>2, <1>1 DEF InGap
  <2>3. CASE Covered(t)
    BY <2>3, <1>1, <1>4 DEF Covered
  <2>4. CASE OpenLoss(t) /\ ~InGap(t)
    <3>1. Known(t) /\ ~LaterStart(t)
      BY <2>4, <1>1 DEF OpenLoss
    <3>2. Newest.ts - Grace <= t /\ \A u \in raw : u - Grace <= t
      <4>1. CASE disconnect # NoTime /\ disconnect - Grace <= t
        <5>1. Newest.ts <= disconnect /\ \A u \in raw : u <= disconnect
          BY <4>1, <1>6, <1>7 DEF DiskInPast
        <5> QED BY <4>1, <5>1, <1>3, <2>0
      <4>2. CASE since # NoTime /\ since <= t /\ now - since <= Grace
        <5>1. Newest.ts <= since /\ \A u \in raw : u <= since
          BY <4>2, <1>7
        <5> QED BY <4>2, <5>1, <1>3, <2>0
      <4>3. CASE now - Grace <= t
        <5>1. \A u \in raw : u <= now
          BY <1>6 DEF DiskInPast
        <5> QED BY <4>3, <5>1, <1>3, <1>6, <2>0
      <4> QED BY <3>1, <2>4, <4>1, <4>2, <4>3 DEF Known, Accounted
    <3>3. Pending(t)'
      BY <3>2, <1>1, <1>4 DEF Pending
    <3>4. ~LaterStart(t)'
      BY <3>1, <1>4 DEF LaterStart
    <3> QED BY <3>3, <3>4, <1>1 DEF OpenLoss
  <2> QED BY <2>1, <2>2, <2>3, <2>4
<1> QED BY <1>8, <1>9

(* A start covers all that was left to it.                                 *)
LEMMA RestartKeepsTimeline == ASSUME TimeInv, Restart PROVE TimeInv'
<1>1. /\ ~alive /\ now > Newest.ts /\ alive' = TRUE /\ markers' = Append(markers, Marker("start", now))
      /\ stop' = FALSE /\ pc' = "connecting" /\ attempt' = 0 /\ disconnect' = NoTime
      /\ fileHour' = NoTime /\ fileOpen' = FALSE /\ since' = NoTime /\ observed' = FALSE
      /\ UNCHANGED <<now, gaps, raw, missed, steady, abandoned>>
  BY DEF Restart, Newest
<1>2. TimeTypes /\ MarkersGrow
  BY DEF TimeInv
<1>3. now \in Nat /\ Newest.ts \in Nat /\ raw \subseteq Nat /\ missed \subseteq Nat /\ Grace \in Nat
  BY <1>2, NewestIsALine, GraceBound DEF TimeTypes, TypeOK, Time
<1> DEFINE c == Marker("start", now)
<1>4. /\ markers' \in Seq(MarkerLine) /\ markers' # <<>> /\ MarkersGrow'
      /\ Newest' = c /\ Logged' = Logged \cup {c}
      /\ Neighbours(Logged', Newest, c)
      /\ \A a, b \in Logged : Neighbours(Logged, a, b) => Neighbours(Logged', a, b)
      /\ \A a, b \in Logged' : Neighbours(Logged', a, b) =>
             \/ a \in Logged /\ b \in Logged /\ Neighbours(Logged, a, b)
             \/ a = Newest /\ b = c
             \/ a = b
  <2>1. Newest.ts < now
    BY <1>1, <1>3
  <2> QED BY <2>1, <1>1, <1>2, <1>3, MarkerLogged
<1>5. c.ts = now /\ c.event = "start"
  BY DEF Marker
<1> HIDE DEF c
<1>6. TimeTypes'
  BY <1>1, <1>2, <1>4 DEF TimeTypes, TypeOK, Places, TimeOrNone, NoTime
<1> SUFFICES ASSUME steady
             PROVE  /\ DiskInPast' /\ NoCaptureInsideGap' /\ Newest'.ts <= now'
                    /\ LifeInv' /\ StopsAreSilent' /\ LossesKept'
  BY <1>1, <1>4, <1>6 DEF TimeInv
<1>7. /\ DiskInPast /\ NoCaptureInsideGap /\ Newest.ts <= now
      /\ LifeInv /\ StopsAreSilent /\ LossesKept
  BY DEF TimeInv
<1>8. DiskInPast' /\ NoCaptureInsideGap'
  BY <1>1, <1>7 DEF DiskInPast, NoCaptureInsideGap
<1>9. Newest'.ts <= now' /\ LifeInv'
  <2>1. SinceRecent' /\ OutagePending'
    BY <1>1 DEF SinceRecent, OutagePending, NoTime
  <2> QED BY <2>1, <1>1, <1>3, <1>4, <1>5 DEF LifeInv
<1>10. StopsAreSilent'
  <2>1. ASSUME NEW a \in Logged', NEW b \in Logged', Neighbours(Logged', a, b),
               a.event = "end", b.event = "start"
        PROVE  \A u \in raw : ~(a.ts < u /\ u < b.ts)
    <3>1. CASE a = Newest
      <4>1. \A u \in raw : u <= a.ts
        BY <3>1, <2>1, <1>1, <1>7 DEF StopsAreSilent
      <4> QED BY <4>1, <3>1, <1>3
    <3>2. CASE a \in Logged /\ b \in Logged /\ Neighbours(Logged, a, b)
      BY <3>2, <2>1, <1>7 DEF StopsAreSilent
    <3> QED BY <3>1, <3>2, <2>1, <1>4
  <2> QED BY <2>1, <1>1 DEF StopsAreSilent
<1>11. LossesKept'
  <2> SUFFICES ASSUME NEW t \in missed \ abandoned
               PROVE  InGap(t)' \/ Covered(t)' \/ OpenLoss(t)'
    BY <1>1 DEF LossesKept
  <2>1. InGap(t) \/ Covered(t) \/ OpenLoss(t)
    BY <1>7 DEF LossesKept
  <2>2. CASE InGap(t)
    BY <2>2, <1>1 DEF InGap
  <2>3. CASE Covered(t)
    BY <2>3, <1>1, <1>2, <1>4, <1>7, CoveredStays
  <2>4. CASE OpenLoss(t)
    <3>1. Pending(t)
      BY <2>4, <1>1 DEF OpenLoss
    <3>2. t < now /\ Newest.ts < now
      BY <1>1, <1>3, <1>7 DEF DiskInPast
    <3>3. Newest \in Logged' /\ c \in Logged'
      BY <1>4 DEF Neighbours
    <3> QED BY <3>1, <3>2, <3>3, <1>1, <1>4, <1>5 DEF Pending, Covered
  <2> QED BY <2>1, <2>2, <2>3, <2>4
<1> QED BY <1>8, <1>9, <1>10, <1>11

(* A tick without a recorder is left to the next start.                    *)
LEMMA DeadTickKeepsTimeline == ASSUME TimeInv, DeadTick PROVE TimeInv'
<1>1. /\ ~alive /\ alive' = alive /\ now' = now + 1 /\ missed' = missed \cup {now}
      /\ UNCHANGED <<stop, pc, attempt, disconnect, gaps, raw, fileHour, fileOpen, since,
                     observed, steady, markers, abandoned>>
  BY DEF DeadTick, process, files, session
<1>2. TimeTypes /\ MarkersGrow
  BY DEF TimeInv
<1>3. now \in Nat /\ Newest.ts \in Nat /\ raw \subseteq Nat /\ missed \subseteq Nat /\ Grace \in Nat
  BY <1>2, NewestIsALine, GraceBound DEF TimeTypes, TypeOK, Time
<1>4. Newest' = Newest /\ Logged' = Logged
  BY <1>1 DEF Newest, Logged
<1>5. TimeTypes' /\ MarkersGrow'
  <2>1. now' \in Nat /\ missed' \subseteq Nat
    BY <1>1, <1>3
  <2> QED BY <2>1, <1>1, <1>2, <1>4 DEF TimeTypes, TypeOK, Time, MarkersGrow
<1> SUFFICES ASSUME steady
             PROVE  /\ DiskInPast' /\ NoCaptureInsideGap' /\ Newest'.ts <= now'
                    /\ LifeInv' /\ StopsAreSilent' /\ LossesKept'
  BY <1>1, <1>5 DEF TimeInv
<1>6. /\ DiskInPast /\ NoCaptureInsideGap /\ Newest.ts <= now
      /\ LifeInv /\ StopsAreSilent /\ LossesKept
  BY DEF TimeInv
<1>7. DiskInPast'
  <2>1. \A i \in DOMAIN gaps : End(gaps[i]) \in Nat
    BY <1>2 DEF TimeTypes, TypeOK, Time, End
  <2>2. \A i \in DOMAIN gaps : End(gaps[i]) <= now'
    BY <2>1, <1>1, <1>3, <1>6 DEF DiskInPast
  <2>3. (\A u \in raw : u <= now') /\ \A u \in missed' : u < now'
    BY <1>1, <1>3, <1>6 DEF DiskInPast
  <2> QED BY <2>2, <2>3, <1>1, <1>6 DEF DiskInPast
<1>8. NoCaptureInsideGap' /\ LifeInv' /\ StopsAreSilent'
  BY <1>1, <1>4, <1>6 DEF NoCaptureInsideGap, LifeInv, StopsAreSilent
<1>9. Newest'.ts <= now'
  BY <1>1, <1>3, <1>4, <1>6
<1>10. LossesKept'
  <2> SUFFICES ASSUME NEW t \in missed' \ abandoned
               PROVE  InGap(t)' \/ Covered(t)' \/ OpenLoss(t)'
    BY <1>1 DEF LossesKept
  <2>1. InGap(t)' = InGap(t) /\ Covered(t)' = Covered(t) /\ OpenLoss(t)' = OpenLoss(t)
    BY <1>1, <1>4 DEF InGap, Covered, OpenLoss, LaterStart, Pending
  <2>2. CASE t \in missed
    BY <2>1, <2>2, <1>6 DEF LossesKept
  <2>3. CASE t = now
    <3>1. Newest.ts - Grace <= t /\ \A u \in raw : u - Grace <= t
      BY <2>3, <1>3, <1>6 DEF DiskInPast
    <3>2. \A b \in Logged : ~(t < b.ts)
      BY <2>3, <1>2, <1>3, <1>6, NewestIsALine DEF MarkersGrow
    <3>3. OpenLoss(t)
      BY <3>1, <3>2, <1>1 DEF OpenLoss, LaterStart, Pending
    <3> QED BY <2>1, <3>3
  <2> QED BY <2>2, <2>3, <1>1
<1> QED BY <1>7, <1>8, <1>9, <1>10

(* The first start of the recorder has lost nothing yet.                   *)
LEMMA TimelineBegins == TimelineInit => TimeInv
<1> SUFFICES ASSUME TimelineInit PROVE TimeInv
  OBVIOUS
<1> DEFINE c == Marker("start", 0)
<1>1. Init /\ alive = TRUE /\ markers = <<c>> /\ abandoned = {}
  BY DEF TimelineInit
<1>2. c \in MarkerLine /\ c.ts = 0 /\ c.event = "start"
  BY DEF Marker, MarkerLine
<1> HIDE DEF c
<1>3. markers \in Seq(MarkerLine) /\ markers # <<>> /\ Len(markers) = 1 /\ markers[1] = c /\ DOMAIN markers = {1}
  BY <1>1, <1>2
<1>4. Newest = c /\ Logged = {c}
  BY <1>3 DEF Newest, Last, Logged, ToSet
<1>5. TimeTypes /\ MarkersGrow
  BY <1>1, <1>2, <1>3, <1>4, TypeInit DEF TimeTypes, MarkersGrow
<1>6. DOMAIN gaps = {} /\ raw = {} /\ missed = {} /\ now = 0
  BY <1>1 DEF Init
<1>7. SinceRecent /\ OutagePending /\ disconnect = NoTime /\ since = NoTime
  BY <1>1 DEF Init, SinceRecent, OutagePending, NoTime
<1>8. DiskInPast /\ NoCaptureInsideGap
  BY <1>6 DEF DiskInPast, NoCaptureInsideGap
<1>9. LifeInv /\ StopsAreSilent /\ LossesKept
  BY <1>1, <1>2, <1>4, <1>6, <1>7 DEF LifeInv, StopsAreSilent, LossesKept
<1> QED BY <1>2, <1>4, <1>5, <1>6, <1>8, <1>9 DEF TimeInv

(* A step of the composition is one of the timeline, or leaves it alone.   *)
LEMMA TimelineStep == [CaptureNext]_captureVars => [TimelineNext]_timeVars
  BY DEF CaptureNext, captureVars

(* What the sidecars leave open, and how, holds over all lives.            *)
THEOREM TimeInvHolds == CaptureSpec => []TimeInv
<1>1. CaptureInit => TimeInv
  BY TimelineBegins DEF CaptureInit
<1>2. TimeInv /\ [TimelineNext]_timeVars => TimeInv'
  <2> SUFFICES ASSUME TimeInv, [TimelineNext]_timeVars PROVE TimeInv'
    OBVIOUS
  <2>1. CASE UNCHANGED timeVars
    <3>1. UNCHANGED <<now, stop, pc, attempt, disconnect, gaps, raw, fileHour, fileOpen, since,
                      observed, missed, steady, alive, markers, abandoned>>
      BY <2>1 DEF timeVars, session, vars, process, files, history
    <3>2. Newest' = Newest /\ Logged' = Logged
      BY <3>1 DEF Newest, Logged
    <3>3. TimeTypes' /\ MarkersGrow'
      BY <3>1, <3>2 DEF TimeInv, TimeTypes, TypeOK, MarkersGrow
    <3>4. \A t : /\ InGap(t)' = InGap(t) /\ Covered(t)' = Covered(t)
                 /\ OpenLoss(t)' = OpenLoss(t)
      BY <3>1, <3>2 DEF InGap, Covered, OpenLoss, LaterStart, Known, Accounted, Pending
    <3>5. (LossesKept => LossesKept') /\ (StopsAreSilent => StopsAreSilent')
      BY <3>1, <3>2, <3>4 DEF LossesKept, StopsAreSilent
    <3>6. LifeInv => LifeInv'
      BY <3>1, <3>2 DEF LifeInv, SinceRecent, OutagePending
    <3>7. (DiskInPast => DiskInPast') /\ (NoCaptureInsideGap => NoCaptureInsideGap')
      BY <3>1 DEF DiskInPast, NoCaptureInsideGap
    <3> QED BY <3>1, <3>2, <3>3, <3>5, <3>6, <3>7 DEF TimeInv
  <2> QED BY <2>1, RunKeepsTimeline, ShutdownKeepsTimeline, CrashKeepsTimeline,
             RestartKeepsTimeline, DeadTickKeepsTimeline DEF TimelineNext
<1> QED BY <1>1, <1>2, TimelineStep, PTL DEF CaptureSpec

(* What two neighbours leave between them is among the derived gaps.       *)
LEMMA NeighboursAreDerived ==
    ASSUME TimeTypes, MarkersGrow, NEW a \in Logged, NEW b \in Logged,
           Neighbours(Logged, a, b), a.ts < b.ts
    PROVE  Between(a, b, raw) \subseteq DeriveGaps(markers, raw)
<1>1. markers \in Seq(MarkerLine) /\ raw \in SUBSET Nat
  BY DEF TimeTypes, TypeOK, Time
<1>2. \A c \in Logged : c.ts \in Nat
  BY NewestIsALine
<1>3. PICK v \in Logged, w \in Logged :
          /\ Neighbours(Logged, v, w) /\ v.ts <= a.ts /\ a.ts < w.ts
          /\ Between(v, w, raw) \subseteq DeriveGaps(markers, raw)
  BY <1>1, <1>2, TickBetween DEF Logged
<1>4. v = a
  <2>1. ~(v.ts < a.ts)
    BY <1>3 DEF Neighbours, OrderMarkers
  <2>2. v.ts = a.ts
    BY <2>1, <1>2, <1>3
  <2> QED BY <2>2 DEF MarkersGrow
<1>5. w = b
  <2>1. ~(b.ts < w.ts) /\ ~(w.ts < b.ts)
    BY <1>3, <1>4 DEF Neighbours, OrderMarkers
  <2>2. w.ts = b.ts
    BY <2>1, <1>2
  <2> QED BY <2>2 DEF MarkersGrow
<1> QED BY <1>3, <1>4, <1>5

(* A covered tick is in a derived gap, or a timeout before one.            *)
LEMMA CoveredIsDerived ==
    ASSUME TimeTypes, MarkersGrow, NEW t \in Nat, Covered(t)
    PROVE  OnTimeline(t, DowntimeGaps)
<1>1. PICK a \in Logged, b \in Logged :
          /\ Neighbours(Logged, a, b) /\ b.event = "start" /\ a.ts < b.ts
          /\ a.ts - Grace <= t /\ t < b.ts
          /\ a.event = "start" => \A u \in raw : u < b.ts => u - Grace <= t
  BY DEF Covered
<1>2. a.ts \in Nat /\ b.ts \in Nat /\ a.event \in {"start", "end"} /\ raw \in SUBSET Nat
  BY NewestIsALine DEF TimeTypes, TypeOK, Time
<1>3. \A g \in Between(a, b, raw) : g \in DeriveGaps(markers, raw)
  BY <1>1, NeighboursAreDerived
<1>4. ASSUME NEW kind, NEW from, Gap(kind, from, b.ts) \in Between(a, b, raw), from - Grace <= t
      PROVE  OnTimeline(t, DowntimeGaps)
  <2> DEFINE g == Gap(kind, from, b.ts)
  <2>1. g \in DeriveGaps(markers, raw)
    BY <1>3, <1>4
  <2>2. g.window \in DowntimeGaps
    BY <2>1 DEF DowntimeGaps
  <2>3. Begin(g.window) = from /\ End(g.window) = b.ts
    BY DEF Gap, Begin, End
  <2> HIDE DEF g
  <2> QED BY <2>2, <2>3, <1>1, <1>4 DEF OnTimeline
<1>5. CASE a.event = "end"
  <2>1. Gap("downtime", a.ts, b.ts) \in Between(a, b, raw)
    BY <1>1, <1>2, <1>5 DEF Between, AddGap
  <2> QED BY <2>1, <1>1, <1>4
<1>6. CASE a.event = "start"
  <2> DEFINE last == LastActivity(raw, b.ts)
             from == UncleanBegin(raw, a.ts, b.ts)
  <2>1. last \in Int /\ last < b.ts /\ (last # Absent => last \in raw)
    BY <1>2, LastIsBefore
  <2>2. from = IF last > a.ts THEN last ELSE a.ts
    BY DEF UncleanBegin
  <2> HIDE DEF last, from
  <2>3. from # b.ts
    BY <2>1, <2>2, <1>1, <1>2
  <2>4. from - Grace <= t
    <3>1. CASE last > a.ts
      <4>1. last # Absent
        BY <3>1, <1>2, <2>1 DEF Absent
      <4> QED BY <3>1, <4>1, <2>1, <2>2, <1>1, <1>6
    <3>2. CASE ~(last > a.ts)
      BY <3>2, <2>2, <1>1
    <3> QED BY <3>1, <3>2
  <2>5. Gap("unclean", from, b.ts) \in Between(a, b, raw)
    BY <2>3, <1>1, <1>6 DEF Between, AddGap, from
  <2> QED BY <2>4, <2>5, <1>4
<1> QED BY <1>2, <1>5, <1>6

(* The last start is a start of the sidecar.                               *)
LEMMA LastStartIsOne ==
    ASSUME TimeTypes, MarkersGrow
    PROVE  LastStart \in Nat /\ \E c \in Logged : c.event = "start" /\ c.ts = LastStart
<1> DEFINE S == {m.ts : m \in {n \in ToSet(markers) : n.event = "start"}}
<1>1. \A c \in Logged : c.ts \in Nat /\ c.ts <= Newest.ts
  BY NewestIsALine DEF MarkersGrow
<1>2. S \in SUBSET Nat /\ S # {} /\ Newest.ts \in Nat /\ \A x \in S : x <= Newest.ts
  BY <1>1, NewestIsALine DEF Logged, MarkersGrow
<1>3. Max(S) \in S
  <2> HIDE DEF S
  <2>1. IsFiniteSet(S)
    BY <1>2, FS_BoundedSetOfNaturals
  <2>2. \E x \in S : \A y \in S : x >= y
    BY <2>1, <1>2, GreatestExists
  <2> QED BY <2>2 DEF Max
<1> QED BY <1>2, <1>3 DEF LastStart, Logged

(* A tick of an earlier life is in a gap record or derived from the        *)
(* markers; what is open still precedes no later start.                    *)
LEMMA PastIsOnTimeline == TimeInv => PastLossesOnTimeline
<1> SUFFICES ASSUME TimeInv, steady, NEW t \in missed \ abandoned, t < LastStart
             PROVE  OnTimeline(t, AllGaps)
  BY DEF PastLossesOnTimeline
<1>1. TimeTypes /\ MarkersGrow /\ LifeInv /\ LossesKept /\ t \in Nat
  BY DEF TimeInv, TimeTypes, TypeOK, Time
<1>2. CASE InGap(t)
  <2>1. PICK i \in DOMAIN gaps : Begin(gaps[i]) - Grace <= t /\ t < End(gaps[i])
    BY <1>2 DEF InGap
  <2>2. gaps[i] \in AllGaps
    BY DEF AllGaps, FeedGaps, ToSet
  <2> QED BY <2>1, <2>2 DEF OnTimeline
<1>3. CASE Covered(t)
  BY <1>1, <1>3, CoveredIsDerived DEF OnTimeline, AllGaps
<1>4. CASE OpenLoss(t)
  <2>1. ~LaterStart(t)
    BY <1>4 DEF OpenLoss
  <2> QED BY <2>1, <1>1, LastStartIsOne DEF LaterStart
<1> QED BY <1>1, <1>2, <1>3, <1>4 DEF LossesKept

(* A message inside a window would be one of the outage that the sidecar   *)
(* logs, or of the time between two markers.                               *)
LEMMA DataIsOutside == TimeInv => DataOutsideAllGaps
<1> SUFFICES ASSUME TimeInv, steady, NEW w \in AllGaps, NEW t \in raw, Begin(w) < t, t < End(w)
             PROVE  FALSE
  BY DEF DataOutsideAllGaps
<1>1. TimeTypes /\ MarkersGrow /\ NoCaptureInsideGap /\ StopsAreSilent
  BY DEF TimeInv
<1>2. markers \in Seq(MarkerLine) /\ raw \in SUBSET Nat
  BY <1>1 DEF TimeTypes, TypeOK, Time
<1>3. CASE w \in FeedGaps
  BY <1>1, <1>3 DEF FeedGaps, ToSet, NoCaptureInsideGap
<1>4. CASE w \in DowntimeGaps
  <2>1. PICK g \in DeriveGaps(markers, raw) : g.window = w
    BY <1>4 DEF DowntimeGaps
  <2>2. PICK a \in Logged, b \in Logged : Neighbours(Logged, a, b) /\ g \in Between(a, b, raw)
    BY <2>1, <1>2, GapBetween DEF Logged
  <2>3. /\ a.ts \in Nat /\ b.ts \in Nat /\ a.event \in {"start", "end"} /\ b.event \in {"start", "end"}
    BY <1>1, NewestIsALine
  <2>4. b.event = "start"
    BY <2>2, <2>3 DEF Between
  <2>5. CASE a.event = "end"
    <3>1. g = Gap("downtime", a.ts, b.ts)
      BY <2>2, <2>4, <2>5 DEF Between, AddGap
    <3>2. a.ts < t /\ t < b.ts
      BY <3>1, <2>1 DEF Gap, Begin, End
    <3> QED BY <3>2, <2>2, <2>4, <2>5, <1>1 DEF StopsAreSilent
  <2>6. CASE a.event = "start"
    <3>1. g = Gap("unclean", UncleanBegin(raw, a.ts, b.ts), b.ts)
      BY <2>2, <2>4, <2>6 DEF Between, AddGap
    <3>2. UncleanBegin(raw, a.ts, b.ts) < t /\ t < b.ts
      BY <3>1, <2>1 DEF Gap, Begin, End
    <3>3. /\ LastActivity(raw, b.ts) \in Int
          /\ \A u \in raw : u < b.ts => u <= LastActivity(raw, b.ts)
      BY <1>2, <2>3, LastIsBefore
    <3> QED BY <3>2, <3>3, <1>2, <2>3 DEF UncleanBegin
  <2> QED BY <2>3, <2>5, <2>6
<1> QED BY <1>3, <1>4 DEF AllGaps

(* Across drops, silences, refused writes, crashes and restarts, no loss   *)
(* of a past life escapes the feed gaps and the derived downtime but for   *)
(* outages that a shutdown cut short (run_service, log_gap, downtime.py).  *)
THEOREM PastLossesAreOnRecord == CaptureSpec => []PastLossesOnTimeline
  BY TimeInvHolds, PastIsOnTimeline, PTL

(* Over all lives of the recorder, what was captured and what either       *)
(* sidecar declares missing never overlap.                                 *)
THEOREM DataIsOutsideAllGaps == CaptureSpec => []DataOutsideAllGaps
  BY TimeInvHolds, DataIsOutside, PTL
=============================================================================
