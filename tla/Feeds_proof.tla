----------------------------- MODULE Feeds_proof -----------------------------
(***************************************************************************)
(* Proofs about what is made of the recorded feeds: the sequence tracker   *)
(* that notices every loss (BookReplay), the rows a research day stores,   *)
(* the labels they carry and the features they show (SampleStream).        *)
(***************************************************************************)
EXTENDS MCFeeds, DataLemmas

(* What observing a message does to a tracker that is level or knows of a  *)
(* loss: it ends level, and counts a gap exactly when one was pending.     *)
LEMMA ObserveCounts ==
    ASSUME ReplayAssumption, ReplayInv, Delivered
    PROVE  /\ last' = next /\ next' = next + 1 /\ next' \in 0..MaxSeq
           /\ seen' /\ ~pending' /\ seen' \in BOOLEAN /\ pending' \in BOOLEAN
           /\ pending => gaps' = gaps + 1 /\ holes' = holes + 1
           /\ ~pending => gaps' = gaps /\ holes' = holes
           /\ gaps' \in Nat /\ holes' \in Nat
<1>1. last' = next /\ next' = next + 1 /\ next < MaxSeq /\ seen' = TRUE /\ pending' = FALSE
  BY DEF Delivered, Observe
<1>2. next \in Nat /\ last \in Int /\ last >= -1 /\ gaps \in Nat /\ holes \in Nat /\ MaxSeq \in Nat
      /\ pending \in BOOLEAN /\ seen \in BOOLEAN
  BY DEF ReplayInv, TypeOK, ReplayAssumption, Unseen
<1>3. SeqOK <=> ~pending
  <2>1. CASE ~seen
    BY <2>1, <1>2 DEF ReplayInv, TrackerLevel, SeqOK, Contiguous, NewNumbering, Unseen
  <2>2. CASE seen /\ ~pending
    BY <2>2, <1>2 DEF ReplayInv, TrackerLevel, SeqOK, Contiguous
  <2>3. CASE seen /\ pending
    <3>1. last # Unseen
      BY <2>3 DEF ReplayInv, TrackerLevel
    <3> QED
      BY <3>1, <2>3, <1>2 DEF ReplayInv, TrackerLevel, SeqOK, Contiguous, NewNumbering
  <2> QED
    BY <2>1, <2>2, <2>3, <1>2
<1>4. gaps' = (IF pending THEN gaps + 1 ELSE gaps)
  BY <1>3 DEF Delivered, Observe
<1>5. holes' = (IF pending THEN holes + 1 ELSE holes)
  BY DEF Delivered
<1>6. seen' /\ ~pending' /\ seen' \in BOOLEAN /\ pending' \in BOOLEAN
  BY <1>1
<1>7. /\ pending => gaps' = gaps + 1 /\ holes' = holes + 1
      /\ ~pending => gaps' = gaps /\ holes' = holes
  BY <1>4, <1>5
<1>8. gaps' \in Nat /\ holes' \in Nat
  BY <1>2, <1>7
<1> QED
  BY <1>1, <1>2, <1>6, <1>7, <1>8

(* A delivery leaves the tracker level and every stale book dated, as long *)
(* as what it takes off the awaited snapshots is no longer stale.          *)
LEMMA DeliveryKeepsDates ==
    ASSUME ReplayAssumption, ReplayInv, Delivered,
           awaiting' \subseteq awaiting, stale' \subseteq stale, gapsAtLoss' = gapsAtLoss,
           stale' \cap awaiting \subseteq awaiting'
    PROVE  TrackerLevel' /\ LossDated' /\ GapsAreHoles'
<1> USE ObserveCounts
<1>1. TrackerLevel'
  <2>1. next \in Nat
    BY DEF ReplayInv, TypeOK
  <2> QED
    BY <2>1 DEF TrackerLevel, Unseen
<1>2. LossDated'
  <2> SUFFICES ASSUME NEW s \in stale'
               PROVE  /\ gapsAtLoss[s] <= gaps'
                      /\ s \in awaiting' \/ gapsAtLoss[s] < gaps'
    BY DEF LossDated
  <2>1. gapsAtLoss[s] \in Nat /\ gaps \in Nat
    BY DEF ReplayInv, TypeOK
  <2>2. /\ gapsAtLoss[s] <= gaps
        /\ s \in awaiting \/ pending \/ gapsAtLoss[s] < gaps
    BY DEF ReplayInv, LossDated
  <2> QED
    BY <2>1, <2>2
<1>3. GapsAreHoles'
  BY DEF ReplayInv, GapsAreHoles
<1> QED
  BY <1>1, <1>2, <1>3

(* What a lost message changes of the connection, its books apart.         *)
LEMMA LossIsPending ==
    ASSUME ReplayAssumption, ReplayInv, Lost
    PROVE  /\ seen /\ next' = next + 1 /\ next' \in 0..MaxSeq /\ pending' /\ pending' \in BOOLEAN
           /\ UNCHANGED <<conns, last, gaps, valid, seqGaps, seen, holes>>
           /\ last < next /\ last < next' - 1
           /\ TrackerLevel' /\ GapsAreHoles'
<1>1. /\ seen /\ next < MaxSeq /\ next' = next + 1 /\ pending' = TRUE
      /\ UNCHANGED <<conns, last, gaps, valid, seqGaps, seen, holes>>
  BY DEF Lost, tracker, builders
<1>2. next \in Nat /\ last \in Int /\ last < next /\ MaxSeq \in Nat
  BY <1>1 DEF ReplayInv, TypeOK, ReplayAssumption, Unseen
<1>3. TrackerLevel'
  BY <1>1, <1>2 DEF ReplayInv, TrackerLevel
<1> QED
  BY <1>1, <1>2, <1>3 DEF ReplayInv, GapsAreHoles

(* Whatever a lost message belonged to, the books it makes stale are dated *)
(* no later than the gap that will be counted for it.                      *)
LEMMA LossKeepsDates ==
    ASSUME ReplayAssumption, ReplayInv, Lost,
           \A s \in stale' : (gapsAtLoss'[s] = gapsAtLoss[s] /\ s \in stale) \/ gapsAtLoss'[s] = gaps
    PROVE  LossDated'
<1> SUFFICES ASSUME NEW s \in stale'
             PROVE  gapsAtLoss'[s] <= gaps
  BY LossIsPending DEF LossDated
<1>1. gaps \in Nat
  BY DEF ReplayInv, TypeOK
<1> QED
  BY <1>1 DEF ReplayInv, LossDated

(* An update leaves flags and counters what they are.                      *)
LEMMA UpdateTypes ==
    ASSUME TypeOK, NEW s \in Symbols, ApplyUpdate(s)
    PROVE  valid' \in [Symbols -> BOOLEAN] /\ seqGaps' \in [Symbols -> Nat]
<1>1. valid \in [Symbols -> BOOLEAN] /\ seqGaps \in [Symbols -> Nat]
  BY DEF TypeOK
<1>2. seqGaps' \in [Symbols -> Nat]
  BY <1>1 DEF ApplyUpdate
<1>3. valid' \in [Symbols -> BOOLEAN]
  BY <1>1 DEF ApplyUpdate
<1> QED
  BY <1>2, <1>3

(* The inductive step, one action at a time.                               *)
LEMMA StepKeepsInv ==
    ASSUME ReplayAssumption, ReplayInv, [Next]_vars
    PROVE  ReplayInv'
<1> USE DEF ReplayInv
<1>1. CASE DeliverOther
  <2>1. /\ Delivered /\ awaiting' = awaiting /\ stale' = stale /\ gapsAtLoss' = gapsAtLoss
        /\ conns' = conns /\ valid' = valid /\ seqGaps' = seqGaps
    BY <1>1 DEF DeliverOther, builders
  <2>2. TypeOK'
    BY <2>1, ObserveCounts DEF TypeOK, Unseen
  <2> QED
    BY <2>1, <2>2, DeliveryKeepsDates
<1>2. ASSUME NEW s \in Symbols, DeliverSnapshot(s) PROVE ReplayInv'
  <2>1. /\ Delivered /\ awaiting' = awaiting \ {s} /\ stale' = stale \ {s}
        /\ gapsAtLoss' = gapsAtLoss /\ conns' = conns /\ seqGaps' = seqGaps
        /\ valid' = [valid EXCEPT ![s] = TRUE]
    BY <1>2 DEF DeliverSnapshot
  <2>2. TypeOK'
    BY <2>1, ObserveCounts DEF TypeOK, Unseen
  <2> QED
    BY <2>1, <2>2, DeliveryKeepsDates
<1>3. ASSUME NEW s \in Symbols, DeliverUpdate(s) PROVE ReplayInv'
  <2>1. /\ Delivered /\ awaiting' = awaiting /\ stale' = stale
        /\ gapsAtLoss' = gapsAtLoss /\ conns' = conns /\ ApplyUpdate(s)
    BY <1>3 DEF DeliverUpdate
  <2>2. TypeOK'
    BY <2>1, ObserveCounts, UpdateTypes DEF TypeOK, Unseen
  <2> QED
    BY <2>1, <2>2, DeliveryKeepsDates
<1>4. CASE LoseOther
  <2>1. Lost /\ awaiting' = awaiting /\ stale' = stale /\ gapsAtLoss' = gapsAtLoss
    BY <1>4 DEF LoseOther
  <2>2. TypeOK'
    BY <2>1, LossIsPending DEF TypeOK
  <2> QED
    BY <2>1, <2>2, LossIsPending, LossKeepsDates
<1>5. ASSUME NEW s \in Symbols, LoseUpdate(s) PROVE ReplayInv'
  <2>1. /\ Lost /\ awaiting' = awaiting /\ stale' = stale \cup {s}
        /\ gapsAtLoss' = IF s \in stale THEN gapsAtLoss ELSE [gapsAtLoss EXCEPT ![s] = gaps]
    BY <1>5 DEF LoseUpdate, Misses
  <2>2. gapsAtLoss' \in [Symbols -> Nat]
    BY <2>1 DEF TypeOK
  <2>3. TypeOK'
    BY <2>1, <2>2, LossIsPending DEF TypeOK
  <2>4. \A t \in stale' : (gapsAtLoss'[t] = gapsAtLoss[t] /\ t \in stale) \/ gapsAtLoss'[t] = gaps
    BY <2>1 DEF TypeOK
  <2> QED
    BY <2>1, <2>3, <2>4, LossIsPending, LossKeepsDates
<1>6. ASSUME NEW s \in Symbols, LoseSnapshot(s) PROVE ReplayInv'
  <2>1. /\ Lost /\ awaiting' = awaiting \ {s} /\ stale' = stale \cup {s}
        /\ gapsAtLoss' = [gapsAtLoss EXCEPT ![s] = gaps]
    BY <1>6 DEF LoseSnapshot
  <2>2. gapsAtLoss' \in [Symbols -> Nat]
    BY <2>1 DEF TypeOK
  <2>3. TypeOK'
    BY <2>1, <2>2, LossIsPending DEF TypeOK
  <2>4. \A t \in stale' : (gapsAtLoss'[t] = gapsAtLoss[t] /\ t \in stale) \/ gapsAtLoss'[t] = gaps
    BY <2>1 DEF TypeOK
  <2> QED
    BY <2>1, <2>3, <2>4, LossIsPending, LossKeepsDates
<1>7. CASE Reconnect
  <2>1. /\ conns < MaxConns /\ conns' = conns + 1 /\ next' = 0 /\ awaiting' = Symbols
        /\ seen' = FALSE /\ pending' = FALSE /\ stale' = Symbols
        /\ gapsAtLoss' = [s \in Symbols |-> gaps]
        /\ UNCHANGED <<last, gaps, valid, seqGaps, holes>>
    BY <1>7 DEF Reconnect, tracker, builders
  <2>6. /\ seen' \in BOOLEAN /\ ~seen' /\ pending' \in BOOLEAN /\ ~pending'
        /\ awaiting' \subseteq Symbols /\ stale' \subseteq Symbols
    BY <2>1
  <2>7. conns' \in 0..MaxConns /\ next' \in 0..MaxSeq /\ gapsAtLoss' \in [Symbols -> Nat]
    BY <2>1 DEF TypeOK, ReplayAssumption
  <2>2. TypeOK'
    BY <2>1, <2>6, <2>7 DEF TypeOK
  <2>3. TrackerLevel'
    BY <2>1 DEF TrackerLevel
  <2>4. LossDated'
    BY <2>1 DEF LossDated, TypeOK
  <2>5. GapsAreHoles'
    BY <2>1 DEF GapsAreHoles
  <2> QED
    BY <2>2, <2>3, <2>4, <2>5
<1>8. CASE UNCHANGED vars
  BY <1>8 DEF vars, venue, tracker, builders, history, TypeOK, TrackerLevel, LossDated, GapsAreHoles
<1> QED
  BY <1>1, <1>2, <1>3, <1>4, <1>5, <1>6, <1>7, <1>8 DEF Next

(* The tracker starts level with every connection.                         *)
LEMMA StartsLevel == ASSUME ReplayAssumption, Init PROVE ReplayInv
<1>1. /\ seen \in BOOLEAN /\ ~seen /\ pending \in BOOLEAN /\ ~pending
      /\ awaiting = Symbols /\ stale = Symbols
  BY DEF Init
<1>2. valid \in [Symbols -> BOOLEAN]
  BY DEF Init
<1>3. /\ conns \in 0..MaxConns /\ next \in 0..MaxSeq /\ last \in Unseen..MaxSeq
      /\ next = 0 /\ gaps = 0 /\ holes = 0
      /\ seqGaps \in [Symbols -> Nat] /\ gapsAtLoss \in [Symbols -> Nat]
      /\ \A s \in Symbols : gapsAtLoss[s] = 0
  BY DEF Init, ReplayAssumption, Unseen
<1>4. TypeOK
  BY <1>1, <1>2, <1>3 DEF TypeOK
<1>5. TrackerLevel /\ LossDated /\ GapsAreHoles
  BY <1>1, <1>3 DEF TrackerLevel, LossDated, GapsAreHoles
<1> QED
  BY <1>4, <1>5 DEF ReplayInv

(* The tracker is always level with the connection or knows of a loss.     *)
THEOREM TrackerKeepsInv == ASSUME ReplayAssumption PROVE Spec => []ReplayInv
<1>1. Init => ReplayInv
  BY StartsLevel
<1>2. ReplayInv /\ [Next]_vars => ReplayInv'
  BY StepKeepsInv
<1> QED
  BY <1>1, <1>2, PTL DEF Spec

(* Exactly one gap is counted for each run of lost messages.               *)
THEOREM TrackerCountsHoles == ASSUME ReplayAssumption PROVE Spec => []GapsAreHoles
<1>1. ReplayInv => GapsAreHoles
  BY DEF ReplayInv
<1> QED
  BY <1>1, TrackerKeepsInv, PTL

(* No book misses an update without a gap counted since: the information   *)
(* that a book is stale is always there, in the tracker.                   *)
THEOREM StalenessIsTraced == ASSUME ReplayAssumption PROVE Spec => []StalenessLeavesTrace
<1>1. ReplayInv => StalenessLeavesTrace
  <2> SUFFICES ASSUME ReplayInv, NEW s \in Symbols, s \in stale, s \notin awaiting, ~pending
               PROVE  gaps > gapsAtLoss[s]
    BY DEF StalenessLeavesTrace
  <2>1. gapsAtLoss[s] < gaps
    BY DEF ReplayInv, LossDated
  <2> QED
    BY <2>1 DEF ReplayInv, TypeOK
<1> QED
  BY <1>1, TrackerKeepsInv, PTL
-----------------------------------------------------------------------------
(* The rows in flight, whatever they are told: `order` lists the samples   *)
(* that were kept, and those from `next` on are the ones still here.       *)
IsSeq(s) == s \in Seq({s[i] : i \in 1..Len(s)})
IsRow(r) ==
    r = [index |-> r.index, ts |-> r.ts, at |-> r.at, entry |-> r.entry, feats |-> r.feats,
         valid |-> r.valid, vol |-> r.vol, ret |-> r.ret, maker |-> r.maker, taker |-> r.taker, tb |-> r.tb]
IsQueue(p) == p = [order |-> p.order, next |-> p.next, rows |-> p.rows, remaining |-> p.remaining]
Waiting(p) == {p.order[i] : i \in p.next..Len(p.order)}
QueueInv(p, k) ==
    /\ IsQueue(p) /\ p.order \in Seq(Nat) /\ p.next \in 1..(Len(p.order) + 1) /\ Rising(p.order)
    /\ \A i \in 1..Len(p.order) : p.order[i] < k
    /\ p.rows = [i \in Waiting(p) |-> p.rows[i]] /\ DOMAIN p.remaining = Waiting(p)
    /\ \A i \in Waiting(p) : IsRow(p.rows[i]) /\ p.rows[i].index = i /\ p.rows[i].valid

(* A sequence is one of its own elements, and one set after another gives  *)
(* the elements of both.                                                   *)
LEMMA ConcatIsSeq ==
    ASSUME NEW s, NEW t, IsSeq(s), IsSeq(t)
    PROVE  /\ IsSeq(s \o t) /\ Len(s) \in Nat /\ Len(t) \in Nat /\ Len(s \o t) = Len(s) + Len(t)
           /\ \A i \in 1..Len(s) : (s \o t)[i] = s[i]
           /\ \A i \in 1..Len(t) : (s \o t)[Len(s) + i] = t[i]
<1> DEFINE S == {s[i] : i \in 1..Len(s)}
           T == {t[i] : i \in 1..Len(t)}
           U == S \cup T
           V == {(s \o t)[i] : i \in 1..Len(s \o t)}
<1>1. s \in Seq(U) /\ t \in Seq(U)
  BY DEF IsSeq
<1>2. /\ s \o t \in Seq(U) /\ Len(s) \in Nat /\ Len(t) \in Nat /\ Len(s \o t) = Len(s) + Len(t)
      /\ \A i \in 1..Len(s) : (s \o t)[i] = s[i]
      /\ \A i \in 1..Len(t) : (s \o t)[Len(s) + i] = t[i]
  <2> HIDE DEF U
  <2> QED BY <1>1
<1>3. s \o t \in Seq(V)
  <2>1. Len(s \o t) \in Nat /\ s \o t \in [1..Len(s \o t) -> U]
    <3> HIDE DEF S, T, U, V
    <3>1. PICK c : c = s \o t
      OBVIOUS
    <3>2. c \in Seq(U)
      BY <1>2, <3>1
    <3>3. Len(c) \in Nat /\ c \in [1..Len(c) -> U]
      BY ONLY <3>2
    <3> QED BY <3>1, <3>3
  <2> DEFINE c == s \o t
  <2> HIDE DEF c, U
  <2>2. c \in [1..Len(c) -> {c[i] : i \in 1..Len(c)}]
    BY <2>1 DEF c
  <2>3. c \in Seq({c[i] : i \in 1..Len(c)})
    BY <2>1, <2>2, TableIsSeq
  <2> QED BY <2>3 DEF c
<1> QED BY <1>2, <1>3 DEF IsSeq

(* The order holds each sample once.                                       *)
LEMMA WaitingCount ==
    ASSUME NEW p, NEW k, QueueInv(p, k)
    PROVE  IsFiniteSet(Waiting(p)) /\ Cardinality(Waiting(p)) = Len(p.order) - p.next + 1
<1>1. /\ p.order \in Seq(Nat) /\ p.next \in 1..(Len(p.order) + 1) /\ Len(p.order) \in Nat
      /\ \A i, j \in 1..Len(p.order) : i < j => p.order[i] < p.order[j]
      /\ \A i \in 1..Len(p.order) : p.order[i] \in Nat
  BY DEF QueueInv, Rising
<1>2. PICK a \in Int, b \in Int : a = p.next /\ b = Len(p.order) /\ a <= b + 1
  BY <1>1
<1>3. IsFiniteSet(a..b) /\ Cardinality(a..b) = b - a + 1
  <2>1. IsFiniteSet(a..b) /\ Cardinality(a..b) = IF a > b THEN 0 ELSE b - a + 1
    BY FS_Interval
  <2>2. (a > b => b - a + 1 = 0) /\ a <= b + 1
    BY <1>2
  <2> QED BY <2>1, <2>2
<1> DEFINE f == [i \in a..b |-> p.order[i]]
<1>4. f \in Bijection(a..b, Waiting(p))
  <2>1. \A i, j \in a..b : f[i] = f[j] => i = j
    BY <1>1, <1>2
  <2>2. f \in [a..b -> Waiting(p)]
    BY <1>2 DEF Waiting
  <2>3. \A x \in Waiting(p) : \E i \in a..b : f[i] = x
    BY <1>2 DEF Waiting
  <2> QED BY <2>1, <2>2, <2>3 DEF Bijection, Injection, Surjection, IsInjective
<1>5. ExistsBijection(a..b, Waiting(p))
  BY <1>4 DEF ExistsBijection
<1> QED BY <1>2, <1>3, <1>5, FS_Bijection

(* Where the least of the rows that are not ready stands.                  *)
LEMMA HeadExists ==
    ASSUME NEW a \in Nat, NEW b \in Nat, a <= b + 1, NEW R
    PROVE  \E n \in 0..(b - a + 1) :
              (\A i \in a..b : i < a + n => i \in R) /\ (a + n \in a..b => a + n \notin R)
<1> DEFINE M == 0..(b - a + 1)
           T == {m \in M : a + m \in a..b => a + m \notin R}
<1>1. b - a + 1 \in T
  OBVIOUS
<1>2. PICK n \in T : \A y \in T : n <= y
  <2>1. T \subseteq Nat /\ T # {}
    BY <1>1
  <2> HIDE DEF T
  <2> QED BY <2>1, LeastExists
<1>3. n \in M /\ (a + n \in a..b => a + n \notin R)
  OBVIOUS
<1>4. PICK m \in Nat : m = n /\ m <= b - a + 1
  BY <1>3
<1>5. ASSUME NEW i \in a..b, i < a + m PROVE i \in R
  <2>1. i - a \in M /\ ~(m <= i - a) /\ a + (i - a) = i
    BY <1>4, <1>5
  <2>2. i - a \notin T
    <3> HIDE DEF T
    <3> QED BY <1>2, <1>4, <2>1
  <2> QED BY <2>1, <2>2
<1> QED BY <1>3, <1>4, <1>5

(* How many rows at the head of the order are ready is well defined, and a *)
(* head that is ready counts.                                              *)
LEMMA ReadyHead ==
    ASSUME NEW p, NEW a \in Nat, NEW b \in Nat, a = p.next, b = Len(p.order), a <= b + 1
    PROVE  /\ Samples!ReadyCount(p) \in 0..(b - a + 1)
           /\ a <= b /\ p.remaining[p.order[a]] <= 0 => Samples!ReadyCount(p) # 0
<1> DEFINE R == {i \in a..b : p.remaining[p.order[i]] <= 0}
           M == 0..(b - a + 1)
           AtHead(n) == (\A i \in a..b : i < a + n => i \in R) /\ (a + n \in a..b => a + n \notin R)
           c == Samples!ReadyCount(p)
<1>1. \E n \in M : AtHead(n)
  <2> HIDE DEF R
  <2> QED BY HeadExists
<1>2. c = CHOOSE n \in M : AtHead(n)
  BY DEF Samples!ReadyCount
<1>3. c \in M /\ AtHead(c)
  <2> HIDE DEF c, M, AtHead
  <2> QED BY <1>1, <1>2
<1>4. a <= b /\ p.remaining[p.order[a]] <= 0 => c # 0
  <2> SUFFICES ASSUME a <= b, p.remaining[p.order[a]] <= 0, c = 0 PROVE FALSE
    OBVIOUS
  <2>1. a \in R
    OBVIOUS
  <2>2. a + 0 \in a..b => a + 0 \notin R
    <3> HIDE DEF R, c
    <3> QED BY <1>3
  <2> HIDE DEF R
  <2> QED BY <2>1, <2>2
<1> QED
  <2> HIDE DEF c
  <2> QED BY <1>3, <1>4 DEF c

(* What the places of a queue hold.                                        *)
LEMMA QueueTypes ==
    ASSUME NEW p, NEW k \in Nat, QueueInv(p, k)
    PROVE  /\ p.order \in Seq(Nat) /\ Len(p.order) \in Nat /\ p.next \in Nat
           /\ 1 <= p.next /\ p.next <= Len(p.order) + 1
           /\ \A i \in 1..Len(p.order) : p.order[i] \in Nat /\ p.order[i] < k
           /\ \A i, j \in 1..Len(p.order) : i < j => p.order[i] < p.order[j]
<1>1. p.order \in Seq(Nat) /\ p.next \in 1..(Len(p.order) + 1) /\ \A i \in 1..Len(p.order) : p.order[i] < k
  BY DEF QueueInv
<1>2. Len(p.order) \in Nat /\ DOMAIN p.order = 1..Len(p.order) /\ \A i \in 1..Len(p.order) : p.order[i] \in Nat
  BY <1>1
<1>3. \A i, j \in 1..Len(p.order) : i < j => p.order[i] < p.order[j]
  <2>1. Rising(p.order)
    BY DEF QueueInv
  <2> QED BY <1>2, <2>1 DEF Rising
<1> QED BY <1>1, <1>2, <1>3

(* Taking n elements of a rising sequence from the place a on leaves the   *)
(* rest of it.                                                             *)
StandsIn(s, a, b, n) == s \in Seq(Nat) /\ Rising(s) /\ b = Len(s) /\ 1 <= a /\ n <= b - a + 1
LeavesRest(s, a, b, n, gone) ==
    /\ \A i \in 1..n : gone[i] = s[a + i - 1]
    /\ {s[i] : i \in a..b} \ {gone[i] : i \in 1..n} = {s[i] : i \in (a + n)..b}

(* The elements taken are the ones at their places, and each stands once.  *)
LEMMA HeadOfRising ==
    ASSUME NEW s, NEW a \in Nat, NEW b \in Nat, NEW n \in Nat, StandsIn(s, a, b, n),
           NEW gone, gone = SubSeq(s, a, a + n - 1)
    PROVE  LeavesRest(s, a, b, n, gone)
<1>0. /\ s \in Seq(Nat) /\ b = Len(s) /\ 1 <= a /\ n <= b - a + 1
      /\ \A i, j \in 1..b : i < j => s[i] < s[j]
  <2>1. s \in Seq(Nat) /\ Rising(s) /\ b = Len(s) /\ 1 <= a /\ n <= b - a + 1
    BY DEF StandsIn
  <2>2. DOMAIN s = 1..b
    BY <2>1
  <2> QED BY <2>1, <2>2 DEF Rising
<1> DEFINE keys == {gone[i] : i \in 1..n}
<1>1. \A i \in 1..n : gone[i] = s[a + i - 1]
  <2>1. a + n - 1 \in Nat /\ a + n - 1 <= b /\ (a + n - 1) - a + 1 = n
    BY <1>0
  <2>2. \A i \in 1..((a + n - 1) - a + 1) : SubSeq(s, a, a + n - 1)[i] = s[a + i - 1]
    BY <1>0, <2>1, SubSeqProperties
  <2> QED BY <2>1, <2>2
<1>2. \A i \in 1..b : s[i] \in Nat
  BY <1>0
<1>3. \A i \in 1..n : a + i - 1 \in a..(a + n - 1) /\ a + i - 1 \in a..b
  BY <1>0
<1>4. \A j \in a..(a + n - 1) : j - a + 1 \in 1..n /\ a + (j - a + 1) - 1 = j
  BY <1>0
<1>5. \A i \in (a + n)..b, j \in a..(a + n - 1) : i \in 1..b /\ j \in 1..b /\ j < i /\ i \in a..b
  BY <1>0
<1>6. \A i \in a..b : i \in a..(a + n - 1) \/ i \in (a + n)..b
  BY <1>0
<1>7. \A i \in (a + n)..b : i \in a..b
  BY <1>0
<1>8. ASSUME NEW i \in (a + n)..b PROVE s[i] \notin keys
  <2> SUFFICES ASSUME NEW j \in 1..n, s[i] = gone[j] PROVE FALSE
    OBVIOUS
  <2>1. PICK m \in a..(a + n - 1) : m = a + j - 1
    BY <1>3
  <2>2. s[m] = s[i]
    BY <1>1, <2>1
  <2>3. s[m] < s[i] /\ s[m] \in Nat
    BY <1>0, <1>2, <1>5
  <2> QED BY <2>2, <2>3
<1>9. ASSUME NEW i \in a..b, s[i] \notin keys PROVE i \in (a + n)..b
  <2> SUFFICES ASSUME i \in a..(a + n - 1) PROVE FALSE
    BY <1>6
  <2>1. PICK j \in 1..n : j = i - a + 1 /\ a + j - 1 = i
    BY <1>4
  <2>2. gone[j] = s[i]
    BY <1>1, <2>1
  <2> QED BY <1>9, <2>2
<1> QED BY <1>1, <1>7, <1>8, <1>9 DEF LeavesRest

(* Flushing takes the first n rows off the order, in order, and leaves the *)
(* rest as they were.                                                      *)
LEMMA FlushTakesHead ==
    ASSUME NEW p, NEW k \in Nat, QueueInv(p, k), NEW n \in Nat, n <= Len(p.order) - p.next + 1,
           NEW q, q = Samples!Flush(p, n)
    PROVE  /\ QueueInv(q.p, k) /\ q.p.next = p.next + n /\ q.p.order = p.order
           /\ Waiting(q.p) \subseteq Waiting(p)
           /\ \A i \in Waiting(q.p) : q.p.rows[i] = p.rows[i]
           /\ IsSeq(q.out) /\ Len(q.out) = n
           /\ \A i \in 1..n : q.out[i] = p.rows[p.order[p.next + i - 1]]
           /\ \A i \in Waiting(p) : i \in Waiting(q.p) \/ \E j \in 1..n : i = p.order[p.next + j - 1]
<1>0. PICK a \in Nat, b \in Nat : a = p.next /\ b = Len(p.order) /\ 1 <= a /\ a <= b + 1
  BY QueueTypes
<1>1. n <= b - a + 1 /\ a + n \in 1..(b + 1)
  BY <1>0
<1>2. /\ p.order \in Seq(Nat) /\ \A i, j \in 1..b : i < j => p.order[i] < p.order[j]
  BY <1>0, QueueTypes
<1> DEFINE gone == SubSeq(p.order, p.next, p.next + n - 1)
           keys == {gone[i] : i \in 1..n}
<1>3. /\ \A i \in 1..n : gone[i] = p.order[a + i - 1]
      /\ {p.order[i] : i \in a..b} \ keys = {p.order[i] : i \in (a + n)..b}
  <2>1. gone = SubSeq(p.order, a, a + n - 1)
    BY <1>0
  <2>2. StandsIn(p.order, a, b, n)
    BY <1>0, <1>1, <1>2 DEF StandsIn, QueueInv
  <2> HIDE DEF gone
  <2>3. LeavesRest(p.order, a, b, n, gone)
    BY <2>1, <2>2, HeadOfRising
  <2> QED BY <2>3 DEF LeavesRest, keys
<1> HIDE DEF gone, keys
<1>5. Waiting(p) = {p.order[i] : i \in a..b}
  BY <1>0 DEF Waiting
<1>6. Waiting(p) \ keys = {p.order[i] : i \in (a + n)..b}
  BY <1>3, <1>5
<1>7. /\ q.p = [p EXCEPT !.next = @ + n, !.rows = Samples!Drop(@, keys), !.remaining = Samples!Drop(@, keys)]
      /\ q.out = [i \in 1..n |-> p.rows[gone[i]]]
  BY DEF Samples!Flush, gone, keys
<1>8. /\ q.p = [order |-> p.order, next |-> a + n, rows |-> Samples!Drop(p.rows, keys),
                remaining |-> Samples!Drop(p.remaining, keys)]
  <2>1. IsQueue(p)
    BY DEF QueueInv
  <2> QED BY <1>0, <1>7, <2>1 DEF IsQueue
<1>9. /\ IsQueue(q.p) /\ q.p.order = p.order /\ q.p.next = a + n /\ q.p.rows = Samples!Drop(p.rows, keys)
      /\ q.p.remaining = Samples!Drop(p.remaining, keys)
  BY <1>8 DEF IsQueue
<1>10. Waiting(q.p) = Waiting(p) \ keys
  BY <1>6, <1>9, <1>0 DEF Waiting
<1>11. DOMAIN p.rows = Waiting(p) /\ DOMAIN p.remaining = Waiting(p)
  BY DEF QueueInv
<1>12. q.p.rows = [i \in Waiting(q.p) |-> p.rows[i]]
  BY <1>9, <1>10, <1>11 DEF Samples!Drop
<1>121. DOMAIN q.p.remaining = Waiting(q.p)
  BY <1>9, <1>10, <1>11 DEF Samples!Drop
<1>13. QueueInv(q.p, k)
  <2>1. \A i \in Waiting(q.p) : q.p.rows[i] = p.rows[i] /\ i \in Waiting(p)
    BY <1>10, <1>12
  <2>2. q.p.rows = [i \in Waiting(q.p) |-> q.p.rows[i]]
    BY <1>12
  <2>3. q.p.next \in 1..(Len(q.p.order) + 1)
    BY <1>0, <1>1, <1>9
  <2>4. \A i \in Waiting(p) : IsRow(p.rows[i]) /\ p.rows[i].index = i /\ p.rows[i].valid
    BY DEF QueueInv
  <2>5. Rising(q.p.order) /\ q.p.order \in Seq(Nat) /\ \A i \in 1..Len(q.p.order) : q.p.order[i] < k
    BY <1>9 DEF QueueInv
  <2> QED BY <1>9, <1>121, <2>1, <2>2, <2>3, <2>4, <2>5 DEF QueueInv
<1>14. IsSeq(q.out) /\ Len(q.out) = n
  <2>1. q.out \in [1..n -> {q.out[i] : i \in 1..n}]
    BY <1>7
  <2>2. q.out \in Seq({q.out[i] : i \in 1..n})
    BY <2>1, TableIsSeq
  <2>3. Len(q.out) = n
    BY <2>1, <2>2
  <2> QED BY <2>2, <2>3 DEF IsSeq
<1>15. \A i \in 1..n : q.out[i] = p.rows[p.order[p.next + i - 1]]
  BY <1>0, <1>3, <1>7
<1>16. \A i \in Waiting(p) : i \in Waiting(q.p) \/ \E j \in 1..n : i = p.order[p.next + j - 1]
  <2>1. \A i \in keys : \E j \in 1..n : i = p.order[p.next + j - 1]
    BY <1>0, <1>3 DEF keys
  <2> QED BY <1>10, <2>1
<1> QED BY <1>0, <1>9, <1>10, <1>12, <1>13, <1>14, <1>15, <1>16

(* Labels change nothing else of a row.                                    *)
LEMMA ResolvedKeeps ==
    ASSUME NEW row, IsRow(row), NEW done, NEW outcomes,
           NEW r, r = Samples!Resolved(row, done, outcomes)
    PROVE  /\ IsRow(r) /\ r.index = row.index /\ r.ts = row.ts /\ r.at = row.at /\ r.entry = row.entry
           /\ r.feats = row.feats /\ r.valid = row.valid /\ r.vol = row.vol
<1>1. PICK a, b, c, d : r = [row EXCEPT !.ret = a, !.maker = b, !.taker = c, !.tb = d]
  BY DEF Samples!Resolved
<1>2. r = [index |-> row.index, ts |-> row.ts, at |-> row.at, entry |-> row.entry, feats |-> row.feats,
           valid |-> row.valid, vol |-> row.vol, ret |-> a, maker |-> b, taker |-> c, tb |-> d]
  BY <1>1 DEF IsRow
<1> QED BY <1>2 DEF IsRow

(* Telling the rows in flight their labels moves none of them.             *)
LEMMA TakingKeepsQueue ==
    ASSUME NEW p, NEW k \in Nat, QueueInv(p, k), NEW done, NEW outcomes,
           NEW q, q = Samples!TakeLabels(p, done, outcomes)
    PROVE  /\ QueueInv(q, k) /\ q.order = p.order /\ q.next = p.next /\ Waiting(q) = Waiting(p)
           /\ \A i \in Waiting(p) : q.rows[i] = Samples!Resolved(p.rows[i], done, outcomes)
<1>1. IsQueue(p) /\ DOMAIN p.rows = Waiting(p) /\ DOMAIN p.remaining = Waiting(p)
  BY DEF QueueInv
<1>11. q = [p EXCEPT !.rows = [i \in DOMAIN p.rows |-> Samples!Resolved(p.rows[i], done, outcomes)],
                     !.remaining = [i \in DOMAIN p.remaining |-> p.remaining[i] - Samples!LabelsOf(i, done, outcomes)]]
  BY DEF Samples!TakeLabels
<1>2. PICK rem : q = [p EXCEPT !.rows = [i \in DOMAIN p.rows |-> Samples!Resolved(p.rows[i], done, outcomes)],
                               !.remaining = rem] /\ DOMAIN rem = DOMAIN p.remaining
  <2>1. PICK rem : rem = [i \in DOMAIN p.remaining |-> p.remaining[i] - Samples!LabelsOf(i, done, outcomes)]
    OBVIOUS
  <2> QED BY <1>11, <2>1
<1>3. q = [order |-> p.order, next |-> p.next, remaining |-> rem,
           rows |-> [i \in Waiting(p) |-> Samples!Resolved(p.rows[i], done, outcomes)]]
  BY <1>1, <1>2 DEF IsQueue
<1>4. /\ IsQueue(q) /\ q.order = p.order /\ q.next = p.next /\ q.remaining = rem
      /\ q.rows = [i \in Waiting(p) |-> Samples!Resolved(p.rows[i], done, outcomes)]
  BY <1>3 DEF IsQueue
<1>5. Waiting(q) = Waiting(p)
  BY <1>4 DEF Waiting
<1>6. ASSUME NEW i \in Waiting(p) PROVE IsRow(q.rows[i]) /\ q.rows[i].index = i /\ q.rows[i].valid
  <2>1. IsRow(p.rows[i]) /\ p.rows[i].index = i /\ p.rows[i].valid
    BY DEF QueueInv
  <2>2. q.rows[i] = Samples!Resolved(p.rows[i], done, outcomes)
    BY <1>4
  <2> QED BY <2>1, <2>2, ResolvedKeeps
<1> QED BY <1>1, <1>2, <1>4, <1>5, <1>6 DEF QueueInv

(* A row added to the rows in flight is the last of them.                  *)
LEMMA AddingKeepsQueue ==
    ASSUME NEW p, NEW k \in Nat, QueueInv(p, k), NEW row, IsRow(row), row.index = k, row.valid, NEW need,
           NEW q, q = Samples!Joined(p, k, row, need)
    PROVE  /\ QueueInv(q, k + 1) /\ q.order = Append(p.order, k) /\ q.next = p.next
           /\ Waiting(q) = Waiting(p) \cup {k} /\ k \notin Waiting(p) /\ q.rows[k] = row
           /\ \A i \in Waiting(p) : q.rows[i] = p.rows[i]
<1>0. PICK a \in Nat, b \in Nat : a = p.next /\ b = Len(p.order) /\ 1 <= a /\ a <= b + 1
  BY QueueTypes
<1>1. /\ p.order \in Seq(Nat) /\ \A i \in 1..b : p.order[i] \in Nat /\ p.order[i] < k
      /\ \A i, j \in 1..b : i < j => p.order[i] < p.order[j]
  BY <1>0, QueueTypes
<1>2. IsQueue(p) /\ DOMAIN p.rows = Waiting(p) /\ DOMAIN p.remaining = Waiting(p)
  BY DEF QueueInv
<1>3. PICK s, r, m : /\ q = [p EXCEPT !.order = s, !.rows = r, !.remaining = m]
                     /\ s = Append(p.order, k) /\ r = Samples!Update1(p.rows, k, row)
                     /\ m = Samples!Update1(p.remaining, k, need)
  BY DEF Samples!Joined
<1>31. q = [order |-> s, next |-> p.next, rows |-> r, remaining |-> m]
  BY ONLY <1>2, <1>3 DEF IsQueue
<1>32. IsQueue(q) /\ q.order = s /\ q.next = p.next /\ q.rows = r /\ q.remaining = m
  BY ONLY <1>31 DEF IsQueue
<1>4. IsQueue(q) /\ q.order = Append(p.order, k) /\ q.next = a /\ q.rows = Samples!Update1(p.rows, k, row)
  BY <1>0, <1>3, <1>32
<1>5. /\ q.order \in Seq(Nat) /\ Len(q.order) = b + 1 /\ q.order[b + 1] = k
      /\ \A i \in 1..b : q.order[i] = p.order[i]
  BY <1>0, <1>1, <1>4, AppendProperties
<1>6. Waiting(p) = {p.order[i] : i \in a..b} /\ Waiting(q) = {q.order[i] : i \in a..(b + 1)}
  BY <1>0, <1>4, <1>5 DEF Waiting
<1>7. k \notin Waiting(p)
  <2>1. \A i \in a..b : i \in 1..b
    BY <1>0
  <2>2. \A i \in a..b : p.order[i] # k
    BY <1>1, <2>1
  <2> QED BY <1>6, <2>2
<1>8. Waiting(q) = Waiting(p) \cup {k}
  <2>1. \A i \in a..(b + 1) : i \in a..b \/ i = b + 1
    BY <1>0
  <2>2. \A i \in a..b : i \in 1..b /\ i \in a..(b + 1)
    BY <1>0
  <2>3. b + 1 \in a..(b + 1)
    BY <1>0
  <2> DEFINE e == b + 1
  <2>4. Waiting(q) = {q.order[i] : i \in a..e} /\ q.order[e] = k /\ e \in a..e /\ \A i \in a..e : i \in a..b \/ i = e
    BY <1>5, <1>6, <2>1, <2>3
  <2>5. \A i \in a..b : i \in 1..b /\ i \in a..e /\ q.order[i] = p.order[i]
    BY <1>5, <2>2
  <2> HIDE DEF e
  <2>6. ASSUME NEW x \in Waiting(q) PROVE x \in Waiting(p) \cup {k}
    <3>1. PICK i \in a..e : x = q.order[i]
      BY <2>4
    <3>2. i \in a..b \/ x = k
      BY <2>4, <3>1
    <3> QED BY <1>6, <2>5, <3>1, <3>2
  <2>7. ASSUME NEW x \in Waiting(p) \cup {k} PROVE x \in Waiting(q)
    <3>1. x = k \/ \E i \in a..b : x = p.order[i]
      BY <1>6
    <3> QED BY <2>4, <2>5, <3>1
  <2> QED BY <2>6, <2>7
<1>9. q.rows = [i \in Waiting(q) |-> IF i = k THEN row ELSE p.rows[i]]
  BY <1>2, <1>4, <1>8 DEF Samples!Update1
<1>10. q.rows[k] = row /\ \A i \in Waiting(p) : q.rows[i] = p.rows[i]
  BY <1>7, <1>8, <1>9
<1>11. Rising(q.order)
  <2>1. DOMAIN q.order = 1..(b + 1)
    BY <1>5
  <2>2. SUFFICES ASSUME NEW i \in 1..(b + 1), NEW j \in 1..(b + 1), i < j PROVE q.order[i] < q.order[j]
    BY <2>1 DEF Rising
  <2>3. i \in 1..b /\ (j \in 1..b \/ j = b + 1)
    BY <1>0, <2>2
  <2> QED BY <1>1, <1>5, <2>2, <2>3
<1>12. q.next \in 1..(Len(q.order) + 1)
  BY <1>0, <1>4, <1>5
<1>13. \A i \in 1..Len(q.order) : q.order[i] < k + 1
  <2>1. ASSUME NEW i \in 1..(b + 1) PROVE q.order[i] < k + 1
    <3>1. i \in 1..b \/ i = b + 1
      BY <1>0
    <3> QED BY <1>1, <1>5, <3>1
  <2> QED BY <1>5, <2>1
<1>14. \A i \in Waiting(q) : IsRow(q.rows[i]) /\ q.rows[i].index = i /\ q.rows[i].valid
  <2>1. \A i \in Waiting(p) : IsRow(p.rows[i]) /\ p.rows[i].index = i /\ p.rows[i].valid
    BY DEF QueueInv
  <2> QED BY <1>8, <1>10, <2>1
<1>15. q.rows = [i \in Waiting(q) |-> q.rows[i]]
  BY <1>9
<1>16. DOMAIN q.remaining = Waiting(q)
  BY <1>2, <1>3, <1>32, <1>8 DEF Samples!Update1
<1> QED BY <1>0, <1>16, <1>4, <1>5, <1>7, <1>8, <1>10, <1>11, <1>12, <1>13, <1>14, <1>15 DEF QueueInv

(* What has been written, and what still waits: every sample so far is one *)
(* or the other, and the valid ones are written in order, ahead of the     *)
(* ones that wait.                                                         *)
FileInv(f, p, k) ==
    /\ IsSeq(f)
    /\ \A i \in 1..Len(f) : IsRow(f[i]) /\ f[i].index \in Nat /\ f[i].index < k
    /\ \A x \in 0..(k - 1) : x \in Waiting(p) \/ \E i \in 1..Len(f) : f[i].index = x
    /\ Len(f) + Cardinality(Waiting(p)) = k
    /\ \A i, j \in 1..Len(f) : i < j /\ f[i].valid /\ f[j].valid => f[i].index < f[j].index
    /\ \A i \in 1..Len(f), j \in Waiting(p) : f[i].valid => f[i].index < j

(* Every place of two sequences set one after the other is one of either.  *)
LEMMA PlaceOfConcat ==
    ASSUME NEW m \in Nat, NEW n \in Nat, NEW i \in 1..(m + n)
    PROVE  i \in 1..m \/ \E j \in 1..n : i = m + j
<1> SUFFICES ASSUME i \notin 1..m PROVE i - m \in 1..n /\ i = m + (i - m)
  OBVIOUS
<1> QED OBVIOUS

(* What is left when n of the places from a to b are taken.                *)
LEMMA WhatIsLeft ==
    ASSUME NEW a \in Nat, NEW b \in Nat, a <= b + 1, NEW n \in Nat, n <= b - a + 1
    PROVE  b - a + 1 \in Nat /\ b - (a + n) + 1 \in Nat /\ b - (a + n) + 1 = (b - a + 1) - n
OBVIOUS

(* Flushing writes the rows that leave after the ones already written.     *)
LEMMA FlushKeepsFile ==
    ASSUME NEW p, NEW k \in Nat, QueueInv(p, k), NEW n \in Nat, n <= Len(p.order) - p.next + 1,
           NEW q, q = Samples!Flush(p, n), NEW f, FileInv(f, p, k)
    PROVE  /\ QueueInv(q.p, k) /\ FileInv(f \o q.out, q.p, k)
           /\ Waiting(q.p) \subseteq Waiting(p) /\ \A i \in Waiting(q.p) : q.p.rows[i] = p.rows[i]
           /\ \A i \in 1..Len(q.out) : \E j \in Waiting(p) : q.out[i] = p.rows[j]
           /\ Cardinality(Waiting(q.p)) = Cardinality(Waiting(p)) - n /\ IsSeq(q.out)
<1>0. PICK a \in Nat, b \in Nat : a = p.next /\ b = Len(p.order) /\ 1 <= a /\ a <= b + 1
  BY QueueTypes
<1>1. /\ p.order \in Seq(Nat) /\ \A i \in 1..b : p.order[i] \in Nat /\ p.order[i] < k
      /\ \A i, j \in 1..b : i < j => p.order[i] < p.order[j]
  BY <1>0, QueueTypes
<1>2. /\ QueueInv(q.p, k) /\ q.p.next = p.next + n /\ q.p.order = p.order
      /\ Waiting(q.p) \subseteq Waiting(p)
      /\ \A i \in Waiting(q.p) : q.p.rows[i] = p.rows[i]
      /\ IsSeq(q.out) /\ Len(q.out) = n
      /\ \A i \in 1..n : q.out[i] = p.rows[p.order[p.next + i - 1]]
      /\ \A i \in Waiting(p) : i \in Waiting(q.p) \/ \E j \in 1..n : i = p.order[p.next + j - 1]
  BY FlushTakesHead
<1>3. n <= b - a + 1
  BY <1>0
<1>4. \A i \in 1..n : a + i - 1 \in a..b /\ a + i - 1 \in 1..b
  BY <1>0, <1>3
<1>5. /\ \A i \in a..b : p.order[i] \in Waiting(p)
      /\ \A i \in Waiting(p) : IsRow(p.rows[i]) /\ p.rows[i].index = i /\ p.rows[i].valid
  BY <1>0 DEF Waiting, QueueInv
<1> DEFINE out == q.out
           key(i) == p.order[a + i - 1]
<1>6. ASSUME NEW i \in 1..n
      PROVE  key(i) \in Waiting(p) /\ out[i] = p.rows[key(i)] /\ IsRow(out[i]) /\ out[i].index = key(i) /\ out[i].valid
             /\ key(i) \in Nat /\ key(i) < k
  <2>1. key(i) \in Waiting(p) /\ key(i) \in Nat /\ key(i) < k
    BY <1>1, <1>4, <1>5
  <2>2. out[i] = p.rows[key(i)]
    BY <1>0, <1>2
  <2> HIDE DEF key, out
  <2> QED BY <1>5, <2>1, <2>2
<1>7. \A i, j \in 1..n : i < j => key(i) < key(j)
  <2> SUFFICES ASSUME NEW i \in 1..n, NEW j \in 1..n, i < j PROVE key(i) < key(j)
    OBVIOUS
  <2>0. a + i - 1 < a + j - 1
    OBVIOUS
  <2>1. a + i - 1 \in 1..b /\ a + j - 1 \in 1..b
    BY <1>4
  <2> QED BY <1>1, <2>0, <2>1
<1>8. \A i \in 1..n : \A j \in Waiting(q.p) : key(i) < j
  <2>1. Waiting(q.p) = {p.order[i] : i \in (a + n)..b}
    BY <1>0, <1>2 DEF Waiting
  <2> SUFFICES ASSUME NEW i \in 1..n, NEW j \in (a + n)..b PROVE key(i) < p.order[j]
    BY <2>1
  <2>2. a + i - 1 \in 1..b /\ j \in 1..b /\ a + i - 1 < j
    BY <1>0, <1>4
  <2> QED BY <1>1, <2>2
<1>9. \A x \in Waiting(p) : x \in Waiting(q.p) \/ \E i \in 1..n : x = key(i)
  BY <1>0, <1>2
<1>10. /\ IsFiniteSet(Waiting(p)) /\ Cardinality(Waiting(p)) = b - a + 1
       /\ Cardinality(Waiting(q.p)) = b - (a + n) + 1
  BY <1>0, <1>2, WaitingCount
<1>11. PICK c \in Nat, d \in Nat : c = Cardinality(Waiting(p)) /\ d = Cardinality(Waiting(q.p)) /\ d = c - n
  <2>1. b - a + 1 \in Nat /\ b - (a + n) + 1 \in Nat /\ b - (a + n) + 1 = (b - a + 1) - n
    <3>1. a \in Nat /\ b \in Nat /\ n \in Nat /\ a <= b + 1 /\ n <= b - a + 1
      BY <1>0, <1>3
    <3> QED BY ONLY <3>1, WhatIsLeft
  <2> QED BY <1>10, <2>1
<1> DEFINE g == f \o out
<1>12. /\ IsSeq(g) /\ Len(f) \in Nat /\ Len(g) = Len(f) + n
       /\ \A i \in 1..Len(f) : g[i] = f[i]
       /\ \A i \in 1..n : g[Len(f) + i] = out[i]
  <2>1. IsSeq(f) /\ IsSeq(out) /\ Len(out) = n
    BY <1>2 DEF FileInv
  <2> HIDE DEF out
  <2> QED BY <2>1, ConcatIsSeq
<1>13. PICK m \in Nat : m = Len(f)
  BY <1>12
<1>14. /\ Len(g) = m + n /\ \A i \in 1..m : g[i] = f[i]
       /\ \A i \in 1..n : g[m + i] = out[i]
  BY <1>12, <1>13
<1>15. /\ \A i \in 1..m : IsRow(f[i]) /\ f[i].index \in Nat /\ f[i].index < k
       /\ \A x \in 0..(k - 1) : x \in Waiting(p) \/ \E i \in 1..m : f[i].index = x
       /\ m + c = k
       /\ \A i, j \in 1..m : i < j /\ f[i].valid /\ f[j].valid => f[i].index < f[j].index
       /\ \A i \in 1..m, j \in Waiting(p) : f[i].valid => f[i].index < j
  BY <1>11, <1>13 DEF FileInv
<1>16. /\ \A i \in 1..n : /\ IsRow(out[i]) /\ out[i].index = key(i) /\ key(i) \in Nat /\ key(i) < k
                          /\ key(i) \in Waiting(p)
       /\ \A i \in 1..m : i \in 1..(m + n)
       /\ \A i \in 1..n : m + i \in 1..(m + n)
  BY <1>6
<1> HIDE DEF g, out, key
<1>17. \A i \in 1..(m + n) : IsRow(g[i]) /\ g[i].index \in Nat /\ g[i].index < k
  <2> SUFFICES ASSUME NEW i \in 1..(m + n) PROVE IsRow(g[i]) /\ g[i].index \in Nat /\ g[i].index < k
    OBVIOUS
  <2>1. CASE i \in 1..m
    BY <1>14, <1>15, <2>1
  <2>2. CASE i \notin 1..m
    <3>1. PICK j \in 1..n : i = m + j
      BY <2>2, PlaceOfConcat
    <3> QED BY <1>14, <1>16, <3>1
  <2> QED BY <2>1, <2>2
<1>18. \A x \in 0..(k - 1) : x \in Waiting(q.p) \/ \E i \in 1..(m + n) : g[i].index = x
  <2> SUFFICES ASSUME NEW x \in 0..(k - 1), x \notin Waiting(q.p) PROVE \E i \in 1..(m + n) : g[i].index = x
    OBVIOUS
  <2>1. (\E i \in 1..n : x = key(i)) \/ \E i \in 1..m : f[i].index = x
    BY <1>9, <1>15
  <2> QED BY <1>14, <1>16, <2>1
<1>19. (m + n) + d = k
  BY <1>11, <1>15
<1>20. \A i, j \in 1..(m + n) : i < j /\ g[i].valid /\ g[j].valid => g[i].index < g[j].index
  <2> SUFFICES ASSUME NEW i \in 1..(m + n), NEW j \in 1..(m + n), i < j, g[i].valid, g[j].valid
               PROVE  g[i].index < g[j].index
    OBVIOUS
  <2>1. CASE i \in 1..m /\ j \in 1..m
    BY <1>14, <1>15, <2>1
  <2>2. CASE i \in 1..m /\ j \notin 1..m
    <3>1. PICK v \in 1..n : j = m + v
      BY <2>2, PlaceOfConcat
    <3>2. f[i].index < key(v)
      BY <1>14, <1>15, <1>16, <2>2
    <3> QED BY <1>14, <1>16, <2>2, <3>1, <3>2
  <2>3. CASE i \notin 1..m
    <3>1. PICK u \in 1..n : i = m + u
      BY <2>3, PlaceOfConcat
    <3>2. j \notin 1..m
      BY <3>1
    <3>3. PICK v \in 1..n : j = m + v
      BY <3>2, PlaceOfConcat
    <3>4. u < v
      BY <3>1, <3>3
    <3>5. key(u) < key(v)
      BY <1>7, <3>4 DEF key
    <3> QED BY <1>14, <1>16, <3>1, <3>3, <3>5
  <2> QED BY <2>1, <2>2, <2>3
<1>21. \A i \in 1..(m + n), j \in Waiting(q.p) : g[i].valid => g[i].index < j
  <2>1. \A i \in 1..m, j \in Waiting(q.p) : g[i].valid => g[i].index < j
    BY <1>2, <1>14, <1>15
  <2>2. \A i \in 1..n, j \in Waiting(q.p) : g[m + i].index < j
    BY <1>8, <1>14, <1>16 DEF key
  <2> SUFFICES ASSUME NEW i \in 1..(m + n), NEW j \in Waiting(q.p), g[i].valid PROVE g[i].index < j
    OBVIOUS
  <2>3. CASE i \in 1..m
    BY <2>1, <2>3
  <2>4. CASE i \notin 1..m
    <3>1. PICK v \in 1..n : i = m + v
      BY <2>4, PlaceOfConcat
    <3> QED BY <2>2, <3>1
  <2> QED BY <2>3, <2>4
<1>22. FileInv(g, q.p, k)
  BY <1>11, <1>12, <1>14, <1>17, <1>18, <1>19, <1>20, <1>21 DEF FileInv
<1>23. \A i \in 1..n : \E j \in Waiting(p) : out[i] = p.rows[j]
  BY <1>6 DEF out, key
<1> QED BY <1>2, <1>11, <1>22, <1>23 DEF g, out

(* A sample that is not valid is written at once, whatever waits.          *)
LEMMA SkippedRowIsWritten ==
    ASSUME NEW p, NEW k \in Nat, QueueInv(p, k), NEW f, FileInv(f, p, k),
           NEW row, IsRow(row), row.index = k, ~row.valid
    PROVE  QueueInv(p, k + 1) /\ FileInv(f \o <<row>>, p, k + 1)
<1>1. QueueInv(p, k + 1)
  <2>1. \A i \in 1..Len(p.order) : p.order[i] < k + 1
    BY QueueTypes
  <2> QED BY <2>1 DEF QueueInv
<1> DEFINE g == f \o <<row>>
<1>2. IsSeq(<<row>>) /\ Len(<<row>>) = 1 /\ <<row>>[1] = row
  BY DEF IsSeq
<1>3. /\ IsSeq(g) /\ Len(f) \in Nat /\ Len(g) = Len(f) + 1
      /\ \A i \in 1..Len(f) : g[i] = f[i]
      /\ g[Len(f) + 1] = row
  <2>1. IsSeq(f)
    BY DEF FileInv
  <2>2. PICK t : t = <<row>> /\ IsSeq(t) /\ Len(t) = 1 /\ t[1] = row
    BY <1>2
  <2>3. /\ IsSeq(f \o t) /\ Len(f) \in Nat /\ Len(f \o t) = Len(f) + 1
        /\ \A i \in 1..Len(f) : (f \o t)[i] = f[i]
        /\ (f \o t)[Len(f) + 1] = t[1]
    BY <2>1, <2>2, ConcatIsSeq
  <2> QED BY <2>2, <2>3
<1>4. PICK m \in Nat : m = Len(f)
  BY <1>3
<1>5. /\ \A i \in 1..m : IsRow(f[i]) /\ f[i].index \in Nat /\ f[i].index < k
      /\ \A x \in 0..(k - 1) : x \in Waiting(p) \/ \E i \in 1..m : f[i].index = x
      /\ m + Cardinality(Waiting(p)) = k
      /\ \A i, j \in 1..m : i < j /\ f[i].valid /\ f[j].valid => f[i].index < f[j].index
      /\ \A i \in 1..m, j \in Waiting(p) : f[i].valid => f[i].index < j
  BY <1>4 DEF FileInv
<1>6. Len(g) = m + 1 /\ g[m + 1] = row /\ \A i \in 1..m : g[i] = f[i]
  BY <1>3, <1>4
<1>7. /\ \A i \in 1..(m + 1) : i \in 1..m \/ i = m + 1
      /\ \A i \in 1..m : i \in 1..(m + 1)
      /\ m + 1 \in 1..(m + 1)
  OBVIOUS
<1>8. \A x \in 0..((k + 1) - 1) : x \in 0..(k - 1) \/ x = k
  OBVIOUS
<1>9. Cardinality(Waiting(p)) \in Nat
  <2>1. IsFiniteSet(Waiting(p))
    BY WaitingCount
  <2> QED BY <2>1, FS_CardinalityType
<1>10. (m + 1) + Cardinality(Waiting(p)) = k + 1
  BY <1>5, <1>9
<1> HIDE DEF g
<1>11. \A i \in 1..(m + 1) : IsRow(g[i]) /\ g[i].index \in Nat /\ g[i].index < k + 1
  BY <1>5, <1>6, <1>7
<1>12. \A x \in 0..((k + 1) - 1) : x \in Waiting(p) \/ \E i \in 1..(m + 1) : g[i].index = x
  BY <1>5, <1>6, <1>7, <1>8
<1>13. \A i, j \in 1..(m + 1) : i < j /\ g[i].valid /\ g[j].valid => g[i].index < g[j].index
  BY <1>5, <1>6, <1>7
<1>14. \A i \in 1..(m + 1), j \in Waiting(p) : g[i].valid => g[i].index < j
  BY <1>5, <1>6, <1>7
<1>15. FileInv(g, p, k + 1)
  BY <1>3, <1>6, <1>10, <1>11, <1>12, <1>13, <1>14 DEF FileInv
<1> QED BY <1>1, <1>15 DEF g

(* What a file owes to what waits is told by the indexes alone.            *)
LEMMA FileKnowsIndexes ==
    ASSUME NEW f, NEW p, NEW q, NEW k \in Nat, Waiting(q) = Waiting(p), FileInv(f, p, k)
    PROVE  FileInv(f, q, k)
BY DEF FileInv

(* What is left of the rows in flight once the ready ones are written.     *)
Flushed(p, k, f, q) ==
    /\ IsSeq(q.out) /\ QueueInv(q.p, k) /\ FileInv(f \o q.out, q.p, k)
    /\ Waiting(q.p) \subseteq Waiting(p) /\ \A i \in Waiting(q.p) : q.p.rows[i] = p.rows[i]
    /\ \A i \in 1..Len(q.out) : \E j \in Waiting(p) : q.out[i] = p.rows[j]
    /\ Cardinality(Waiting(q.p)) \in Nat /\ Cardinality(Waiting(p)) \in Nat
    /\ Cardinality(Waiting(q.p)) <= Cardinality(Waiting(p))
    /\ p.next <= Len(p.order) /\ p.remaining[p.order[p.next]] <= 0
         => Cardinality(Waiting(q.p)) < Cardinality(Waiting(p))

(* The first of the rows that wait is the one asked first.                 *)
LEMMA ReadyFlush ==
    ASSUME NEW p, NEW k \in Nat, QueueInv(p, k), NEW f, FileInv(f, p, k),
           NEW q, q = Samples!FlushReady(p)
    PROVE  Flushed(p, k, f, q)
<1>0. PICK a \in Nat, b \in Nat : a = p.next /\ b = Len(p.order) /\ 1 <= a /\ a <= b + 1
  BY QueueTypes
<1> DEFINE n == Samples!ReadyCount(p)
<1>1. n \in 0..(b - a + 1) /\ (a <= b /\ p.remaining[p.order[a]] <= 0 => n # 0)
  BY <1>0, ReadyHead
<1> HIDE DEF n
<1>2. n \in Nat /\ n <= b - a + 1
  BY <1>0, <1>1
<1>3. n <= Len(p.order) - p.next + 1
  BY <1>0, <1>2
<1>4. q = Samples!Flush(p, n)
  BY DEF Samples!FlushReady, n
<1>5. /\ QueueInv(q.p, k) /\ FileInv(f \o q.out, q.p, k)
      /\ Waiting(q.p) \subseteq Waiting(p) /\ \A i \in Waiting(q.p) : q.p.rows[i] = p.rows[i]
      /\ \A i \in 1..Len(q.out) : \E j \in Waiting(p) : q.out[i] = p.rows[j]
      /\ Cardinality(Waiting(q.p)) = Cardinality(Waiting(p)) - n /\ IsSeq(q.out)
  BY <1>2, <1>3, <1>4, FlushKeepsFile
<1>6. Cardinality(Waiting(q.p)) \in Nat /\ Cardinality(Waiting(p)) \in Nat
  BY <1>5, WaitingCount, FS_CardinalityType
<1>7. PICK c \in Nat, d \in Nat : c = Cardinality(Waiting(p)) /\ d = Cardinality(Waiting(q.p)) /\ d = c - n
  BY <1>5, <1>6
<1>8. d <= c /\ (n # 0 => d < c)
  BY <1>2, <1>7
<1> QED BY <1>0, <1>1, <1>5, <1>6, <1>7, <1>8 DEF Flushed

(* The sizes of the sampling module are those of the lemmas.               *)
LEMMA SampleSizes == \A S : Samples!Cardinality(S) = Cardinality(S) /\ (Samples!IsFiniteSet(S) <=> IsFiniteSet(S))
<1>1. ASSUME NEW S PROVE Samples!Cardinality(S) = Cardinality(S)
  BY DEF Samples!Cardinality, Cardinality, Samples!IsFiniteSet, IsFiniteSet
<1>2. ASSUME NEW S PROVE Samples!IsFiniteSet(S) <=> IsFiniteSet(S)
  BY DEF Samples!IsFiniteSet, IsFiniteSet
<1> QED BY <1>1, <1>2

(* The rows in flight once a valid sample has joined them.                 *)
Added(p, k, f, row, q) ==
    /\ IsSeq(q.out) /\ QueueInv(q.p, k + 1) /\ FileInv(f \o q.out, q.p, k + 1)
    /\ Cardinality(Waiting(q.p)) <= MaxPending
    /\ \A i \in Waiting(q.p) : \/ i \in Waiting(p) /\ q.p.rows[i] = p.rows[i]
                               \/ i = k /\ q.p.rows[i] = row
    /\ \A i \in 1..Len(q.out) : q.out[i] = row \/ \E j \in Waiting(p) : q.out[i] = p.rows[j]

(* A valid sample joins the rows in flight; when they are too many the     *)
(* oldest is let go, so that they never are for long.                      *)
LEMMA AddedRowWaits ==
    ASSUME NEW p, NEW k \in Nat, QueueInv(p, k), NEW f, FileInv(f, p, k), MaxPending \in Nat,
           Cardinality(Waiting(p)) <= MaxPending, NEW row, IsRow(row), row.index = k, row.valid,
           NEW need, NEW q, q = Samples!AddPending(p, k, row, need)
    PROVE  Added(p, k, f, row, q)
<1>1. PICK r : r = Samples!Joined(p, k, row, need)
  OBVIOUS
<1>11. /\ QueueInv(r, k + 1) /\ r.order = Append(p.order, k) /\ r.next = p.next
       /\ Waiting(r) = Waiting(p) \cup {k} /\ k \notin Waiting(p) /\ r.rows[k] = row
       /\ \A i \in Waiting(p) : r.rows[i] = p.rows[i]
  BY <1>1, AddingKeepsQueue
<1>2. q = IF Cardinality(DOMAIN r.rows) > MaxPending THEN Samples!FlushReady(Samples!LetGo(r))
          ELSE [p |-> r, out |-> <<>>]
  BY <1>1, SampleSizes DEF Samples!AddPending
<1>3. DOMAIN r.rows = Waiting(r) /\ IsQueue(r)
  BY <1>11 DEF QueueInv
<1>4. PICK c \in Nat, d \in Nat : c = Cardinality(Waiting(p)) /\ d = Cardinality(Waiting(r)) /\ d = c + 1
  <2>1. IsFiniteSet(Waiting(p))
    BY WaitingCount
  <2>2. Cardinality(Waiting(p)) \in Nat /\ Cardinality(Waiting(p) \cup {k}) = Cardinality(Waiting(p)) + 1
    BY <1>11, <2>1, FS_CardinalityType, FS_AddElement
  <2> QED BY <1>11, <2>2
<1>5. FileInv(f, r, k + 1)
  <2>1. /\ IsSeq(f) /\ Len(f) + c = k
        /\ \A i \in 1..Len(f) : IsRow(f[i]) /\ f[i].index \in Nat /\ f[i].index < k
        /\ \A x \in 0..(k - 1) : x \in Waiting(p) \/ \E i \in 1..Len(f) : f[i].index = x
        /\ \A i, j \in 1..Len(f) : i < j /\ f[i].valid /\ f[j].valid => f[i].index < f[j].index
        /\ \A i \in 1..Len(f), j \in Waiting(p) : f[i].valid => f[i].index < j
    BY <1>4 DEF FileInv
  <2>2. Len(f) \in Nat
    BY <2>1 DEF IsSeq
  <2>3. Len(f) + d = k + 1
    BY <1>4, <2>1, <2>2
  <2>4. \A x \in 0..((k + 1) - 1) : x \in 0..(k - 1) \/ x = k
    OBVIOUS
  <2>5. \A x \in 0..((k + 1) - 1) : x \in Waiting(r) \/ \E i \in 1..Len(f) : f[i].index = x
    BY <1>11, <2>1, <2>4
  <2>6. \A i \in 1..Len(f) : f[i].index < k + 1
    <3> SUFFICES ASSUME NEW i \in 1..Len(f) PROVE f[i].index < k + 1
      OBVIOUS
    <3>1. f[i].index \in Nat /\ f[i].index < k
      BY <2>1
    <3> QED BY <3>1
  <2>7. \A i \in 1..Len(f), j \in Waiting(r) : f[i].valid => f[i].index < j
    BY <1>11, <2>1
  <2> QED BY <1>4, <2>1, <2>3, <2>5, <2>6, <2>7 DEF FileInv
<1>6. CASE Cardinality(DOMAIN r.rows) > MaxPending
  <2>0. PICK s : s = Samples!LetGo(r)
    OBVIOUS
  <2>1. PICK rem : /\ s = [r EXCEPT !.remaining = rem] /\ DOMAIN rem = DOMAIN r.remaining
                   /\ rem = [r.remaining EXCEPT ![r.order[r.next]] = 0]
    <3>1. s = [r EXCEPT !.remaining = [r.remaining EXCEPT ![r.order[r.next]] = 0]]
      BY <1>3, <2>0 DEF Samples!LetGo
    <3>2. PICK rem : rem = [r.remaining EXCEPT ![r.order[r.next]] = 0]
      OBVIOUS
    <3> QED BY <3>1, <3>2
  <2>2. s = [order |-> r.order, next |-> r.next, rows |-> r.rows, remaining |-> rem]
    BY ONLY <1>3, <2>1 DEF IsQueue
  <2>3. IsQueue(s) /\ s.order = r.order /\ s.next = r.next /\ s.rows = r.rows /\ s.remaining = rem
    BY ONLY <2>2 DEF IsQueue
  <2>4. Waiting(s) = Waiting(r)
    BY <2>3 DEF Waiting
  <2>5. QueueInv(s, k + 1)
    <3>1. DOMAIN s.remaining = Waiting(s)
      BY <1>11, <2>1, <2>3, <2>4 DEF QueueInv
    <3>2. s.rows = [i \in Waiting(s) |-> s.rows[i]]
      BY <1>11, <2>3, <2>4 DEF QueueInv
    <3>3. /\ s.order \in Seq(Nat) /\ s.next \in 1..(Len(s.order) + 1) /\ Rising(s.order)
          /\ \A i \in 1..Len(s.order) : s.order[i] < k + 1
      BY <1>11, <2>3 DEF QueueInv
    <3>4. \A i \in Waiting(s) : IsRow(s.rows[i]) /\ s.rows[i].index = i /\ s.rows[i].valid
      BY <1>11, <2>3, <2>4 DEF QueueInv
    <3> QED BY <2>3, <3>1, <3>2, <3>3, <3>4 DEF QueueInv
  <2>6. FileInv(f, s, k + 1)
    BY <1>5, <2>4, FileKnowsIndexes
  <2>7. q = Samples!FlushReady(s)
    BY <1>2, <1>6, <2>0
  <2>8. /\ IsSeq(q.out) /\ QueueInv(q.p, k + 1) /\ FileInv(f \o q.out, q.p, k + 1)
        /\ Waiting(q.p) \subseteq Waiting(s) /\ \A i \in Waiting(q.p) : q.p.rows[i] = s.rows[i]
        /\ \A i \in 1..Len(q.out) : \E j \in Waiting(s) : q.out[i] = s.rows[j]
        /\ Cardinality(Waiting(q.p)) \in Nat /\ Cardinality(Waiting(q.p)) <= Cardinality(Waiting(s))
        /\ s.next <= Len(s.order) /\ s.remaining[s.order[s.next]] <= 0
             => Cardinality(Waiting(q.p)) < Cardinality(Waiting(s))
    <3>1. PICK k1 \in Nat : k1 = k + 1
      OBVIOUS
    <3>2. QueueInv(s, k1) /\ FileInv(f, s, k1)
      BY <2>5, <2>6, <3>1
    <3>3. Flushed(s, k1, f, q)
      BY <2>7, <3>2, ReadyFlush
    <3> QED BY <3>1, <3>3 DEF Flushed
  <2>9. Cardinality(Waiting(q.p)) <= MaxPending
    <3>0. k + 1 \in Nat
      OBVIOUS
    <3>1. PICK x \in Nat, y \in Nat : x = s.next /\ y = Len(s.order) /\ x <= y + 1
      BY <2>5, <3>0, QueueTypes
    <3>2. Cardinality(Waiting(s)) = y - x + 1
      BY <2>5, <3>1, WaitingCount
    <3>3. d = y - x + 1 /\ d = c + 1 /\ x <= y
      <4>1. d = y - x + 1 /\ d = c + 1
        BY <1>4, <2>4, <3>2
      <4> QED BY <4>1
    <3>4. s.next <= Len(s.order)
      BY <3>1, <3>3
    <3>5. s.remaining[s.order[s.next]] <= 0 \/ s.order[s.next] \notin DOMAIN r.remaining
      <4>1. s.remaining[s.order[s.next]] = 0 \/ s.order[s.next] \notin DOMAIN r.remaining
        BY <2>1, <2>3
      <4> QED BY <4>1
    <3>6. s.order[s.next] \in DOMAIN r.remaining
      <4>1. s.order[s.next] \in Waiting(s)
        <5>1. x \in x..y
          BY <3>3
        <5> QED BY <3>1, <5>1 DEF Waiting
      <4> QED BY <1>11, <2>4, <4>1 DEF QueueInv
    <3>7. PICK e \in Nat : e = Cardinality(Waiting(q.p)) /\ e < d
      BY <1>4, <2>4, <2>8, <3>4, <3>5, <3>6
    <3>8. c <= MaxPending
      BY <1>4
    <3> QED BY <1>4, <3>7, <3>8
  <2>10. \A i \in Waiting(q.p) : i \in Waiting(r) /\ q.p.rows[i] = r.rows[i]
    BY <2>3, <2>4, <2>8
  <2>11. \A i \in 1..Len(q.out) : \E j \in Waiting(r) : q.out[i] = r.rows[j]
    BY <2>3, <2>4, <2>8
  <2> QED BY <1>11, <2>8, <2>9, <2>10, <2>11 DEF Added
<1>7. CASE ~(Cardinality(DOMAIN r.rows) > MaxPending)
  <2>1. q.p = r /\ q.out = <<>>
    BY <1>2, <1>7
  <2>2. f \o q.out = f
    <3>1. IsSeq(f)
      BY <1>5 DEF FileInv
    <3>2. f \in Seq({f[i] : i \in 1..Len(f)})
      BY <3>1 DEF IsSeq
    <3> QED BY <2>1, <3>2, ConcatEmptySeq
  <2>3. Cardinality(Waiting(q.p)) <= MaxPending
    <3>1. Cardinality(Waiting(q.p)) = d /\ ~(d > MaxPending)
      BY <1>3, <1>4, <1>7, <2>1
    <3> QED BY <3>1
  <2>4. (\A i \in 1..Len(q.out) : FALSE) /\ IsSeq(q.out)
    BY <2>1 DEF IsSeq
  <2> QED BY <1>11, <1>5, <2>1, <2>2, <2>3, <2>4 DEF Added
<1> QED BY <1>6, <1>7

(* An element of two sequences set one after the other is one of either.   *)
LEMMA ConcatElements ==
    ASSUME NEW s, NEW t, IsSeq(s), IsSeq(t), NEW i \in 1..Len(s \o t)
    PROVE  (\E j \in 1..Len(s) : (s \o t)[i] = s[j]) \/ \E j \in 1..Len(t) : (s \o t)[i] = t[j]
<1>1. PICK m \in Nat, n \in Nat :
        /\ m = Len(s) /\ n = Len(t) /\ Len(s \o t) = m + n
        /\ \A j \in 1..m : (s \o t)[j] = s[j]
        /\ \A j \in 1..n : (s \o t)[m + j] = t[j]
  <2>1. /\ Len(s) \in Nat /\ Len(t) \in Nat /\ Len(s \o t) = Len(s) + Len(t)
        /\ \A j \in 1..Len(s) : (s \o t)[j] = s[j]
        /\ \A j \in 1..Len(t) : (s \o t)[Len(s) + j] = t[j]
    BY ConcatIsSeq
  <2> QED BY <2>1
<1>2. i \in 1..m \/ \E j \in 1..n : i = m + j
  BY <1>1, PlaceOfConcat
<1> QED BY <1>1, <1>2

(* What one event makes of the rows: the ones that waited take its labels, *)
(* and its own sample joins them or is written.                            *)
RowMove(row, p, done, outcomes, take, mine) ==
    \/ \E j \in Waiting(p) : row = Samples!Resolved(p.rows[j], done, outcomes)
    \/ take /\ row = mine
QueueMove(q, p, k, done, outcomes, take, mine) ==
    \A i \in Waiting(q) : \/ i \in Waiting(p) /\ q.rows[i] = Samples!Resolved(p.rows[i], done, outcomes)
                          \/ i = k /\ take /\ q.rows[i] = mine
FileMove(g, f, p, done, outcomes, take, mine) ==
    \A i \in 1..Len(g) : \/ \E j \in 1..Len(f) : g[i] = f[j]
                         \/ RowMove(g[i], p, done, outcomes, take, mine)
RowsInv(p, f, k) == k \in Nat /\ QueueInv(p, k) /\ FileInv(f, p, k) /\ Cardinality(Waiting(p)) <= MaxPending

(* One event keeps the rows in order: labels are taken first, the rows     *)
(* that are complete leave, and the new sample is stored.                  *)
LEMMA EventMovesRows ==
    ASSUME MaxPending \in Nat, NEW p, NEW k, NEW f, RowsInv(p, f, k), NEW done, NEW outcomes,
           NEW take \in BOOLEAN, NEW row, IsRow(row), row.index = k, row.valid \in BOOLEAN, NEW armed,
           NEW told, told = Samples!FlushReady(Samples!TakeLabels(p, done, outcomes)),
           NEW add, add = Samples!Stored(told.p, row, take, armed),
           NEW g, g = f \o told.out \o add.out
    PROVE  /\ RowsInv(add.p, g, IF take THEN k + 1 ELSE k)
           /\ QueueMove(add.p, p, k, done, outcomes, take, row)
           /\ FileMove(g, f, p, done, outcomes, take, row)
<1>0. k \in Nat /\ QueueInv(p, k) /\ FileInv(f, p, k) /\ Cardinality(Waiting(p)) <= MaxPending
  BY DEF RowsInv
<1>1. PICK q : q = Samples!TakeLabels(p, done, outcomes)
  OBVIOUS
<1>2. /\ QueueInv(q, k) /\ Waiting(q) = Waiting(p)
      /\ \A i \in Waiting(p) : q.rows[i] = Samples!Resolved(p.rows[i], done, outcomes)
  BY <1>0, <1>1, TakingKeepsQueue
<1>3. FileInv(f, q, k)
  BY <1>0, <1>2, FileKnowsIndexes
<1>4. Flushed(q, k, f, told)
  BY <1>0, <1>1, <1>2, <1>3, ReadyFlush
<1>5. PICK h : h = f \o told.out
  OBVIOUS
<1>6. QueueInv(told.p, k) /\ FileInv(h, told.p, k) /\ Cardinality(Waiting(told.p)) <= MaxPending
  <2>1. PICK c \in Nat, d \in Nat : c = Cardinality(Waiting(q)) /\ d = Cardinality(Waiting(told.p)) /\ d <= c
    BY <1>4 DEF Flushed
  <2>2. d <= MaxPending
    BY <1>0, <1>2, <2>1
  <2> QED BY <1>4, <1>5, <2>1, <2>2 DEF Flushed
<1>7. \A i \in Waiting(told.p) : i \in Waiting(p) /\ told.p.rows[i] = Samples!Resolved(p.rows[i], done, outcomes)
  BY <1>2, <1>4 DEF Flushed
<1>8. \A i \in 1..Len(told.out) : RowMove(told.out[i], p, done, outcomes, take, row)
  BY <1>2, <1>4 DEF Flushed, RowMove
<1>9. IsSeq(f) /\ IsSeq(told.out) /\ IsSeq(h)
  BY <1>0, <1>4, <1>6 DEF Flushed, FileInv
<1>10. FileMove(h, f, p, done, outcomes, take, row)
  <2> SUFFICES ASSUME NEW i \in 1..Len(h)
               PROVE  (\E j \in 1..Len(f) : h[i] = f[j]) \/ RowMove(h[i], p, done, outcomes, take, row)
    BY DEF FileMove
  <2>1. (\E j \in 1..Len(f) : h[i] = f[j]) \/ \E j \in 1..Len(told.out) : h[i] = told.out[j]
    BY <1>5, <1>9, ConcatElements
  <2> QED BY <1>8, <2>1
<1>11. g = h \o add.out
  BY <1>5
<1>12. /\ IsSeq(add.out) /\ RowsInv(add.p, g, IF take THEN k + 1 ELSE k)
       /\ \A i \in Waiting(add.p) : \/ i \in Waiting(told.p) /\ add.p.rows[i] = told.p.rows[i]
                                    \/ i = k /\ take /\ add.p.rows[i] = row
       /\ \A i \in 1..Len(add.out) : \/ take /\ add.out[i] = row
                                     \/ \E j \in Waiting(told.p) : add.out[i] = told.p.rows[j]
  <2>1. CASE take /\ row.valid
    <3>1. PICK need : add = Samples!AddPending(told.p, k, row, need)
      BY <2>1 DEF Samples!Stored
    <3>2. Added(told.p, k, h, row, add)
      BY <1>0, <1>6, <2>1, <3>1, AddedRowWaits
    <3>3. k + 1 \in Nat
      BY <1>0
    <3>4. RowsInv(add.p, g, k + 1)
      BY <1>11, <3>2, <3>3 DEF RowsInv, Added
    <3> QED BY <2>1, <3>2, <3>4 DEF Added
  <2>2. CASE take /\ ~row.valid
    <3>1. add.p = told.p /\ add.out = <<row>>
      BY <2>2 DEF Samples!Stored
    <3>2. QueueInv(told.p, k + 1) /\ FileInv(h \o <<row>>, told.p, k + 1)
      BY <1>0, <1>6, <2>2, SkippedRowIsWritten
    <3>3. k + 1 \in Nat
      BY <1>0
    <3>4. RowsInv(add.p, g, k + 1)
      BY <1>6, <1>11, <3>1, <3>2, <3>3 DEF RowsInv
    <3>5. IsSeq(add.out) /\ Len(add.out) = 1 /\ add.out[1] = row
      BY <3>1 DEF IsSeq
    <3>6. \A i \in 1..Len(add.out) : add.out[i] = row
      BY <3>5
    <3> QED BY <2>2, <3>1, <3>4, <3>5, <3>6
  <2>3. CASE ~take
    <3>1. add.p = told.p /\ add.out = <<>>
      BY <2>3 DEF Samples!Stored
    <3>2. h \o <<>> = h
      <4>1. h \in Seq({h[i] : i \in 1..Len(h)})
        BY <1>9 DEF IsSeq
      <4> QED BY <4>1, ConcatEmptySeq
    <3>3. IsSeq(add.out) /\ \A i \in 1..Len(add.out) : FALSE
      BY <3>1 DEF IsSeq
    <3>4. RowsInv(add.p, g, k)
      BY <1>0, <1>6, <1>11, <3>1, <3>2 DEF RowsInv
    <3> QED BY <2>3, <3>1, <3>3, <3>4
  <2> QED BY <2>1, <2>2, <2>3
<1>13. QueueMove(add.p, p, k, done, outcomes, take, row)
  BY <1>7, <1>12 DEF QueueMove
<1>14. FileMove(g, f, p, done, outcomes, take, row)
  <2> SUFFICES ASSUME NEW i \in 1..Len(g)
               PROVE  (\E j \in 1..Len(f) : g[i] = f[j]) \/ RowMove(g[i], p, done, outcomes, take, row)
    BY DEF FileMove
  <2>1. (\E j \in 1..Len(h) : g[i] = h[j]) \/ \E j \in 1..Len(add.out) : g[i] = add.out[j]
    BY <1>9, <1>11, <1>12, ConcatElements
  <2>2. ASSUME NEW j \in 1..Len(add.out) PROVE RowMove(add.out[j], p, done, outcomes, take, row)
    BY <1>7, <1>12 DEF RowMove
  <2> QED BY <1>10, <2>1, <2>2 DEF FileMove
<1> QED BY <1>12, <1>13, <1>14

(* The stream so far: events in the order of their times.                  *)
InOrder == \A i, j \in 1..Len(stream) : i <= j => stream[i].t <= stream[j].t
StreamInv ==
    /\ IsSeq(stream) /\ \A i \in 1..Len(stream) : Samples!IsEvent(stream[i])
    /\ InOrder
(* A row that is valid keeps its lookback and its longest label off the    *)
(* gaps of its day.                                                        *)
ClearOf(d, r) ==
    /\ r.ts \in Nat
    /\ r.valid => \A g \in d.gaps : ~(g[1] < r.ts + Samples!MaxHorizon /\ g[2] > r.ts - Lookback)
SampleInv ==
    /\ day \in Days /\ closed \in BOOLEAN /\ StreamInv
    /\ RowsInv(queued, file, index) /\ (closed => Waiting(queued) = {})
    /\ \A i \in 1..Len(file) : ClearOf(day, file[i])
    /\ \A i \in Waiting(queued) : ClearOf(day, queued.rows[i])

(* A sample is a row of its own place, at the time of its event.           *)
LEMMA SampleIsRow ==
    ASSUME NEW e, Samples!IsEvent(e), NEW r, r = Samples!Sampled(e)
    PROVE  /\ IsRow(r) /\ r.index = index /\ r.valid \in BOOLEAN /\ r.ts = e.t /\ ClearOf(day, r)
           /\ Samples!Takes(e) \in BOOLEAN
<1>1. PICK f, v, x : r = [index |-> index, ts |-> e.t, at |-> Len(stream) + 1, entry |-> Samples!Pruned(e).mid,
                          feats |-> f, valid |-> v, vol |-> x, ret |-> Samples!NoLabels,
                          maker |-> Samples!NoLabels, taker |-> Samples!NoLabels, tb |-> None]
                     /\ v \in BOOLEAN /\ (v => ~Samples!InGap(e.t))
  <2>1. PICK v \in BOOLEAN :
          v = (/\ Samples!Pruned(e).mid # 0 /\ Samples!Pruned(e).prev # None
               /\ Samples!Usable(Samples!Pruned(e).prev) /\ ~Samples!InGap(e.t))
    OBVIOUS
  <2>2. v => ~Samples!InGap(e.t)
    BY <2>1
  <2> QED BY <2>1, <2>2 DEF Samples!Sampled
<1>2. IsRow(r) /\ r.index = index /\ r.valid = v /\ r.ts = e.t
  BY <1>1 DEF IsRow
<1>3. e.t \in Nat
  BY DEF Samples!IsEvent
<1>4. ASSUME v, NEW g \in day.gaps PROVE ~(g[1] < e.t + Samples!MaxHorizon /\ g[2] > e.t - Lookback)
  <2>1. ~Samples!InGap(e.t)
    BY <1>1, <1>4
  <2> QED BY <2>1 DEF Samples!InGap, Samples!OverlapsGap, Samples!SafeSpan, Samples!gaps
<1>5. Samples!Takes(e) \in BOOLEAN
  BY DEF Samples!Takes
<1> QED BY <1>1, <1>2, <1>3, <1>4, <1>5 DEF ClearOf

(* An event read at or after the last one keeps the stream in order.       *)
LEMMA ReadKeepsOrder ==
    ASSUME StreamInv, NEW e, Samples!IsEvent(e), e.t >= Samples!Now, stream' = Append(stream, e)
    PROVE  StreamInv'
<1>1. PICK S : S = {stream[i] : i \in 1..Len(stream)} \cup {e}
  OBVIOUS
<1>2. stream \in Seq(S) /\ e \in S
  <2>1. IsSeq(stream)
    BY DEF StreamInv
  <2>2. S = {stream[i] : i \in 1..Len(stream)} \cup {e}
    BY <1>1
  <2> QED BY <2>1, <2>2 DEF IsSeq
<1>3. PICK n \in Nat : n = Len(stream)
  BY <1>2
<1>4. PICK s : s = stream'
  OBVIOUS
<1>5. /\ s \in Seq(S) /\ Len(s) = n + 1 /\ s[n + 1] = e
      /\ \A i \in 1..n : s[i] = stream[i]
  BY <1>2, <1>3, <1>4, AppendProperties
<1>6. \A i \in 1..(n + 1) : i \in 1..n \/ i = n + 1
  OBVIOUS
<1>7. \A i \in 1..(n + 1) : Samples!IsEvent(s[i])
  <2>1. \A i \in 1..n : Samples!IsEvent(stream[i])
    BY <1>3 DEF StreamInv
  <2> QED BY <1>5, <1>6, <2>1
<1>8. \A i \in 1..n : stream[i].t <= e.t
  <2> SUFFICES ASSUME NEW i \in 1..n PROVE stream[i].t <= e.t
    OBVIOUS
  <2>1. n \in 1..n /\ n # 0 /\ i <= n
    OBVIOUS
  <2>2. stream # <<>>
    BY <1>2, <1>3, <2>1
  <2>3. Samples!Now = stream[n].t
    BY <1>3, <2>2 DEF Samples!Now
  <2>4. stream[i].t <= stream[n].t
    BY <1>3, <2>1 DEF StreamInv, InOrder
  <2>5. stream[i].t \in Nat /\ stream[n].t \in Nat /\ e.t \in Nat
    BY <1>3, <2>1 DEF StreamInv, Samples!IsEvent
  <2> QED BY <2>3, <2>4, <2>5
<1>9. \A i, j \in 1..(n + 1) : i <= j => s[i].t <= s[j].t
  <2> SUFFICES ASSUME NEW i \in 1..(n + 1), NEW j \in 1..(n + 1), i <= j PROVE s[i].t <= s[j].t
    OBVIOUS
  <2>1. \A x, y \in 1..n : x <= y => stream[x].t <= stream[y].t
    BY <1>3 DEF StreamInv, InOrder
  <2>2. CASE j \in 1..n
    BY <1>5, <2>1, <2>2
  <2>3. CASE j = n + 1 /\ i \in 1..n
    BY <1>5, <1>8, <2>3
  <2>4. CASE j = n + 1 /\ i = n + 1
    <3>1. e.t \in Nat
      BY DEF Samples!IsEvent
    <3> QED BY <1>5, <2>4, <3>1
  <2> QED BY <1>6, <2>2, <2>3, <2>4
<1>10. IsSeq(s)
  <2>1. s \in [1..(n + 1) -> {s[i] : i \in 1..(n + 1)}]
    <3>1. DOMAIN s = 1..(n + 1) /\ s = [i \in 1..(n + 1) |-> s[i]]
      BY <1>5
    <3> QED BY <3>1
  <2>2. n + 1 \in Nat
    OBVIOUS
  <2>3. s \in Seq({s[i] : i \in 1..(n + 1)})
    BY <2>1, <2>2, TableIsSeq
  <2> QED BY <1>5, <2>3 DEF IsSeq
<1> QED BY <1>4, <1>5, <1>7, <1>9, <1>10 DEF StreamInv, InOrder

(* What is told a row changes neither its time nor whether it is valid.    *)
LEMMA ToldStaysClear ==
    ASSUME NEW d, NEW row, IsRow(row), ClearOf(d, row), NEW done, NEW outcomes,
           NEW r, r = Samples!Resolved(row, done, outcomes)
    PROVE  ClearOf(d, r)
<1>1. r.ts = row.ts /\ r.valid = row.valid
  BY ResolvedKeeps
<1> QED BY <1>1 DEF ClearOf

(* Reading an event of the venue keeps the rows.                           *)
LEMMA PrimaryKeepsRows ==
    ASSUME MaxPending \in Nat, SampleInv, NEW e, Samples!IsEvent(e), Samples!Primary(e), day' = day, ~closed,
           closed' = closed, StreamInv'
    PROVE  /\ SampleInv' /\ index' = (IF Samples!Takes(e) THEN index + 1 ELSE index)
           /\ QueueMove(queued', queued, index, Samples!FixedStep(e).done, Samples!BarrierStep(e).done,
                        Samples!Takes(e), Samples!Sampled(e))
           /\ FileMove(file', file, queued, Samples!FixedStep(e).done, Samples!BarrierStep(e).done,
                       Samples!Takes(e), Samples!Sampled(e))
<1> DEFINE row == Samples!Sampled(e)
           take == Samples!Takes(e)
           done == Samples!FixedStep(e).done
           outs == Samples!BarrierStep(e).done
           told == Samples!Labelled(e)
<1>1. PICK armed :
        LET add == Samples!Stored(told.p, row, take, armed)
        IN  /\ queued' = add.p /\ file' = file \o told.out \o add.out
            /\ index' = (IF take THEN index + 1 ELSE index)
  BY DEF Samples!Primary
<1>2. told = Samples!FlushReady(Samples!TakeLabels(queued, done, outs))
  BY DEF Samples!Labelled
<1>3. IsRow(row) /\ row.index = index /\ row.valid \in BOOLEAN /\ ClearOf(day, row) /\ take \in BOOLEAN
  BY SampleIsRow
<1>4. PICK p, k, f : p = queued /\ k = index /\ f = file
  OBVIOUS
<1>5. RowsInv(p, f, k)
  BY <1>4 DEF SampleInv
<1> HIDE DEF row, take, done, outs, told
<1>6. PICK add, g, q : add = Samples!Stored(told.p, row, take, armed) /\ g = file' /\ q = queued'
  OBVIOUS
<1>7. q = add.p /\ g = f \o told.out \o add.out /\ index' = (IF take THEN k + 1 ELSE k)
  BY <1>1, <1>4, <1>6
<1>8. told = Samples!FlushReady(Samples!TakeLabels(p, done, outs)) /\ row.index = k
  BY <1>2, <1>3, <1>4
<1>9. /\ RowsInv(add.p, g, IF take THEN k + 1 ELSE k)
      /\ QueueMove(add.p, p, k, done, outs, take, row)
      /\ FileMove(g, f, p, done, outs, take, row)
  BY <1>3, <1>5, <1>6, <1>7, <1>8, EventMovesRows
<1>10. RowsInv(q, g, index') /\ QueueMove(q, p, k, done, outs, take, row)
  BY <1>7, <1>9
<1>11. /\ \A i \in 1..Len(f) : ClearOf(day, f[i])
       /\ \A i \in Waiting(p) : ClearOf(day, p.rows[i]) /\ IsRow(p.rows[i])
  BY <1>4, <1>5 DEF SampleInv, RowsInv, QueueInv
<1>12. \A j \in Waiting(p) : ClearOf(day, Samples!Resolved(p.rows[j], done, outs))
  BY <1>11, ToldStaysClear
<1>13. \A i \in 1..Len(g) : ClearOf(day, g[i])
  BY <1>3, <1>9, <1>11, <1>12 DEF FileMove, RowMove
<1>14. \A i \in Waiting(q) : ClearOf(day, q.rows[i])
  BY <1>3, <1>10, <1>12 DEF QueueMove
<1>15. SampleInv'
  BY <1>6, <1>10, <1>13, <1>14 DEF SampleInv
<1> QED BY <1>4, <1>6, <1>7, <1>9, <1>10, <1>15 DEF row, take, done, outs

(* At the end of the day every row that still waits is written.            *)
LEMMA FinishKeepsRows ==
    ASSUME MaxPending \in Nat, SampleInv, Samples!Finish
    PROVE  /\ SampleInv'
           /\ \A i \in 1..Len(file') : \/ \E j \in 1..Len(file) : file'[i] = file[j]
                                       \/ \E j \in Waiting(queued) : file'[i] = queued.rows[j]
<1>1. PICK p, k, f : p = queued /\ k = index /\ f = file
  OBVIOUS
<1>2. k \in Nat /\ QueueInv(p, k) /\ FileInv(f, p, k) /\ Cardinality(Waiting(p)) <= MaxPending
  BY <1>1 DEF SampleInv, RowsInv
<1>3. PICK s : s = Samples!ToldOff
  OBVIOUS
<1>4. PICK rem : s = [p EXCEPT !.remaining = rem] /\ DOMAIN rem = DOMAIN p.remaining
  <2>1. s = [p EXCEPT !.remaining = [i \in DOMAIN p.remaining |-> p.remaining[i] - Samples!Censored(i)]]
    BY <1>1, <1>3 DEF Samples!ToldOff
  <2>2. PICK r : r = [i \in DOMAIN p.remaining |-> p.remaining[i] - Samples!Censored(i)]
    OBVIOUS
  <2>3. s = [p EXCEPT !.remaining = r] /\ DOMAIN r = DOMAIN p.remaining
    BY <2>1, <2>2
  <2> QED BY <2>3
<1>5. IsQueue(p) /\ DOMAIN p.remaining = Waiting(p)
  BY <1>2 DEF QueueInv
<1>6. s = [order |-> p.order, next |-> p.next, rows |-> p.rows, remaining |-> rem]
  BY ONLY <1>4, <1>5 DEF IsQueue
<1>7. IsQueue(s) /\ s.order = p.order /\ s.next = p.next /\ s.rows = p.rows /\ s.remaining = rem
  BY ONLY <1>6 DEF IsQueue
<1>8. Waiting(s) = Waiting(p)
  BY <1>7 DEF Waiting
<1>9. QueueInv(s, k)
  BY <1>2, <1>4, <1>5, <1>7, <1>8 DEF QueueInv
<1>10. FileInv(f, s, k)
  BY <1>2, <1>8, FileKnowsIndexes
<1>11. PICK q : q = Samples!FlushReady(s)
  OBVIOUS
<1>12. Flushed(s, k, f, q)
  BY <1>2, <1>9, <1>10, <1>11, ReadyFlush
<1>13. PICK h : h = f \o q.out
  OBVIOUS
<1>14. QueueInv(q.p, k) /\ FileInv(h, q.p, k)
  BY <1>12, <1>13 DEF Flushed
<1>15. PICK x \in Nat, y \in Nat : x = q.p.next /\ y = Len(q.p.order) /\ x <= y + 1
  BY <1>2, <1>14, QueueTypes
<1>16. PICK n \in Nat : n = y - x + 1 /\ n = Len(q.p.order) - q.p.next + 1
  BY <1>15
<1>17. PICK z : z = Samples!Flush(q.p, n)
  OBVIOUS
<1>18. n <= Len(q.p.order) - q.p.next + 1
  BY <1>16
<1>19. /\ QueueInv(z.p, k) /\ FileInv(h \o z.out, z.p, k)
       /\ \A i \in 1..Len(z.out) : \E j \in Waiting(q.p) : z.out[i] = q.p.rows[j]
       /\ Cardinality(Waiting(z.p)) = Cardinality(Waiting(q.p)) - n /\ IsSeq(z.out)
  BY <1>2, <1>14, <1>17, <1>18, FlushKeepsFile
<1>20. Waiting(z.p) = {}
  <2>1. Cardinality(Waiting(q.p)) = n
    BY <1>2, <1>14, <1>15, <1>16, WaitingCount
  <2>2. Cardinality(Waiting(z.p)) = 0 /\ IsFiniteSet(Waiting(z.p))
    BY <1>2, <1>19, <2>1, WaitingCount
  <2> QED BY <2>2, FS_EmptySet
<1>21. PICK g, w : g = file' /\ w = queued'
  OBVIOUS
<1>22. w = z.p /\ g = h \o z.out /\ closed' = TRUE /\ index' = index /\ day' = day /\ stream' = stream
  <2>1. z = Samples!FlushAll(q.p)
    BY <1>16, <1>17 DEF Samples!FlushAll
  <2> QED BY <1>1, <1>3, <1>11, <1>13, <1>21, <2>1 DEF Samples!Finish
<1>23. IsSeq(f) /\ IsSeq(q.out) /\ IsSeq(h) /\ IsSeq(z.out)
  BY <1>2, <1>12, <1>14, <1>19 DEF FileInv, Flushed
<1>24. ASSUME NEW i \in 1..Len(g)
       PROVE  (\E j \in 1..Len(f) : g[i] = f[j]) \/ \E j \in Waiting(p) : g[i] = p.rows[j]
  <2>1. (\E j \in 1..Len(h) : g[i] = h[j]) \/ \E j \in 1..Len(z.out) : g[i] = z.out[j]
    BY <1>22, <1>23, ConcatElements
  <2>2. \A m \in 1..Len(h) : (\E j \in 1..Len(f) : h[m] = f[j]) \/ \E j \in 1..Len(q.out) : h[m] = q.out[j]
    BY <1>13, <1>23, ConcatElements
  <2>3. /\ \A m \in 1..Len(q.out) : \E j \in Waiting(p) : q.out[m] = p.rows[j]
        /\ \A j \in Waiting(q.p) : j \in Waiting(p) /\ q.p.rows[j] = p.rows[j]
    BY <1>7, <1>8, <1>12 DEF Flushed
  <2>4. \A m \in 1..Len(z.out) : \E j \in Waiting(p) : z.out[m] = p.rows[j]
    BY <1>19, <2>3
  <2>5. CASE \E j \in 1..Len(z.out) : g[i] = z.out[j]
    BY <2>4, <2>5
  <2>6. CASE \E j \in 1..Len(h) : g[i] = h[j]
    <3>1. PICK m \in 1..Len(h) : g[i] = h[m]
      BY <2>6
    <3> QED BY <2>2, <2>3, <3>1
  <2> QED BY <2>1, <2>5, <2>6
<1>25. RowsInv(w, g, k)
  <2>1. Cardinality(Waiting(z.p)) = 0 /\ Cardinality(Waiting(p)) \in Nat
    BY <1>2, <1>20, FS_EmptySet, WaitingCount, FS_CardinalityType
  <2>2. 0 <= MaxPending
    OBVIOUS
  <2> QED BY <1>2, <1>19, <1>22, <2>1, <2>2 DEF RowsInv
<1>26. \A i \in 1..Len(g) : ClearOf(day, g[i])
  <2>1. /\ \A i \in 1..Len(f) : ClearOf(day, f[i])
        /\ \A i \in Waiting(p) : ClearOf(day, p.rows[i])
    BY <1>1 DEF SampleInv
  <2> QED BY <1>24, <2>1
<1>27. StreamInv'
  BY <1>22 DEF SampleInv, StreamInv, InOrder
<1>28. SampleInv'
  BY <1>1, <1>20, <1>21, <1>22, <1>25, <1>26, <1>27 DEF SampleInv
<1> QED BY <1>1, <1>21, <1>24, <1>28

(* The time of the stream is a time.                                       *)
LEMMA NowIsTime == ASSUME StreamInv PROVE Samples!Now \in Nat
<1>1. CASE stream = <<>>
  BY <1>1 DEF Samples!Now
<1>2. CASE stream # <<>>
  <2>1. stream \in Seq({stream[i] : i \in 1..Len(stream)})
    BY DEF StreamInv, IsSeq
  <2>2. Len(stream) \in 1..Len(stream)
    BY <1>2, <2>1
  <2> QED BY <1>2, <2>2 DEF Samples!Now, StreamInv, Samples!IsEvent
<1> QED BY <1>1, <1>2

(* An event read at another time is one still.                             *)
LEMMA EventMoves ==
    ASSUME NEW p, Samples!IsEvent(p), NEW n \in Nat, NEW e, e = [p EXCEPT !.t = n]
    PROVE  Samples!IsEvent(e) /\ e.t = n
BY DEF Samples!IsEvent

(* Whatever a day of samples does next, it keeps its rows.                 *)
LEMMA StepKeepsRows ==
    ASSUME PartsAssumption, SampleInv, [Samples!Next]_(Samples!vars)
    PROVE  SampleInv'
<1>0. MaxPending \in Nat /\ Steps \subseteq Nat /\ \A d \in Days : \A x \in d.events : Samples!IsEvent(x)
  BY DEF PartsAssumption, Samples!StreamBounds
<1>1. CASE UNCHANGED Samples!vars
  BY <1>1 DEF Samples!vars, SampleInv, StreamInv, InOrder
<1>2. CASE Samples!Finish
  BY <1>0, <1>2, FinishKeepsRows
<1>3. ASSUME NEW p \in day.events, NEW d \in Steps, Samples!Read([p EXCEPT !.t = Samples!Now + d])
      PROVE  SampleInv'
  <2>1. PICK e : e = [p EXCEPT !.t = Samples!Now + d]
    OBVIOUS
  <2>2. Samples!IsEvent(e) /\ e.t >= Samples!Now
    <3>1. Samples!Now \in Nat
      BY NowIsTime DEF SampleInv
    <3>2. PICK n \in Nat : n = Samples!Now + d /\ n >= Samples!Now
      BY <1>0, <3>1
    <3>3. Samples!IsEvent(p)
      BY <1>0 DEF SampleInv
    <3>4. e = [p EXCEPT !.t = n]
      BY <2>1, <3>2
    <3> QED BY <3>2, <3>3, <3>4, EventMoves
  <2>3. StreamInv' /\ day' = day /\ closed' = closed /\ ~closed
    <3>1. stream' = Append(stream, e) /\ day' = day /\ closed' = closed /\ ~closed
      BY <1>3, <2>1 DEF Samples!Read
    <3> QED BY <2>2, <3>1, ReadKeepsOrder DEF SampleInv
  <2>4. CASE e.k = "ref"
    <3>1. queued' = queued /\ file' = file /\ index' = index
      BY <1>3, <2>1, <2>4 DEF Samples!Read, Samples!Reference
    <3> QED BY <2>3, <3>1 DEF SampleInv
  <2>5. CASE e.k # "ref"
    <3>1. Samples!Primary(e)
      BY <1>3, <2>1, <2>5 DEF Samples!Read
    <3> QED BY <1>0, <2>2, <2>3, <3>1, PrimaryKeepsRows
  <2> QED BY <2>4, <2>5
<1> QED BY <1>1, <1>2, <1>3 DEF Samples!Next

(* A day of samples starts with no row.                                    *)
LEMMA StartsWithoutRows == ASSUME PartsAssumption, Samples!Init PROVE SampleInv
<1>0. MaxPending \in Nat
  BY DEF PartsAssumption, Samples!StreamBounds
<1>1. stream = <<>> /\ file = <<>> /\ index = 0 /\ closed = FALSE /\ day \in Days /\ queued = Samples!NewPending
  BY DEF Samples!Init
<1>2. queued = [order |-> <<>>, next |-> 1, rows |-> <<>>, remaining |-> <<>>]
  BY <1>1 DEF Samples!NewPending
<1>3. IsQueue(queued) /\ queued.order = <<>> /\ queued.next = 1 /\ queued.rows = <<>> /\ queued.remaining = <<>>
  BY <1>2 DEF IsQueue
<1>4. Waiting(queued) = {}
  BY <1>3 DEF Waiting
<1>5. QueueInv(queued, 0)
  <2>1. /\ queued.order \in Seq(Nat) /\ queued.next \in 1..(Len(queued.order) + 1)
        /\ Len(queued.order) = 0 /\ Rising(queued.order)
    BY <1>3 DEF Rising
  <2>2. queued.rows = [i \in Waiting(queued) |-> queued.rows[i]] /\ DOMAIN queued.remaining = Waiting(queued)
    BY <1>3, <1>4
  <2> QED BY <1>3, <1>4, <2>1, <2>2 DEF QueueInv
<1>6. IsSeq(file) /\ Len(file) = 0 /\ IsSeq(stream) /\ Len(stream) = 0
  BY <1>1 DEF IsSeq
<1>7. FileInv(file, queued, 0) /\ Cardinality(Waiting(queued)) = 0
  <2>1. Cardinality(Waiting(queued)) = 0
    BY <1>4, FS_EmptySet
  <2> QED BY <1>4, <1>6, <2>1 DEF FileInv
<1>8. RowsInv(queued, file, 0)
  BY <1>0, <1>5, <1>7 DEF RowsInv
<1>9. StreamInv
  BY <1>6 DEF StreamInv, InOrder
<1>10. RowsInv(queued, file, index) /\ closed \in BOOLEAN
  BY <1>1, <1>8
<1>11. (\A i \in 1..Len(file) : ClearOf(day, file[i])) /\ \A i \in Waiting(queued) : ClearOf(day, queued.rows[i])
  BY <1>4, <1>6
<1> QED BY <1>1, <1>4, <1>9, <1>10, <1>11 DEF SampleInv

(* The longest horizon is one, and none is longer.                         *)
LEMMA LongestHorizon ==
    ASSUME PartsAssumption
    PROVE  Samples!MaxHorizon \in Nat /\ \A h \in Horizons : h \in Nat /\ h <= Samples!MaxHorizon
<1>1. Horizons \in SUBSET Nat /\ Horizons # {} /\ IsFiniteSet(Horizons)
  BY SampleSizes DEF PartsAssumption, Samples!LabelBounds
<1>2. \E h \in Horizons : \A g \in Horizons : g <= h
  <2>1. PICK x \in Horizons : \A y \in Horizons : x >= y
    BY <1>1, GreatestExists
  <2> QED BY <1>1, <2>1
<1>3. Samples!MaxHorizon \in Horizons /\ \A g \in Horizons : g <= Samples!MaxHorizon
  BY <1>2 DEF Samples!MaxHorizon
<1> QED BY <1>1, <1>3

(* Rows in that state are stored once and in order, and keep off the gaps. *)
LEMMA KeptRowsAreSound ==
    ASSUME PartsAssumption, SampleInv
    PROVE  Samples!RowsOnceInOrder /\ Samples!ValidRowsAvoidGaps
<1>1. RowsInv(queued, file, index) /\ QueueInv(queued, index) /\ FileInv(file, queued, index)
  BY DEF SampleInv, RowsInv
<1>2. DOMAIN queued.rows = Waiting(queued)
      /\ \A i \in Waiting(queued) : queued.rows[i].index = i /\ queued.rows[i].valid /\ i \in Nat /\ i < index
  <2>1. index \in Nat
    BY DEF SampleInv, RowsInv
  <2>2. \A i \in Waiting(queued) : i \in Nat /\ i < index
    <3>1. PICK a \in Nat, b \in Nat : a = queued.next /\ b = Len(queued.order) /\ 1 <= a
      BY <1>1, <2>1, QueueTypes
    <3>2. \A j \in 1..b : queued.order[j] \in Nat /\ queued.order[j] < index
      BY <1>1, <2>1, <3>1, QueueTypes
    <3>3. \A j \in a..b : j \in 1..b
      BY <3>1
    <3> QED BY <3>1, <3>2, <3>3 DEF Waiting
  <2> QED BY <1>1, <2>2 DEF QueueInv
<1>3. Samples!RowSet = {file[i] : i \in 1..Len(file)} \cup {queued.rows[i] : i \in Waiting(queued)}
  BY <1>2 DEF Samples!RowSet
<1>4. /\ \A i \in 1..Len(file) : file[i].index \in Nat /\ file[i].index < index
      /\ \A x \in 0..(index - 1) : x \in Waiting(queued) \/ \E i \in 1..Len(file) : file[i].index = x
      /\ index \in Nat
  BY <1>1 DEF FileInv, RowsInv
<1>5. {r.index : r \in Samples!RowSet} = 0..index - 1
  <2>1. \A r \in Samples!RowSet : r.index \in Nat /\ r.index < index
    BY <1>2, <1>3, <1>4
  <2>2. \A r \in Samples!RowSet : r.index \in 0..index - 1
    BY <1>4, <2>1
  <2>3. \A x \in 0..index - 1 : \E r \in Samples!RowSet : r.index = x
    BY <1>2, <1>3, <1>4
  <2> QED BY <2>2, <2>3
<1>6. Samples!RowsOnceInOrder
  <2>1. Len(file) + Samples!Cardinality(DOMAIN queued.rows) = index
        /\ Samples!Cardinality(DOMAIN queued.rows) <= MaxPending
    BY <1>1, <1>2, SampleSizes DEF FileInv, RowsInv
  <2>2. /\ \A i, j \in 1..Len(file) : i < j /\ file[i].valid /\ file[j].valid => file[i].index < file[j].index
        /\ \A i \in 1..Len(file), j \in DOMAIN queued.rows : file[i].valid => file[i].index < j
    BY <1>1, <1>2 DEF FileInv
  <2>3. closed => queued.rows = <<>>
    <3> SUFFICES ASSUME closed PROVE queued.rows = <<>>
      OBVIOUS
    <3>1. Waiting(queued) = {}
      BY DEF SampleInv
    <3>2. queued.rows = [i \in {} |-> queued.rows[i]]
      BY <1>1, <3>1 DEF QueueInv
    <3> QED BY <3>2
  <2> QED BY <1>5, <2>1, <2>2, <2>3 DEF Samples!RowsOnceInOrder
<1>7. Samples!ValidRowsAvoidGaps
  <2> SUFFICES ASSUME NEW r \in Samples!RowSet, r.valid, NEW g \in day.gaps, NEW h \in Horizons,
                      g[2] > r.ts - Lookback, g[1] < r.ts + h
               PROVE  FALSE
    BY DEF Samples!ValidRowsAvoidGaps, Samples!gaps
  <2>1. ClearOf(day, r)
    BY <1>3 DEF SampleInv
  <2>2. r.ts \in Nat /\ ~(g[1] < r.ts + Samples!MaxHorizon /\ g[2] > r.ts - Lookback)
    BY <2>1 DEF ClearOf
  <2>3. h \in Nat /\ Samples!MaxHorizon \in Nat /\ h <= Samples!MaxHorizon
    BY LongestHorizon
  <2>4. g[1] \in Int
    <3>1. day.gaps \subseteq Int \X Int
      BY DEF SampleInv, PartsAssumption, Samples!StreamBounds
    <3> QED BY <3>1
  <2>5. PICK x \in Int, t \in Nat, m \in Nat : x = g[1] /\ t = r.ts /\ m = Samples!MaxHorizon
    BY <2>2, <2>3, <2>4
  <2>6. x < t + h => x < t + m
    BY <2>3, <2>5
  <2> QED BY <2>2, <2>5, <2>6
<1> QED BY <1>6, <1>7

(* Each sample of a day is stored exactly once, the valid ones in order    *)
(* and ahead of every one still in flight, and a valid one keeps its       *)
(* lookback and its longest label clear of gaps.                           *)
THEOREM RowsAreStoredOnce == FeedSpec => []RowsAreSound
<1> DEFINE Inv == part = "samples" => SampleInv
<1>1. FeedInit => Inv
  BY PartsAssumption, StartsWithoutRows DEF FeedInit
<1>2. Inv /\ [FeedNext]_feedVars => Inv'
  <2> SUFFICES ASSUME Inv, [FeedNext]_feedVars, part' = "samples" PROVE SampleInv'
    OBVIOUS
  <2>1. part = "samples" /\ [Samples!Next]_(Samples!vars)
    BY DEF FeedNext, feedVars, sampleVars, Samples!vars
  <2> QED BY <2>1, PartsAssumption, StepKeepsRows
<1>3. Inv => RowsAreSound
  BY PartsAssumption, KeptRowsAreSound DEF RowsAreSound
<1> QED BY <1>1, <1>2, <1>3, PTL DEF FeedSpec
-----------------------------------------------------------------------------
(* Labels, as relations between a stream read so far and a row: the first  *)
(* label event at or after a deadline, and the mid in force before it.     *)
Shows(s, j) == Samples!LabelEvent(s[j])
MidOf(s, j) == Samples!Mid(s[j].b)
MidUpTo(s, n, m) ==
    \/ m = 0 /\ \A i \in 1..n : ~Shows(s, i)
    \/ \E i \in 1..n : Shows(s, i) /\ (\A j \in 1..n : Shows(s, j) => j <= i) /\ m = MidOf(s, i)
Late(s, r, h, j) == j > r.at /\ Shows(s, j) /\ s[j].t >= r.ts + h
ExitMid(t, due, m, mid) == IF t = due \/ m = 0 THEN mid ELSE m
NoneLate(s, r, h) == \A j \in 1..Len(s) : ~Late(s, r, h, j)
Settled(s, r, h, v) ==
    \E j \in 1..Len(s) :
      /\ Late(s, r, h, j) /\ \A i \in 1..Len(s) : Late(s, r, h, i) => j <= i
      /\ \E m : /\ MidUpTo(s, j - 1, m)
                /\ v = Samples!RetBps(ExitMid(s[j].t, r.ts + h, m, MidOf(s, j)), r.entry)
Hits(s, r, j) == \/ MidOf(s, j) >= r.entry + BarrierMult * r.vol
                 \/ MidOf(s, j) <= r.entry - BarrierMult * r.vol
Closes(s, r, j) == j > r.at /\ Shows(s, j) /\ (s[j].t > r.ts + TimeLimit \/ Hits(s, r, j))
TouchLabel(t, mid, r) == IF t > r.ts + TimeLimit THEN 0 ELSE IF mid > r.entry THEN 1 ELSE -1
NoneCloses(s, r) == \A j \in 1..Len(s) : ~Closes(s, r, j)
Ended(s, r, v) ==
    r.vol # 0 /\ \E j \in 1..Len(s) :
      /\ Closes(s, r, j) /\ \A i \in 1..Len(s) : Closes(s, r, i) => j <= i
      /\ v = TouchLabel(s[j].t, MidOf(s, j), r)
Grown(s, e, s1) ==
    Len(s) \in Nat /\ Len(s1) = Len(s) + 1 /\ s1[Len(s) + 1] = e /\ \A i \in 1..Len(s) : s1[i] = s[i]

(* The first and the last of some places of the stream are what the        *)
(* specification takes them to be.                                         *)
LEMMA EndsOfPlaces ==
    ASSUME NEW J, J \subseteq Int, NEW a \in J
    PROVE  /\ (\A i \in J : a <= i) => Samples!FirstAt(J) = a
           /\ (\A i \in J : i <= a) => Samples!LastAt(J) = a
<1>1. ASSUME \A i \in J : a <= i PROVE Samples!FirstAt(J) = a
  <2>1. Samples!FirstAt(J) \in J /\ \A i \in J : Samples!FirstAt(J) <= i
    BY <1>1 DEF Samples!FirstAt
  <2>2. PICK x \in J : x = Samples!FirstAt(J) /\ \A i \in J : x <= i
    BY <2>1
  <2>3. x <= a /\ a <= x /\ x \in Int /\ a \in Int
    BY <1>1, <2>2
  <2> QED BY <2>2, <2>3
<1>2. ASSUME \A i \in J : i <= a PROVE Samples!LastAt(J) = a
  <2>1. Samples!LastAt(J) \in J /\ \A i \in J : i <= Samples!LastAt(J)
    BY <1>2 DEF Samples!LastAt
  <2>2. PICK x \in J : x = Samples!LastAt(J) /\ \A i \in J : i <= x
    BY <2>1
  <2>3. x <= a /\ a <= x /\ x \in Int /\ a \in Int
    BY <1>2, <2>2
  <2> QED BY <2>2, <2>3
<1> QED BY <1>1, <1>2

(* The mid before an event of the stream is the one its history gives.     *)
LEMMA MidBeforeIs ==
    ASSUME NEW j \in Nat, NEW m, MidUpTo(stream, j - 1, m)
    PROVE  Samples!MidBefore(j) = m
<1> DEFINE J == {i \in 1..(j - 1) : Samples!LabelEvent(stream[i])}
<1>1. J \subseteq Int
  OBVIOUS
<1>2. Samples!MidBefore(j) = IF J = {} THEN 0 ELSE Samples!Mid(stream[Samples!LastAt(J)].b)
  BY DEF Samples!MidBefore
<1>3. CASE m = 0 /\ \A i \in 1..(j - 1) : ~Shows(stream, i)
  <2>1. J = {}
    BY <1>3 DEF Shows
  <2> QED BY <1>2, <1>3, <2>1
<1>4. ASSUME NEW i \in 1..(j - 1), Shows(stream, i), \A k \in 1..(j - 1) : Shows(stream, k) => k <= i,
             m = MidOf(stream, i)
      PROVE  Samples!MidBefore(j) = m
  <2>1. i \in J /\ \A k \in J : k <= i
    BY <1>4 DEF Shows
  <2>2. Samples!LastAt(J) = i
    <3> HIDE DEF J
    <3> QED BY <1>1, <2>1, EndsOfPlaces
  <2> QED BY <1>2, <1>4, <2>1, <2>2 DEF MidOf
<1> QED BY <1>3, <1>4 DEF MidUpTo

(* The forward return of a row is the one related to it.                   *)
LEMMA ForwardReturnIs ==
    ASSUME Len(stream) \in Nat, NEW r, NEW h, NEW v,
           (v = None /\ NoneLate(stream, r, h)) \/ Settled(stream, r, h, v)
    PROVE  Samples!ForwardReturn(r, h) = v
<1> DEFINE L == {j \in Samples!LabelEvents(r.at) : stream[j].t >= r.ts + h}
<1>1. L = {j \in 1..Len(stream) : Late(stream, r, h, j)} /\ L \subseteq Int
  BY DEF Samples!LabelEvents, Samples!Positions, Late, Shows
<1>2. Samples!ForwardReturn(r, h) =
        IF L = {} THEN None
        ELSE Samples!RetBps(IF stream[Samples!FirstAt(L)].t = r.ts + h \/ Samples!MidBefore(Samples!FirstAt(L)) = 0
                            THEN Samples!Mid(stream[Samples!FirstAt(L)].b)
                            ELSE Samples!MidBefore(Samples!FirstAt(L)), r.entry)
  BY DEF Samples!ForwardReturn
<1> HIDE DEF L
<1>3. CASE v = None /\ \A j \in 1..Len(stream) : ~Late(stream, r, h, j)
  BY <1>1, <1>2, <1>3
<1>4. ASSUME NEW j \in 1..Len(stream), Late(stream, r, h, j),
             \A i \in 1..Len(stream) : Late(stream, r, h, i) => j <= i,
             NEW m, MidUpTo(stream, j - 1, m),
             v = Samples!RetBps(ExitMid(stream[j].t, r.ts + h, m, MidOf(stream, j)), r.entry)
      PROVE  Samples!ForwardReturn(r, h) = v
  <2>1. j \in L /\ \A i \in L : j <= i
    BY <1>1, <1>4
  <2>2. Samples!FirstAt(L) = j
    BY <1>1, <2>1, EndsOfPlaces
  <2>3. Samples!MidBefore(j) = m
    BY <1>4, MidBeforeIs
  <2> QED BY <1>2, <1>4, <2>1, <2>2, <2>3 DEF ExitMid, MidOf
<1> QED BY <1>3, <1>4 DEF NoneLate, Settled

(* The barrier label of a row is the one related to it.                    *)
LEMMA BarrierLabelIs ==
    ASSUME Len(stream) \in Nat, NEW r, NEW v,
           (v = None /\ (r.vol = 0 \/ NoneCloses(stream, r))) \/ Ended(stream, r, v)
    PROVE  Samples!BarrierLabel(r) = v
<1> DEFINE L == {j \in Samples!LabelEvents(r.at) :
                   stream[j].t > r.ts + TimeLimit \/ Hits(stream, r, j)}
<1>1. L = {j \in 1..Len(stream) : Closes(stream, r, j)} /\ L \subseteq Int
  BY DEF Samples!LabelEvents, Samples!Positions, Closes, Shows
<1>2. Samples!BarrierLabel(r) =
        IF L = {} \/ r.vol = 0 THEN None
        ELSE IF stream[Samples!FirstAt(L)].t > r.ts + TimeLimit THEN 0
        ELSE IF Samples!Mid(stream[Samples!FirstAt(L)].b) > r.entry THEN 1 ELSE -1
  BY DEF Samples!BarrierLabel, Hits, MidOf
<1> HIDE DEF L
<1>3. CASE v = None /\ (r.vol = 0 \/ \A j \in 1..Len(stream) : ~Closes(stream, r, j))
  BY <1>1, <1>2, <1>3
<1>4. ASSUME r.vol # 0, NEW j \in 1..Len(stream), Closes(stream, r, j),
             \A i \in 1..Len(stream) : Closes(stream, r, i) => j <= i,
             v = TouchLabel(stream[j].t, MidOf(stream, j), r)
      PROVE  Samples!BarrierLabel(r) = v
  <2>1. j \in L /\ \A i \in L : j <= i
    BY <1>1, <1>4
  <2>2. Samples!FirstAt(L) = j
    BY <1>1, <2>1, EndsOfPlaces
  <2> QED BY <1>2, <1>4, <2>1, <2>2 DEF TouchLabel, MidOf
<1> QED BY <1>3, <1>4 DEF NoneCloses, Ended

(* An event appended to the stream leaves what was there.                  *)
LEMMA AppendGrows ==
    ASSUME NEW s, IsSeq(s), NEW e, NEW s1, s1 = Append(s, e)
    PROVE  Grown(s, e, s1)
<1>1. PICK S : S = {s[i] : i \in 1..Len(s)} \cup {e}
  OBVIOUS
<1>2. s \in Seq(S) /\ e \in S
  BY <1>1 DEF IsSeq
<1>3. Len(s) \in Nat /\ Len(s1) = Len(s) + 1 /\ s1[Len(s) + 1] = e /\ \A i \in 1..Len(s) : s1[i] = s[i]
  BY <1>2, AppendProperties
<1> QED BY <1>3 DEF Grown

(* The last mid shown is that of the event read, if it shows one.          *)
LEMMA MidMoves ==
    ASSUME NEW s, NEW e, NEW s1, Grown(s, e, s1), NEW m, MidUpTo(s, Len(s), m)
    PROVE  /\ MidUpTo(s1, Len(s), m)
           /\ Samples!LabelEvent(e) => MidUpTo(s1, Len(s1), Samples!Mid(e.b))
           /\ ~Samples!LabelEvent(e) => MidUpTo(s1, Len(s1), m)
<1>1. PICK n \in Nat : n = Len(s) /\ Len(s1) = n + 1 /\ s1[n + 1] = e /\ \A i \in 1..n : s1[i] = s[i]
  BY DEF Grown
<1>2. \A i \in 1..n : (Shows(s1, i) <=> Shows(s, i)) /\ MidOf(s1, i) = MidOf(s, i)
  BY <1>1 DEF Shows, MidOf
<1>3. (Shows(s1, n + 1) <=> Samples!LabelEvent(e)) /\ MidOf(s1, n + 1) = Samples!Mid(e.b)
  BY <1>1 DEF Shows, MidOf
<1>4. n + 1 \in 1..(n + 1) /\ (\A i \in 1..n : i \in 1..(n + 1) /\ i <= n + 1)
      /\ (\A i \in 1..(n + 1) : i <= n + 1 /\ (i \in 1..n \/ i = n + 1))
  OBVIOUS
<1>5. MidUpTo(s1, n, m)
  BY <1>1, <1>2 DEF MidUpTo
<1>6. ASSUME Samples!LabelEvent(e) PROVE MidUpTo(s1, n + 1, Samples!Mid(e.b))
  BY <1>3, <1>4, <1>6 DEF MidUpTo
<1>7. ASSUME ~Samples!LabelEvent(e) PROVE MidUpTo(s1, n + 1, m)
  BY <1>3, <1>4, <1>5, <1>7 DEF MidUpTo
<1> QED BY <1>1, <1>5, <1>6, <1>7

(* A return once settled stays, and one that is not settles with the first *)
(* label event at or after its deadline.                                   *)
LEMMA ReturnMoves ==
    ASSUME NEW s, NEW e, NEW s1, Grown(s, e, s1), NEW r, r.at \in Nat, NEW h
    PROVE  /\ \A v : Settled(s, r, h, v) => Settled(s1, r, h, v)
           /\ NoneLate(s, r, h) /\ ~(Samples!LabelEvent(e) /\ e.t >= r.ts + h) => NoneLate(s1, r, h)
           /\ \A m : NoneLate(s, r, h) /\ r.at <= Len(s) /\ Samples!LabelEvent(e) /\ e.t >= r.ts + h
                     /\ MidUpTo(s, Len(s), m)
                => Settled(s1, r, h, Samples!RetBps(ExitMid(e.t, r.ts + h, m, Samples!Mid(e.b)), r.entry))
<1>1. PICK n \in Nat : n = Len(s) /\ Len(s1) = n + 1 /\ s1[n + 1] = e /\ \A i \in 1..n : s1[i] = s[i]
  BY DEF Grown
<1>2. \A i \in 1..n : /\ Late(s1, r, h, i) <=> Late(s, r, h, i)
                      /\ Shows(s1, i) <=> Shows(s, i)
                      /\ MidOf(s1, i) = MidOf(s, i)
  BY <1>1 DEF Shows, MidOf, Late
<1>3. /\ Shows(s1, n + 1) <=> Samples!LabelEvent(e)
      /\ MidOf(s1, n + 1) = Samples!Mid(e.b)
      /\ Late(s1, r, h, n + 1) <=> n + 1 > r.at /\ Samples!LabelEvent(e) /\ e.t >= r.ts + h
  BY <1>1 DEF Shows, MidOf, Late
<1>4. n + 1 \in 1..(n + 1) /\ (\A i \in 1..n : i \in 1..(n + 1) /\ i <= n + 1 /\ i \in Nat)
      /\ (\A i \in 1..(n + 1) : i <= n + 1 /\ (i \in 1..n \/ i = n + 1))
      /\ (n + 1) - 1 = n
  OBVIOUS
<1>5. ASSUME NEW v, Settled(s, r, h, v) PROVE Settled(s1, r, h, v)
  <2>0. PICK j \in 1..n : /\ Late(s, r, h, j) /\ \A i \in 1..n : Late(s, r, h, i) => j <= i
                          /\ \E m : /\ MidUpTo(s, j - 1, m)
                                    /\ v = Samples!RetBps(ExitMid(s[j].t, r.ts + h, m, MidOf(s, j)), r.entry)
    BY <1>1, <1>5 DEF Settled
  <2>1. PICK m : /\ Late(s, r, h, j) /\ \A i \in 1..n : Late(s, r, h, i) => j <= i
                 /\ MidUpTo(s, j - 1, m)
                 /\ v = Samples!RetBps(ExitMid(s[j].t, r.ts + h, m, MidOf(s, j)), r.entry)
    BY <2>0
  <2>2. MidUpTo(s1, j - 1, m)
    <3>1. \A i \in 1..(j - 1) : i \in 1..n
      OBVIOUS
    <3> QED BY <1>2, <2>1, <3>1 DEF MidUpTo
  <2>3. j \in 1..(n + 1) /\ Late(s1, r, h, j) /\ \A i \in 1..(n + 1) : Late(s1, r, h, i) => j <= i
    <3>1. j \in 1..(n + 1) /\ j <= n + 1
      BY <1>4
    <3> QED BY <1>2, <1>4, <2>1, <3>1
  <2>4. v = Samples!RetBps(ExitMid(s1[j].t, r.ts + h, m, MidOf(s1, j)), r.entry)
    BY <1>1, <1>2, <2>1
  <2> QED BY <1>1, <2>2, <2>3, <2>4 DEF Settled
<1>6. ASSUME NoneLate(s, r, h), ~(Samples!LabelEvent(e) /\ e.t >= r.ts + h) PROVE NoneLate(s1, r, h)
  BY <1>1, <1>2, <1>3, <1>4, <1>6 DEF NoneLate
<1>7. ASSUME NEW m, NoneLate(s, r, h), r.at <= Len(s), Samples!LabelEvent(e), e.t >= r.ts + h,
             MidUpTo(s, Len(s), m)
      PROVE  Settled(s1, r, h, Samples!RetBps(ExitMid(e.t, r.ts + h, m, Samples!Mid(e.b)), r.entry))
  <2>1. n + 1 > r.at
    BY <1>1, <1>7
  <2>2. Late(s1, r, h, n + 1)
    BY <1>3, <1>7, <2>1
  <2>3. \A i \in 1..(n + 1) : Late(s1, r, h, i) => n + 1 <= i
    <3>1. \A i \in 1..n : ~Late(s1, r, h, i)
      BY <1>1, <1>2, <1>7 DEF NoneLate
    <3> QED BY <1>4, <3>1
  <2>4. MidUpTo(s1, (n + 1) - 1, m)
    <3>1. MidUpTo(s1, Len(s), m)
      BY <1>7, MidMoves
    <3> QED BY <1>1, <1>4, <3>1
  <2> QED BY <1>1, <1>3, <1>4, <2>2, <2>3, <2>4 DEF Settled
<1> QED BY <1>5, <1>6, <1>7

(* A barrier once ended stays, and one that has not ends with the first    *)
(* label event that touches it or comes after its time.                    *)
LEMMA BarrierMoves ==
    ASSUME NEW s, NEW e, NEW s1, Grown(s, e, s1), NEW r, r.at \in Nat, NEW mid, mid = Samples!Mid(e.b)
    PROVE  /\ \A v : Ended(s, r, v) => Ended(s1, r, v)
           /\ NoneCloses(s, r)
              /\ ~(Samples!LabelEvent(e) /\ \/ e.t > r.ts + TimeLimit
                                            \/ mid >= r.entry + BarrierMult * r.vol
                                            \/ mid <= r.entry - BarrierMult * r.vol)
                => NoneCloses(s1, r)
           /\ NoneCloses(s, r) /\ r.at <= Len(s) /\ r.vol # 0 /\ Samples!LabelEvent(e)
              /\ (\/ e.t > r.ts + TimeLimit
                  \/ mid >= r.entry + BarrierMult * r.vol
                  \/ mid <= r.entry - BarrierMult * r.vol)
                => Ended(s1, r, TouchLabel(e.t, mid, r))
<1>1. PICK n \in Nat : n = Len(s) /\ Len(s1) = n + 1 /\ s1[n + 1] = e /\ \A i \in 1..n : s1[i] = s[i]
  BY DEF Grown
<1> DEFINE Ending == \/ e.t > r.ts + TimeLimit
                     \/ mid >= r.entry + BarrierMult * r.vol
                     \/ mid <= r.entry - BarrierMult * r.vol
<1>2. \A i \in 1..n : (Closes(s1, r, i) <=> Closes(s, r, i)) /\ MidOf(s1, i) = MidOf(s, i)
  BY <1>1 DEF Shows, MidOf, Closes, Hits
<1>3. /\ MidOf(s1, n + 1) = mid
      /\ Closes(s1, r, n + 1) <=> n + 1 > r.at /\ Samples!LabelEvent(e) /\ Ending
  BY <1>1 DEF Shows, MidOf, Closes, Hits
<1>4. n + 1 \in 1..(n + 1) /\ (\A i \in 1..n : i \in 1..(n + 1) /\ i <= n + 1 /\ i \in Nat)
      /\ (\A i \in 1..(n + 1) : i <= n + 1 /\ (i \in 1..n \/ i = n + 1))
  OBVIOUS
<1> HIDE DEF Ending
<1>5. ASSUME NEW v, Ended(s, r, v) PROVE Ended(s1, r, v)
  <2>1. PICK j \in 1..n : /\ Closes(s, r, j) /\ \A i \in 1..n : Closes(s, r, i) => j <= i
                          /\ v = TouchLabel(s[j].t, MidOf(s, j), r) /\ r.vol # 0
    BY <1>1, <1>5 DEF Ended
  <2>2. j \in 1..(n + 1) /\ Closes(s1, r, j) /\ \A i \in 1..(n + 1) : Closes(s1, r, i) => j <= i
    <3>1. j \in 1..(n + 1) /\ j <= n + 1
      BY <1>4
    <3> QED BY <1>2, <1>4, <2>1, <3>1
  <2>3. v = TouchLabel(s1[j].t, MidOf(s1, j), r)
    BY <1>1, <1>2, <2>1
  <2> QED BY <1>1, <2>1, <2>2, <2>3 DEF Ended
<1>6. ASSUME NoneCloses(s, r), ~(Samples!LabelEvent(e) /\ Ending) PROVE NoneCloses(s1, r)
  BY <1>1, <1>2, <1>3, <1>4, <1>6 DEF NoneCloses
<1>7. ASSUME NoneCloses(s, r), r.at <= Len(s), r.vol # 0, Samples!LabelEvent(e), Ending
      PROVE  Ended(s1, r, TouchLabel(e.t, mid, r))
  <2>1. n + 1 > r.at
    BY <1>1, <1>7
  <2>2. Closes(s1, r, n + 1)
    BY <1>3, <1>7, <2>1
  <2>3. \A i \in 1..(n + 1) : Closes(s1, r, i) => n + 1 <= i
    <3>1. \A i \in 1..n : ~Closes(s1, r, i)
      BY <1>1, <1>2, <1>7 DEF NoneCloses
    <3> QED BY <1>4, <3>1
  <2> QED BY <1>1, <1>3, <1>4, <1>7, <2>2, <2>3 DEF Ended
<1> QED BY <1>5, <1>6, <1>7 DEF Ending

(* A queue of deadlines of samples so far, none later than one horizon     *)
(* from now, in the order in which they fall due.                          *)
Entries(q) == {q[i] : i \in 1..Len(q)}
Due == [deadline : Nat, index : Nat, entry : Nat]
DueQueue(q, k, lim) ==
    /\ q \in Seq(Due)
    /\ \A i, j \in 1..Len(q) : i <= j => q[i].deadline <= q[j].deadline
    /\ \A i \in 1..Len(q) : q[i].index < k /\ q[i].deadline <= lim
DueQueues(P, k, t) == P = [h \in Horizons |-> P[h]] /\ \A h \in Horizons : DueQueue(P[h], k, t + h)
LeftAfter(q, limit) == {x \in Entries(q) : x.deadline > limit}
DoneOf(x, h, exit) == [index |-> x.index, h |-> h, ret |-> Samples!RetBps(exit, x.entry)]

(* What the places of such a queue hold.                                   *)
LEMMA DueTypes ==
    ASSUME NEW q, NEW k, NEW lim, DueQueue(q, k, lim)
    PROVE  /\ Len(q) \in Nat
           /\ \A i \in 1..Len(q) : q[i] \in Due /\ q[i].deadline \in Nat /\ q[i].index \in Nat /\ q[i].entry \in Nat
           /\ \A x \in Entries(q) : x \in Due /\ x.deadline \in Nat /\ x.index \in Nat /\ x.index < k
                                  /\ x.entry \in Nat /\ x.deadline <= lim
<1>1. \A x \in Due : x.deadline \in Nat /\ x.index \in Nat /\ x.entry \in Nat
  BY DEF Due
<1>2. q \in Seq(Due) /\ \A i \in 1..Len(q) : q[i].index < k /\ q[i].deadline <= lim
  BY DEF DueQueue
<1>3. Len(q) \in Nat /\ \A i \in 1..Len(q) : q[i] \in Due
  BY <1>2
<1> QED BY <1>1, <1>2, <1>3 DEF Entries

(* The run of due deadlines at the head of a queue is all of them.         *)
LEMMA HeadIsDue ==
    ASSUME NEW q, NEW k, NEW lim, DueQueue(q, k, lim), NEW limit \in Int
    PROVE  /\ Samples!DueCount(q, limit) \in 0..Len(q)
           /\ \A i \in 1..Len(q) : i <= Samples!DueCount(q, limit) <=> q[i].deadline <= limit
<1>1. PICK b \in Nat : b = Len(q)
  BY DueTypes
<1>2. \A i \in 1..b : q[i].deadline \in Nat
  BY <1>1, DueTypes
<1>3. \A i, j \in 1..b : i <= j => q[i].deadline <= q[j].deadline
  BY <1>1 DEF DueQueue
<1> DEFINE R == {i \in 1..b : q[i].deadline <= limit}
           Is(n) == (\A i \in 1..n : q[i].deadline <= limit) /\ (n = b \/ q[n + 1].deadline > limit)
<1>4. PICK n \in 0..(b - 1 + 1) : (\A i \in 1..b : i < 1 + n => i \in R) /\ (1 + n \in 1..b => 1 + n \notin R)
  <2> HIDE DEF R
  <2>1. 1 \in Nat /\ 1 <= b + 1
    OBVIOUS
  <2> QED BY ONLY <2>1, b \in Nat, HeadExists
<1>5. n \in 0..b /\ Is(n)
  <2>1. n \in 0..b /\ \A i \in 1..n : i \in 1..b /\ i < 1 + n
    OBVIOUS
  <2>2. \A i \in 1..n : q[i].deadline <= limit
    BY <1>4, <2>1
  <2>3. ASSUME n # b PROVE q[n + 1].deadline > limit
    <3>1. n + 1 \in 1..b /\ 1 + n = n + 1
      BY <2>1, <2>3
    <3>2. ~(q[n + 1].deadline <= limit) /\ q[n + 1].deadline \in Nat
      BY <1>2, <1>4, <3>1
    <3> QED BY <3>2
  <2> QED BY <2>1, <2>2, <2>3
<1>6. Samples!DueCount(q, limit) = CHOOSE x \in 0..b : Is(x)
  BY <1>1 DEF Samples!DueCount
<1> HIDE DEF Is
<1>7. PICK c \in 0..b : c = Samples!DueCount(q, limit) /\ Is(c)
  BY <1>5, <1>6
<1>8. \A i \in 1..b : i <= c <=> q[i].deadline <= limit
  <2> SUFFICES ASSUME NEW i \in 1..b PROVE i <= c <=> q[i].deadline <= limit
    OBVIOUS
  <2>1. ASSUME i <= c PROVE q[i].deadline <= limit
    BY <1>7, <2>1 DEF Is
  <2>2. ASSUME ~(i <= c) PROVE ~(q[i].deadline <= limit)
    <3>1. c + 1 \in 1..b /\ c + 1 <= i /\ c # b
      BY <2>2
    <3>2. q[c + 1].deadline > limit
      BY <1>7, <3>1 DEF Is
    <3>3. q[c + 1].deadline <= q[i].deadline /\ q[c + 1].deadline \in Nat /\ q[i].deadline \in Nat
      BY <1>2, <1>3, <3>1
    <3> QED BY <3>2, <3>3
  <2> QED BY <2>1, <2>2
<1> QED BY <1>1, <1>7, <1>8

SplitIs(q, n, q1, limit) ==
    /\ Entries(q1) = LeftAfter(q, limit)
    /\ {q[i] : i \in 1..n} = {x \in Entries(q) : x.deadline <= limit}

(* What is left of a queue when the due deadlines are taken off its head.  *)
LEMMA DueSplit ==
    ASSUME NEW q, NEW k, NEW lim, DueQueue(q, k, lim), NEW limit \in Int,
           NEW n, n = Samples!DueCount(q, limit), NEW q1, q1 = SubSeq(q, n + 1, Len(q))
    PROVE  DueQueue(q1, k, lim) /\ SplitIs(q, n, q1, limit)
<1>1. PICK b \in Nat : b = Len(q)
  BY DueTypes
<1>2. q \in Seq(Due) /\ \A i \in 1..b : q[i] \in Due
  BY <1>1, DueTypes DEF DueQueue
<1>3. n \in 0..b /\ \A i \in 1..b : i <= n <=> q[i].deadline <= limit
  BY <1>1, HeadIsDue
<1>4. /\ \A i \in 1..b : q[i].deadline \in Nat /\ q[i].index < k /\ q[i].deadline <= lim
      /\ \A i, j \in 1..b : i <= j => q[i].deadline <= q[j].deadline
  <2>1. \A i \in 1..b : q[i].deadline \in Nat
    BY <1>1, DueTypes
  <2> QED BY <1>1, <2>1 DEF DueQueue
<1>5. PICK c \in Nat : c = b - n
  BY <1>3
<1>6. q1 \in Seq(Due) /\ Len(q1) = c /\ \A i \in 1..c : q1[i] = q[n + i]
  <2>1. \A i \in (n + 1)..b : i \in 1..b
    BY <1>3
  <2>2. q1 \in Seq(Due) /\ Len(q1) = (IF n + 1 <= b THEN b - (n + 1) + 1 ELSE 0)
        /\ \A i \in 1..(b - (n + 1) + 1) : q1[i] = q[(n + 1) + i - 1]
    BY <1>1, <1>2, <1>3, <2>1, SubSeqProperties
  <2>3. b - (n + 1) + 1 = c /\ (n + 1 <= b \/ c = 0) /\ \A i \in 1..c : (n + 1) + i - 1 = n + i
    BY <1>3, <1>5
  <2> QED BY <2>2, <2>3
<1>7. \A i \in 1..c : n + i \in 1..b /\ ~(n + i <= n)
  BY <1>3, <1>5
<1>8. \A i \in 1..b : ~(i <= n) => \E j \in 1..c : i = n + j
  <2> SUFFICES ASSUME NEW i \in 1..b, ~(i <= n) PROVE \E j \in 1..c : i = n + j
    OBVIOUS
  <2>1. i - n \in 1..c /\ i = n + (i - n)
    BY <1>3, <1>5
  <2> QED BY <2>1
<1>9. DueQueue(q1, k, lim)
  <2>1. \A i, j \in 1..c : i <= j => q1[i].deadline <= q1[j].deadline
    <3> SUFFICES ASSUME NEW i \in 1..c, NEW j \in 1..c, i <= j PROVE q1[i].deadline <= q1[j].deadline
      OBVIOUS
    <3>1. n + i <= n + j
      BY <1>3
    <3> QED BY <1>4, <1>6, <1>7, <3>1
  <2>2. \A i \in 1..c : q1[i].index < k /\ q1[i].deadline <= lim
    BY <1>4, <1>6, <1>7
  <2> QED BY <1>6, <2>1, <2>2 DEF DueQueue
<1>10. Entries(q1) = LeftAfter(q, limit)
  <2>1. \A x \in Entries(q1) : x \in LeftAfter(q, limit)
    <3> SUFFICES ASSUME NEW i \in 1..c PROVE q1[i] \in LeftAfter(q, limit)
      BY <1>6 DEF Entries
    <3>1. n + i \in 1..b /\ q1[i] = q[n + i] /\ ~(q[n + i].deadline <= limit) /\ q[n + i].deadline \in Nat
      BY <1>3, <1>4, <1>6, <1>7
    <3>2. q[n + i].deadline > limit
      BY <3>1
    <3> QED BY <1>1, <3>1, <3>2 DEF LeftAfter, Entries
  <2>2. ASSUME NEW i \in 1..b, q[i].deadline > limit PROVE q[i] \in Entries(q1)
    <3>1. ~(q[i].deadline <= limit)
      BY <1>4, <2>2
    <3>2. PICK j \in 1..c : i = n + j
      BY <1>3, <1>8, <3>1
    <3> QED BY <1>6, <3>2 DEF Entries
  <2> QED BY <1>1, <2>1, <2>2 DEF LeftAfter, Entries
<1>11. {q[i] : i \in 1..n} = {x \in Entries(q) : x.deadline <= limit}
  <2>1. \A i \in 1..n : i \in 1..b /\ i <= n
    BY <1>3
  <2>2. \A i \in 1..b : i <= n => i \in 1..n
    BY <1>3
  <2> QED BY <1>1, <1>3, <2>1, <2>2 DEF Entries
<1> QED BY <1>9, <1>10, <1>11 DEF SplitIs

(* What a limit makes of the queues: what is due by then leaves them with  *)
(* the return to the mid given.                                            *)
ResolveMove(P, r, k, t, limit, exit) ==
    /\ DueQueues(r.pending, k, t)
    /\ \A h \in Horizons : Entries(r.pending[h]) = LeftAfter(P[h], limit)
    /\ \A d : d \in r.done <=> \E h \in Horizons : \E x \in Entries(P[h]) :
                                 x.deadline <= limit /\ d = DoneOf(x, h, exit)

(* What falls due leaves the queues, and its return is the one to the mid  *)
(* given.                                                                  *)
LEMMA Resolves ==
    ASSUME PartsAssumption, NEW k, NEW t, NEW f, DueQueues(f.pending, k, t), NEW limit \in Int, NEW exit,
           NEW r, r = Samples!ResolveDue(f, limit, exit)
    PROVE  ResolveMove(f.pending, r, k, t, limit, exit)
<1> DEFINE P == f.pending
           n(h) == Samples!DueCount(P[h], limit)
           D(h) == {[index |-> P[h][i].index, h |-> h, ret |-> Samples!RetBps(exit, P[h][i].entry)] : i \in 1..n(h)}
<1>1. /\ r.pending = [h \in Horizons |-> SubSeq(P[h], n(h) + 1, Len(P[h]))]
      /\ r.done = UNION {D(h) : h \in Horizons}
  BY DEF Samples!ResolveDue
<1>2. ASSUME NEW h \in Horizons
      PROVE  /\ DueQueue(r.pending[h], k, t + h)
             /\ Entries(r.pending[h]) = LeftAfter(P[h], limit)
             /\ {P[h][i] : i \in 1..n(h)} = {x \in Entries(P[h]) : x.deadline <= limit}
  <2>1. DueQueue(P[h], k, t + h)
    BY <1>2 DEF DueQueues
  <2>2. r.pending[h] = SubSeq(P[h], n(h) + 1, Len(P[h]))
    BY <1>1, <1>2
  <2>3. PICK c, q, q1, lim : c = n(h) /\ q = P[h] /\ q1 = r.pending[h] /\ lim = t + h
    OBVIOUS
  <2>4. DueQueue(q, k, lim) /\ limit \in Int /\ c = Samples!DueCount(q, limit) /\ q1 = SubSeq(q, c + 1, Len(q))
    BY <2>1, <2>2, <2>3
  <2>5. DueQueue(q1, k, lim) /\ SplitIs(q, c, q1, limit)
    BY ONLY <2>4, DueSplit
  <2> QED BY <2>3, <2>5 DEF SplitIs
<1>3. DueQueues(r.pending, k, t)
  <2>1. r.pending = [h \in Horizons |-> r.pending[h]]
    BY <1>1
  <2> QED BY <1>2, <2>1 DEF DueQueues
<1>4. \A h \in Horizons : \A d : d \in D(h) <=> \E x \in Entries(P[h]) : x.deadline <= limit /\ d = DoneOf(x, h, exit)
  <2> SUFFICES ASSUME NEW h \in Horizons, NEW d
               PROVE  d \in D(h) <=> \E x \in Entries(P[h]) : x.deadline <= limit /\ d = DoneOf(x, h, exit)
    OBVIOUS
  <2> DEFINE H == {P[h][i] : i \in 1..n(h)}
  <2>1. d \in D(h) <=> \E x \in H : d = DoneOf(x, h, exit)
    BY DEF DoneOf
  <2>2. H = {x \in Entries(P[h]) : x.deadline <= limit}
    BY <1>2
  <2> HIDE DEF H, D, n, P
  <2> QED BY <2>1, <2>2
<1>5. \A d : d \in r.done <=> \E h \in Horizons : d \in D(h)
  <2> HIDE DEF D
  <2> QED BY <1>1
<1> HIDE DEF D, n
<1> QED BY <1>2, <1>3, <1>4, <1>5 DEF ResolveMove

(* What a label event makes of the fixed horizons.                         *)
IsFixed(f) == f = [pending |-> f.pending, last |-> f.last]
FixedMove(f, g, done, ts, mid) ==
    /\ \A h \in Horizons : Entries(g.pending[h]) = LeftAfter(f.pending[h], ts)
    /\ \A d : d \in done <=> \E h \in Horizons : \E x \in Entries(f.pending[h]) :
                 x.deadline <= ts /\ d = DoneOf(x, h, ExitMid(ts, x.deadline, f.last, mid))

FixedResult(f, r, k, t, ts, mid) ==
    /\ IsFixed(r.state) /\ r.state.last = mid /\ DueQueues(r.state.pending, k, t)
    /\ FixedMove(f, r.state, r.done, ts, mid)

(* A deadline before a label event resolves against the mid before it, one *)
(* at its own time against its own mid, and with no mid before it all do.  *)
LEMMA FixedMoves ==
    ASSUME PartsAssumption, NEW k, NEW t, NEW f, IsFixed(f), DueQueues(f.pending, k, t), NEW ts \in Nat, NEW mid,
           NEW r, r = Samples!FixedOnMid(f, ts, mid)
    PROVE  FixedResult(f, r, k, t, ts, mid)
<1>1. PICK a : a = IF f.last = 0 THEN [pending |-> f.pending, done |-> {}]
                   ELSE Samples!ResolveDue(f, ts - 1, f.last)
  OBVIOUS
<1>2. PICK f1 : f1 = [f EXCEPT !.pending = a.pending]
  OBVIOUS
<1>3. PICK c : c = Samples!ResolveDue(f1, ts, mid)
  OBVIOUS
<1>4. r = [state |-> [pending |-> c.pending, last |-> mid], done |-> a.done \cup c.done]
  BY <1>1, <1>2, <1>3 DEF Samples!FixedOnMid
<1>5. f1.pending = a.pending
  BY <1>2 DEF IsFixed
<1>6. ts \in Int /\ ts - 1 \in Int
  OBVIOUS
<1>7. \A h \in Horizons : \A x \in Entries(f.pending[h]) : x.deadline \in Int
  <2> SUFFICES ASSUME NEW h \in Horizons PROVE \A x \in Entries(f.pending[h]) : x.deadline \in Int
    OBVIOUS
  <2>1. DueQueue(f.pending[h], k, t + h)
    BY DEF DueQueues
  <2> QED BY <2>1, DueTypes
<1>8. CASE f.last = 0
  <2>1. a.pending = f.pending /\ a.done = {}
    BY <1>1, <1>8
  <2>2. DueQueues(f1.pending, k, t) /\ f1.pending = f.pending
    BY <1>5, <2>1
  <2>0. ResolveMove(f1.pending, c, k, t, ts, mid)
    BY <1>3, <1>6, <2>2, Resolves
  <2>3. /\ DueQueues(c.pending, k, t)
        /\ \A h \in Horizons : Entries(c.pending[h]) = LeftAfter(f1.pending[h], ts)
        /\ \A d : d \in c.done <=> \E h \in Horizons : \E x \in Entries(f1.pending[h]) :
                                        x.deadline <= ts /\ d = DoneOf(x, h, mid)
    BY <2>0 DEF ResolveMove
  <2>4. \A u : ExitMid(ts, u, f.last, mid) = mid
    BY <1>8 DEF ExitMid
  <2> QED BY <1>4, <2>1, <2>2, <2>3, <2>4 DEF IsFixed, FixedMove, FixedResult
<1>9. CASE f.last # 0
  <2>1. a = Samples!ResolveDue(f, ts - 1, f.last)
    BY <1>1, <1>9
  <2>0. ResolveMove(f.pending, a, k, t, ts - 1, f.last)
    BY <1>6, <2>1, Resolves
  <2>2. /\ DueQueues(a.pending, k, t)
        /\ \A h \in Horizons : Entries(a.pending[h]) = LeftAfter(f.pending[h], ts - 1)
        /\ \A d : d \in a.done <=> \E h \in Horizons : \E x \in Entries(f.pending[h]) :
                                        x.deadline <= ts - 1 /\ d = DoneOf(x, h, f.last)
    BY <2>0 DEF ResolveMove
  <2>01. ResolveMove(f1.pending, c, k, t, ts, mid)
    <3>1. DueQueues(f1.pending, k, t)
      BY <1>5, <2>2
    <3> QED BY <1>3, <1>6, <3>1, Resolves
  <2>3. /\ DueQueues(c.pending, k, t)
        /\ \A h \in Horizons : Entries(c.pending[h]) = LeftAfter(a.pending[h], ts)
        /\ \A d : d \in c.done <=> \E h \in Horizons : \E x \in Entries(a.pending[h]) :
                                        x.deadline <= ts /\ d = DoneOf(x, h, mid)
    BY <1>5, <2>01 DEF ResolveMove
  <2>4. ASSUME NEW h \in Horizons PROVE Entries(c.pending[h]) = LeftAfter(f.pending[h], ts)
    <3>1. \A x \in Entries(f.pending[h]) : x.deadline > ts => x.deadline > ts - 1
      BY <1>7
    <3> QED BY <2>2, <2>3, <3>1 DEF LeftAfter
  <2>5. \A h \in Horizons : \A x \in Entries(f.pending[h]) :
           /\ x.deadline <= ts <=> x.deadline <= ts - 1 \/ x.deadline = ts
           /\ x.deadline <= ts - 1 <=> x.deadline <= ts /\ x.deadline # ts
           /\ x.deadline > ts - 1 /\ x.deadline <= ts <=> x.deadline = ts
           /\ ExitMid(ts, x.deadline, f.last, mid) = IF x.deadline = ts THEN mid ELSE f.last
    <3> SUFFICES ASSUME NEW h \in Horizons, NEW x \in Entries(f.pending[h]), NEW u \in Int, u = x.deadline
                 PROVE  /\ u <= ts <=> u <= ts - 1 \/ u = ts
                        /\ u <= ts - 1 <=> u <= ts /\ u # ts
                        /\ u > ts - 1 /\ u <= ts <=> u = ts
                        /\ ExitMid(ts, u, f.last, mid) = IF u = ts THEN mid ELSE f.last
      BY <1>7
    <3>1. ExitMid(ts, u, f.last, mid) = IF u = ts THEN mid ELSE f.last
      BY <1>9 DEF ExitMid
    <3> QED BY <3>1
  <2>6. \A h \in Horizons : \A x : x \in Entries(a.pending[h]) /\ x.deadline <= ts
                                     <=> x \in Entries(f.pending[h]) /\ x.deadline = ts
    BY <2>2, <2>5 DEF LeftAfter
  <2>7. \A d : d \in c.done <=> \E h \in Horizons : \E x \in Entries(f.pending[h]) :
                                  x.deadline = ts /\ d = DoneOf(x, h, mid)
    BY <2>3, <2>6
  <2>8. \A d : d \in r.done <=> d \in a.done \/ d \in c.done
    BY <1>4
  <2>9. \A d : d \in r.done <=> \E h \in Horizons : \E x \in Entries(f.pending[h]) :
                 x.deadline <= ts /\ d = DoneOf(x, h, ExitMid(ts, x.deadline, f.last, mid))
    <3> SUFFICES ASSUME NEW d
                 PROVE  d \in r.done <=> \E h \in Horizons : \E x \in Entries(f.pending[h]) :
                          x.deadline <= ts /\ d = DoneOf(x, h, ExitMid(ts, x.deadline, f.last, mid))
      OBVIOUS
    <3>1. d \in r.done <=> \E h \in Horizons : \E x \in Entries(f.pending[h]) :
             \/ x.deadline <= ts - 1 /\ d = DoneOf(x, h, f.last)
             \/ x.deadline = ts /\ d = DoneOf(x, h, mid)
      BY <2>2, <2>7, <2>8
    <3>2. \A h \in Horizons : \A x \in Entries(f.pending[h]) :
             (\/ x.deadline <= ts - 1 /\ d = DoneOf(x, h, f.last)
              \/ x.deadline = ts /\ d = DoneOf(x, h, mid))
             <=> x.deadline <= ts /\ d = DoneOf(x, h, ExitMid(ts, x.deadline, f.last, mid))
      <4> SUFFICES ASSUME NEW h \in Horizons, NEW x \in Entries(f.pending[h])
                   PROVE  (\/ x.deadline <= ts - 1 /\ d = DoneOf(x, h, f.last)
                           \/ x.deadline = ts /\ d = DoneOf(x, h, mid))
                          <=> x.deadline <= ts /\ d = DoneOf(x, h, ExitMid(ts, x.deadline, f.last, mid))
        OBVIOUS
      <4>1. CASE x.deadline = ts
        BY <2>5, <4>1
      <4>2. CASE x.deadline # ts
        BY <2>5, <4>2
      <4> QED BY <4>1, <4>2
    <3> QED BY <3>1, <3>2
  <2> QED BY <1>4, <2>3, <2>4, <2>9 DEF IsFixed, FixedMove, FixedResult
<1> QED BY <1>8, <1>9

(* A sample joins every queue, at its end.                                 *)
LEMMA SampleQueues ==
    ASSUME PartsAssumption, NEW k \in Nat, NEW t \in Nat, NEW f, IsFixed(f), DueQueues(f.pending, k, t),
           NEW entry \in Nat, NEW r, r = Samples!FixedOnSample(f, k, t, entry)
    PROVE  /\ IsFixed(r) /\ r.last = f.last /\ DueQueues(r.pending, k + 1, t)
           /\ \A h \in Horizons : Entries(r.pending[h]) = Entries(f.pending[h])
                                    \cup {[deadline |-> t + h, index |-> k, entry |-> entry]}
<1>1. /\ r = [f EXCEPT !.pending = r.pending]
      /\ r.pending = [h \in Horizons |-> Append(f.pending[h], [deadline |-> t + h, index |-> k, entry |-> entry])]
  BY DEF Samples!FixedOnSample, IsFixed
<1>2. IsFixed(r) /\ r.last = f.last
  <2>1. PICK P : P = r.pending
    OBVIOUS
  <2> QED BY <1>1, <2>1 DEF IsFixed
<1>3. ASSUME NEW h \in Horizons
      PROVE  /\ DueQueue(r.pending[h], k + 1, t + h)
             /\ Entries(r.pending[h]) = Entries(f.pending[h])
                                    \cup {[deadline |-> t + h, index |-> k, entry |-> entry]}
  <2>1. h \in Nat
    BY LongestHorizon
  <2>2. PICK e : e = [deadline |-> t + h, index |-> k, entry |-> entry]
    OBVIOUS
  <2>3. e \in Due /\ e.deadline = t + h /\ e.index = k
    BY <2>1, <2>2 DEF Due
  <2>4. PICK q, q1 : q = f.pending[h] /\ q1 = r.pending[h] /\ q1 = Append(q, e)
    BY <1>1, <2>2
  <2>5. DueQueue(q, k, t + h)
    BY <2>4 DEF DueQueues
  <2>6. PICK b \in Nat : b = Len(q)
    BY <2>5, DueTypes
  <2>7. q \in Seq(Due) /\ \A i \in 1..b : q[i].deadline \in Nat /\ q[i].index \in Nat /\ q[i].index < k /\ q[i].deadline <= t + h
    <3>1. \A i \in 1..b : q[i].deadline \in Nat /\ q[i].index \in Nat
      BY <2>5, <2>6, DueTypes
    <3> QED BY <2>5, <2>6, <3>1 DEF DueQueue
  <2>8. q1 \in Seq(Due) /\ Len(q1) = b + 1 /\ q1[b + 1] = e /\ \A i \in 1..b : q1[i] = q[i]
    BY <2>3, <2>4, <2>6, <2>7, AppendProperties
  <2>9. \A i \in 1..(b + 1) : i \in 1..b \/ i = b + 1
    OBVIOUS
  <2>10. \A i, j \in 1..(b + 1) : i <= j => q1[i].deadline <= q1[j].deadline
    <3> SUFFICES ASSUME NEW i \in 1..(b + 1), NEW j \in 1..(b + 1), i <= j PROVE q1[i].deadline <= q1[j].deadline
      OBVIOUS
    <3>1. CASE i \in 1..b /\ j \in 1..b
      <4>1. q[i].deadline <= q[j].deadline
        BY <2>5, <2>6, <3>1 DEF DueQueue
      <4> QED BY <2>8, <3>1, <4>1
    <3>2. CASE i \in 1..b /\ j = b + 1
      <4>1. q1[i] = q[i] /\ q1[j] = e /\ q[i].deadline <= t + h
        BY <2>7, <2>8, <3>2
      <4> QED BY <2>3, <4>1
    <3>3. CASE i = b + 1
      <4>1. j = b + 1 /\ t + h \in Nat
        BY <2>1, <2>9, <3>3
      <4> QED BY <2>3, <2>8, <3>3, <4>1
    <3> QED BY <2>9, <3>1, <3>2, <3>3
  <2>11. \A i \in 1..(b + 1) : q1[i].index < k + 1 /\ q1[i].deadline <= t + h
    <3> SUFFICES ASSUME NEW i \in 1..(b + 1) PROVE q1[i].index < k + 1 /\ q1[i].deadline <= t + h
      OBVIOUS
    <3>1. CASE i \in 1..b
      BY <2>7, <2>8, <3>1
    <3>2. CASE i = b + 1
      <4>1. t + h \in Nat
        BY <2>1
      <4> QED BY <2>3, <2>8, <3>2, <4>1
    <3> QED BY <2>9, <3>1, <3>2
  <2>12. Entries(q1) = Entries(q) \cup {e}
    <3>1. b + 1 \in 1..(b + 1) /\ \A i \in 1..b : i \in 1..(b + 1)
      OBVIOUS
    <3> QED BY <2>6, <2>8, <2>9, <3>1 DEF Entries
  <2> QED BY <2>2, <2>4, <2>8, <2>10, <2>11, <2>12 DEF DueQueue
<1>4. DueQueues(r.pending, k + 1, t)
  <2>1. r.pending = [h \in Horizons |-> r.pending[h]]
    BY <1>1
  <2> QED BY <1>3, <2>1 DEF DueQueues
<1> QED BY <1>2, <1>3, <1>4

(* What a row in flight and its fixed horizons owe each other.             *)
RowTyped(r, n) ==
    /\ IsRow(r) /\ r.valid /\ r.at \in Nat /\ r.at <= n /\ r.ts \in Nat /\ r.entry \in Nat \ {0}
    /\ r.vol \in Nat /\ (r.feats.spread # None => r.feats.spread \in Int)
RowReturn(s, r, h, waits) ==
    \/ r.ret[h] # None /\ Settled(s, r, h, r.ret[h])
    \/ r.ret[h] = None /\ (waits => NoneLate(s, r, h))
Owed(q, r, h) ==
    /\ \A x \in Entries(q) : x.index = r.index => /\ x.deadline = r.ts + h /\ x.entry = r.entry
                                                  /\ r.ret[h] = None
    /\ r.ret[h] = None => \E x \in Entries(q) : x.index = r.index
NetSound(r, h) ==
    r.ret[h] # None /\ r.taker[h] = 1 /\ ~Samples!CrossedTouch(r) => r.maker[h] = 1 /\ r.ret[h] > 0

(* Products and quotients of what a fee is made of.                        *)
LEMMA WholeShare == ASSUME NEW a \in Nat, NEW b \in Nat \ {0} PROVE a \div b \in Nat
<1>1. a \div b \in Int /\ b > 0 /\ a >= 0
  OBVIOUS
<1>2. a \div b >= 0
  BY <1>1
<1> QED BY <1>1, <1>2

(* A product of naturals, and when it is none.                             *)
LEMMA WholeProduct == ASSUME NEW a \in Nat, NEW b \in Nat
                      PROVE a * b \in Nat /\ (a # 0 /\ b # 0 => a * b # 0)
OBVIOUS

(* A return is a whole number.                                             *)
LEMMA ReturnIsWhole ==
    ASSUME PartsAssumption, NEW exit \in Int, NEW entry \in Nat \ {0}
    PROVE  Samples!RetBps(exit, entry) \in Int /\ Samples!RetBps(exit, entry) # None
<1>1. BpsUnit \in Int /\ None \notin Int
  BY DEF PartsAssumption, Samples!LabelBounds, Samples!StreamBounds
<1>2. PICK x \in Int : x = BpsUnit * (exit - entry)
  <2>1. exit - entry \in Int
    OBVIOUS
  <2> QED BY <1>1, <2>1
<1>3. x \div entry \in Int
  OBVIOUS
<1> QED BY <1>1, <1>2, <1>3 DEF Samples!RetBps

(* A taker pays no less than a maker, unless the touch was crossed.        *)
LEMMA CostsAreOrdered ==
    ASSUME PartsAssumption, day \in Days, NEW r, r.entry \in Nat \ {0},
           r.feats.spread # None => r.feats.spread \in Int, ~Samples!CrossedTouch(r)
    PROVE  /\ Samples!Cost("maker", r) \in Nat /\ Samples!Cost("taker", r) \in Nat
           /\ Samples!Cost("maker", r) <= Samples!Cost("taker", r)
<1>1. /\ BpsUnit \in Nat /\ Multiplier \in Nat \ {0} /\ MakerBps \in Nat /\ TakerBps \in Nat
      /\ FeePerContract \in Nat /\ MakerBps <= TakerBps
  BY DEF PartsAssumption, Samples!LabelBounds
<1>2. PICK p \in Nat \ {0} : p = r.entry
  OBVIOUS
<1>3. PICK s \in Nat : s = IF r.feats.spread = None THEN 0 ELSE (2 * BpsUnit * r.feats.spread) \div r.entry
  <2>1. CASE r.feats.spread = None
    BY <2>1
  <2>2. CASE r.feats.spread # None
    <3>1. PICK v \in Nat : v = r.feats.spread
      BY <2>2 DEF Samples!CrossedTouch
    <3>2. PICK u \in Nat : u = 2 * BpsUnit
      BY <1>1
    <3>3. PICK w \in Nat : w = u * v
      BY WholeProduct
    <3>4. w \div p \in Nat
      BY WholeShare
    <3> QED BY <1>2, <2>2, <3>1, <3>2, <3>3, <3>4
  <2> QED BY <2>1, <2>2
<1>4. \A mode : Samples!Cost(mode, r)
        = 2 * Samples!FeeBpsAt(mode, Samples!venue.perContract, p) + (IF mode = "taker" THEN s ELSE 0)
  BY <1>2, <1>3 DEF Samples!Cost, Samples!RoundTripCost
<1>5. PICK a \in Nat, c \in Nat : /\ a = Samples!FeeBpsAt("maker", Samples!venue.perContract, p)
                                  /\ c = Samples!FeeBpsAt("taker", Samples!venue.perContract, p)
                                  /\ a <= c
  <2>1. CASE Samples!venue.perContract
    <3>1. PICK u \in Nat : u = BpsUnit * FeePerContract
      BY <1>1, WholeProduct
    <3>2. PICK v \in Nat \ {0} : v = p * Multiplier
      <4>1. Multiplier \in Nat /\ Multiplier # 0 /\ p \in Nat /\ p # 0
        BY <1>1
      <4> QED BY <4>1, WholeProduct
    <3>3. PICK w \in Nat : w = u \div v
      BY WholeShare
    <3>4. \A mode : Samples!FeeBpsAt(mode, Samples!venue.perContract, p) = w
      BY <2>1, <3>1, <3>2, <3>3 DEF Samples!FeeBpsAt
    <3> QED BY <3>4
  <2>2. CASE ~Samples!venue.perContract
    BY <1>1, <2>2 DEF Samples!FeeBpsAt
  <2> QED BY <2>1, <2>2
<1>6. Samples!Cost("maker", r) = 2 * a /\ Samples!Cost("taker", r) = 2 * c + s
  <2>1. Samples!Cost("maker", r) = 2 * a + 0
    BY <1>4, <1>5
  <2>2. Samples!Cost("taker", r) = 2 * c + s
    BY <1>4, <1>5
  <2> QED BY <2>1, <2>2
<1> QED BY <1>5, <1>6

(* What the labels of one event make of a row.                             *)
ToldOf(r, h, done) == {d \in done : d.index = r.index /\ d.h = h}
EndedOf(r, outcomes) == {o \in outcomes : o.index = r.index}

(* A horizon that is told takes the return and both net labels, another    *)
(* keeps what it had.                                                      *)
LEMMA ResolvedIs ==
    ASSUME NEW r, IsRow(r), NEW done, NEW outcomes, NEW r1, r1 = Samples!Resolved(r, done, outcomes),
           NEW h \in Horizons
    PROVE  /\ ToldOf(r, h, done) = {} => r1.ret[h] = r.ret[h] /\ r1.maker[h] = r.maker[h] /\ r1.taker[h] = r.taker[h]
           /\ ToldOf(r, h, done) # {} => \E d \in ToldOf(r, h, done) :
                /\ r1.ret[h] = d.ret
                /\ r1.maker[h] = Samples!NetLabel(d.ret, Samples!Cost("maker", r))
                /\ r1.taker[h] = Samples!NetLabel(d.ret, Samples!Cost("taker", r))
<1> DEFINE told(g) == {d \in done : d.index = r.index /\ d.h = g}
           val(g) == (CHOOSE d \in told(g) : TRUE).ret
           Net(mode, old) == [g \in Horizons |-> IF told(g) = {} THEN old[g]
                                                 ELSE Samples!NetLabel(val(g), Samples!Cost(mode, r))]
           R == [g \in Horizons |-> IF told(g) = {} THEN r.ret[g] ELSE val(g)]
           B == IF EndedOf(r, outcomes) = {} THEN r.tb ELSE CHOOSE o \in EndedOf(r, outcomes) : TRUE
<1>1. r1 = [r EXCEPT !.ret = R, !.maker = Net("maker", r.maker), !.taker = Net("taker", r.taker), !.tb = B]
  BY DEF Samples!Resolved, EndedOf
<1>3. told(h) = ToldOf(r, h, done)
  BY DEF ToldOf
<1>4. /\ R[h] = IF told(h) = {} THEN r.ret[h] ELSE val(h)
      /\ Net("maker", r.maker)[h] = IF told(h) = {} THEN r.maker[h] ELSE Samples!NetLabel(val(h), Samples!Cost("maker", r))
      /\ Net("taker", r.taker)[h] = IF told(h) = {} THEN r.taker[h] ELSE Samples!NetLabel(val(h), Samples!Cost("taker", r))
      /\ told(h) # {} => \E d \in told(h) : val(h) = d.ret
  OBVIOUS
<1>5. PICK x, y, u, b : x = R /\ y = Net("maker", r.maker) /\ u = Net("taker", r.taker) /\ b = B
  OBVIOUS
<1> HIDE DEF R, Net, B, told, val
<1>6. r1.ret = x /\ r1.maker = y /\ r1.taker = u /\ r1.tb = b
  <2>1. r1 = [r EXCEPT !.ret = x, !.maker = y, !.taker = u, !.tb = b]
    BY <1>1, <1>5
  <2> QED BY ONLY <2>1, IsRow(r) DEF IsRow
<1> QED BY <1>3, <1>4, <1>5, <1>6

(* And its outcome is one it was told, if any.                             *)
LEMMA OutcomeTaken ==
    ASSUME NEW r, IsRow(r), NEW done, NEW outcomes, NEW r1, r1 = Samples!Resolved(r, done, outcomes)
    PROVE  /\ EndedOf(r, outcomes) = {} => r1.tb = r.tb
           /\ EndedOf(r, outcomes) # {} => r1.tb \in EndedOf(r, outcomes)
<1> DEFINE B == IF EndedOf(r, outcomes) = {} THEN r.tb ELSE CHOOSE o \in EndedOf(r, outcomes) : TRUE
<1>1. PICK x, y, u, b : r1 = [r EXCEPT !.ret = x, !.maker = y, !.taker = u, !.tb = b] /\ b = B
  BY DEF Samples!Resolved, EndedOf
<1>2. r1.tb = b
  BY ONLY <1>1, IsRow(r) DEF IsRow
<1>3. EndedOf(r, outcomes) # {} => B \in EndedOf(r, outcomes)
  OBVIOUS
<1> HIDE DEF B
<1>4. EndedOf(r, outcomes) = {} => B = r.tb
  BY DEF B
<1> QED BY <1>1, <1>2, <1>3, <1>4

(* What an event makes of the fixed horizons: nothing, unless it shows a   *)
(* mid.                                                                    *)
FixedTells(f, g, done, e) ==
    IF Samples!LabelEvent(e) THEN FixedMove(f, g, done, e.t, Samples!Mid(e.b)) /\ g.last = Samples!Mid(e.b)
    ELSE g = f /\ done = {}
MidKnown(f, s, e) ==
    /\ f.last \in Nat /\ MidUpTo(s, Len(s), f.last) /\ e.t \in Nat
    /\ Samples!LabelEvent(e) => Samples!Mid(e.b) \in Nat
ReturnOk(s, q, r, h) == RowReturn(s, r, h, TRUE) /\ Owed(q, r, h) /\ NetSound(r, h)

(* The parts of a row that a label reads are the same before and after.    *)
LEMMA ToldKeepsReturn ==
    ASSUME NEW r, IsRow(r), NEW done, NEW outcomes, NEW r1, r1 = Samples!Resolved(r, done, outcomes),
           NEW n, RowTyped(r, n), NEW n1 \in Int, n <= n1, n \in Int
    PROVE  /\ RowTyped(r1, n1) /\ r1.index = r.index /\ (Samples!CrossedTouch(r1) <=> Samples!CrossedTouch(r))
           /\ \A s, h : /\ NoneLate(s, r1, h) <=> NoneLate(s, r, h)
                        /\ \A v : Settled(s, r1, h, v) <=> Settled(s, r, h, v)
           /\ \A s : /\ NoneCloses(s, r1) <=> NoneCloses(s, r)
                     /\ \A v : Ended(s, r1, v) <=> Ended(s, r, v)
<1>1. /\ IsRow(r1) /\ r1.index = r.index /\ r1.ts = r.ts /\ r1.at = r.at /\ r1.entry = r.entry
      /\ r1.feats = r.feats /\ r1.valid = r.valid /\ r1.vol = r.vol
  BY ResolvedKeeps
<1>2. RowTyped(r1, n1)
  <2>1. r.at \in Nat /\ r.at <= n
    BY DEF RowTyped
  <2>2. r.at <= n1
    BY <2>1
  <2> QED BY <1>1, <2>2 DEF RowTyped
<1>3. \A s, h, j : Late(s, r1, h, j) <=> Late(s, r, h, j)
  BY <1>1 DEF Late
<1>4. \A s, j : Closes(s, r1, j) <=> Closes(s, r, j)
  BY <1>1 DEF Closes, Hits
<1>5. \A s, h : NoneLate(s, r1, h) <=> NoneLate(s, r, h)
  BY <1>3 DEF NoneLate
<1>6. \A s, h, v : Settled(s, r1, h, v) <=> Settled(s, r, h, v)
  BY <1>1, <1>3 DEF Settled
<1>7. \A s : NoneCloses(s, r1) <=> NoneCloses(s, r)
  BY <1>4 DEF NoneCloses
<1>8. \A s, v : Ended(s, r1, v) <=> Ended(s, r, v)
  BY <1>1, <1>4 DEF Ended, TouchLabel
<1>9. Samples!CrossedTouch(r1) <=> Samples!CrossedTouch(r)
  BY <1>1 DEF Samples!CrossedTouch
<1> QED BY <1>1, <1>2, <1>5, <1>6, <1>7, <1>8, <1>9

(* A row in flight is told its return at the right event, and told the     *)
(* right one.                                                              *)
LEMMA ReturnsTaken ==
    ASSUME PartsAssumption, day \in Days, NEW s, NEW e, NEW s1, Grown(s, e, s1),
           NEW r, RowTyped(r, Len(s)), NEW h \in Horizons,
           NEW f, NEW g, NEW done, FixedTells(f, g, done, e), MidKnown(f, s, e),
           NEW k, NEW lim, DueQueue(f.pending[h], k, lim), ReturnOk(s, f.pending[h], r, h),
           NEW outcomes, NEW r1, r1 = Samples!Resolved(r, done, outcomes)
    PROVE  ReturnOk(s1, g.pending[h], r1, h)
<1>1. PICK n \in Nat, n1 \in Nat : n = Len(s) /\ n1 = Len(s1) /\ n1 = n + 1
  BY DEF Grown
<1>2. /\ IsRow(r) /\ r.at \in Nat /\ r.at <= n /\ r.ts \in Nat /\ r.entry \in Nat \ {0}
      /\ (r.feats.spread # None => r.feats.spread \in Int) /\ h \in Nat
  BY <1>1, LongestHorizon DEF RowTyped
<1>3. /\ r1.index = r.index /\ r1.ts = r.ts /\ r1.entry = r.entry
  BY <1>2, ResolvedKeeps
<1>4. /\ Samples!CrossedTouch(r1) <=> Samples!CrossedTouch(r)
      /\ NoneLate(s1, r1, h) <=> NoneLate(s1, r, h)
      /\ \A v : Settled(s1, r1, h, v) <=> Settled(s1, r, h, v)
  <2>1. n \in Int /\ n1 \in Int /\ n <= n1 /\ RowTyped(r, n)
    BY <1>1
  <2> QED BY <1>2, <2>1, ToldKeepsReturn
<1>5. RowReturn(s, r, h, TRUE) /\ Owed(f.pending[h], r, h) /\ NetSound(r, h)
  BY DEF ReturnOk
<1>6. PICK due \in Nat : due = r.ts + h
  BY <1>2
<1>7. \A x \in Entries(f.pending[h]) : x.deadline \in Nat
  BY DueTypes
<1> DEFINE mid == Samples!Mid(e.b)
           T == ToldOf(r, h, done)
<1>8. CASE T = {} /\ Entries(g.pending[h]) = Entries(f.pending[h]) /\ ~(Samples!LabelEvent(e) /\ e.t >= due)
  <2>1. r1.ret[h] = r.ret[h] /\ r1.maker[h] = r.maker[h] /\ r1.taker[h] = r.taker[h]
    BY <1>2, <1>8, ResolvedIs
  <2>2. RowReturn(s1, r1, h, TRUE)
    BY <1>1, <1>2, <1>4, <1>5, <1>6, <1>8, <2>1, ReturnMoves DEF RowReturn
  <2>3. Owed(g.pending[h], r1, h)
    BY <1>3, <1>5, <1>8, <2>1 DEF Owed
  <2>4. NetSound(r1, h)
    BY <1>4, <1>5, <2>1 DEF NetSound
  <2> QED BY <2>2, <2>3, <2>4 DEF ReturnOk
<1>9. CASE ~Samples!LabelEvent(e)
  <2>1. g = f /\ done = {}
    BY <1>9 DEF FixedTells
  <2>2. T = {}
    BY <2>1 DEF ToldOf
  <2> QED BY <1>8, <1>9, <2>1, <2>2
<1>10. ASSUME Samples!LabelEvent(e) PROVE ReturnOk(s1, g.pending[h], r1, h)
  <2>1. PICK t \in Nat, m \in Nat, l \in Nat : t = e.t /\ m = mid /\ l = f.last
    BY <1>10 DEF MidKnown
  <2>2. /\ Entries(g.pending[h]) = LeftAfter(f.pending[h], t)
        /\ \A d : d \in done <=> \E y \in Horizons : \E x \in Entries(f.pending[y]) :
                     x.deadline <= t /\ d = DoneOf(x, y, ExitMid(t, x.deadline, l, m))
    BY <1>10, <2>1 DEF FixedTells, FixedMove
  <2>3. \A d : d \in T <=> \E x \in Entries(f.pending[h]) :
                 x.index = r.index /\ x.deadline <= t /\ d = DoneOf(x, h, ExitMid(t, x.deadline, l, m))
    <3>1. \A x, y, v : DoneOf(x, y, v).index = x.index /\ DoneOf(x, y, v).h = y
      BY DEF DoneOf
    <3> QED BY <2>2, <3>1 DEF ToldOf
  <2>4. PICK w : w = Samples!RetBps(ExitMid(t, due, l, m), r.entry)
    OBVIOUS
  <2>5. w \in Int /\ w # None
    <3>1. ExitMid(t, due, l, m) \in Int
      BY DEF ExitMid
    <3> QED BY <1>2, <2>4, <3>1, ReturnIsWhole
  <2>6. \A d \in T : d.ret = w /\ r.ret[h] = None /\ due <= t
    BY <1>2, <1>5, <1>6, <2>3, <2>4 DEF Owed, DoneOf
  <2>7. CASE r.ret[h] # None
    <3>1. T = {} /\ \A x \in Entries(f.pending[h]) : x.index # r.index
      BY <1>5, <2>6, <2>7 DEF Owed
    <3>2. r1.ret[h] = r.ret[h] /\ r1.maker[h] = r.maker[h] /\ r1.taker[h] = r.taker[h]
      BY <1>2, <3>1, ResolvedIs
    <3>3. Settled(s1, r, h, r.ret[h])
      <4>1. Settled(s, r, h, r.ret[h])
        BY <1>5, <2>7 DEF RowReturn
      <4> QED BY <1>2, <4>1, ReturnMoves
    <3>4. RowReturn(s1, r1, h, TRUE)
      BY <1>4, <2>7, <3>2, <3>3 DEF RowReturn
    <3>5. Owed(g.pending[h], r1, h)
      BY <1>3, <2>2, <2>7, <3>1, <3>2 DEF Owed, LeftAfter
    <3>6. NetSound(r1, h)
      BY <1>4, <1>5, <3>2 DEF NetSound
    <3> QED BY <3>4, <3>5, <3>6 DEF ReturnOk
  <2>8. ASSUME r.ret[h] = None, t >= due PROVE ReturnOk(s1, g.pending[h], r1, h)
    <3>1. NoneLate(s, r, h)
      BY <1>5, <2>8 DEF RowReturn
    <3>2. \A x \in Entries(f.pending[h]) : x.index = r.index => x.deadline = due
      BY <1>5, <1>6 DEF Owed
    <3>3. T # {}
      <4>1. PICK x \in Entries(f.pending[h]) : x.index = r.index
        BY <1>5, <2>8 DEF Owed
      <4>2. x.deadline <= t
        BY <2>8, <3>2, <4>1
      <4> QED BY <2>3, <4>1, <4>2
    <3>4. PICK d \in T : /\ r1.ret[h] = d.ret
                         /\ r1.maker[h] = Samples!NetLabel(d.ret, Samples!Cost("maker", r))
                         /\ r1.taker[h] = Samples!NetLabel(d.ret, Samples!Cost("taker", r))
      BY <1>2, <3>3, ResolvedIs
    <3>5. d.ret = w
      BY <2>6
    <3>6. Settled(s1, r, h, w)
      <4>1. MidUpTo(s, Len(s), l)
        BY <2>1 DEF MidKnown
      <4>2. r.at <= Len(s) /\ e.t >= r.ts + h
        BY <1>1, <1>2, <1>6, <2>1, <2>8
      <4>3. Settled(s1, r, h, Samples!RetBps(ExitMid(e.t, r.ts + h, l, Samples!Mid(e.b)), r.entry))
        BY <1>2, <1>10, <3>1, <4>1, <4>2, ReturnMoves
      <4> QED BY <1>6, <2>1, <2>4, <4>3
    <3>7. RowReturn(s1, r1, h, TRUE)
      BY <1>4, <2>5, <3>4, <3>5, <3>6 DEF RowReturn
    <3>8. Owed(g.pending[h], r1, h)
      <4>1. \A x \in Entries(g.pending[h]) : x \in Entries(f.pending[h]) /\ x.deadline > t
        BY <2>2 DEF LeftAfter
      <4>2. ~(due > t)
        BY <2>8
      <4> QED BY <1>3, <2>5, <3>2, <3>4, <3>5, <4>1, <4>2 DEF Owed
    <3>9. NetSound(r1, h)
      <4> SUFFICES ASSUME r1.taker[h] = 1, ~Samples!CrossedTouch(r) PROVE r1.maker[h] = 1 /\ r1.ret[h] > 0
        BY <1>4 DEF NetSound
      <4>1. PICK a \in Nat, c \in Nat : a = Samples!Cost("maker", r) /\ c = Samples!Cost("taker", r) /\ a <= c
        BY <1>2, CostsAreOrdered
      <4>2. Samples!NetLabel(w, c) = 1
        BY <3>4, <3>5, <4>1
      <4>3. w > c
        BY <2>5, <4>2 DEF Samples!NetLabel
      <4>4. w > a /\ w > 0
        BY <2>5, <4>1, <4>3
      <4>5. Samples!NetLabel(w, a) = 1
        BY <4>4 DEF Samples!NetLabel
      <4> QED BY <3>4, <3>5, <4>1, <4>4, <4>5
    <3> QED BY <3>7, <3>8, <3>9 DEF ReturnOk
  <2>9. ASSUME r.ret[h] = None, ~(t >= due) PROVE ReturnOk(s1, g.pending[h], r1, h)
    <3>1. T = {}
      BY <2>6, <2>9
    <3>2. r1.ret[h] = None /\ r1.maker[h] = r.maker[h] /\ r1.taker[h] = r.taker[h]
      BY <1>2, <2>9, <3>1, ResolvedIs
    <3>3. NoneLate(s1, r, h)
      <4>1. NoneLate(s, r, h) /\ ~(e.t >= r.ts + h)
        BY <1>5, <1>6, <2>1, <2>9 DEF RowReturn
      <4> QED BY <1>2, <4>1, ReturnMoves
    <3>4. RowReturn(s1, r1, h, TRUE)
      BY <1>4, <3>2, <3>3 DEF RowReturn
    <3>5. Owed(g.pending[h], r1, h)
      <4>1. \A x \in Entries(f.pending[h]) : x.index = r.index => x.deadline = due /\ x.entry = r.entry
        BY <1>5, <1>6 DEF Owed
      <4>2. due > t
        BY <2>9
      <4>3. \E x \in Entries(f.pending[h]) : x.index = r.index
        BY <1>5, <2>9 DEF Owed
      <4>4. \A x \in Entries(f.pending[h]) : x.index = r.index => x \in Entries(g.pending[h])
        BY <2>2, <4>1, <4>2 DEF LeftAfter
      <4>5. \A x \in Entries(g.pending[h]) : x \in Entries(f.pending[h])
        BY <2>2 DEF LeftAfter
      <4> QED BY <1>3, <1>6, <3>2, <4>1, <4>3, <4>4, <4>5 DEF Owed
    <3>6. NetSound(r1, h)
      BY <3>2 DEF NetSound
    <3> QED BY <3>4, <3>5, <3>6 DEF ReturnOk
  <2> QED BY <2>7, <2>8, <2>9
<1> QED BY <1>9, <1>10

(* What a row in flight and its barriers owe each other.                   *)
IsBarrier(b) == b = [active |-> b.active, last |-> b.last]
ArmOf(r) == [index |-> r.index, entry |-> r.entry, deadline |-> r.ts + TimeLimit,
             upper |-> r.entry + BarrierMult * r.vol, lower |-> r.entry - BarrierMult * r.vol]
RowBarrier(s, r, waits) ==
    \/ r.tb # None /\ Ended(s, r, r.tb.label)
    \/ r.tb = None /\ (waits => r.vol = 0 \/ NoneCloses(s, r))
Armed(b, r) ==
    /\ \A a \in b.active : a.index = r.index => a = ArmOf(r) /\ r.tb = None /\ r.vol # 0
    /\ r.tb = None /\ r.vol # 0 => \E a \in b.active : a.index = r.index
BarrierOk(s, b, r) == RowBarrier(s, r, TRUE) /\ Armed(b, r)

(* What an event makes of the barriers.                                    *)
BarrierTells(b, g, done, e) ==
    IF Samples!LabelEvent(e)
    THEN /\ g = [active |-> {a \in b.active : ~Samples!Ends(a, e.t, Samples!Mid(e.b))}, last |-> Samples!Mid(e.b)]
         /\ done = {Samples!Outcome(b, a, e.t, Samples!Mid(e.b)) :
                      a \in {x \in b.active : Samples!Ends(x, e.t, Samples!Mid(e.b))}}
    ELSE g = b /\ done = {}

(* The outcome of a row's own barriers is the one its stream gives.        *)
LEMMA OutcomeIs ==
    ASSUME PartsAssumption, NEW r, NEW n, RowTyped(r, n), r.index \in Nat, r.vol # 0, NEW b, b.last \in Nat,
           NEW t \in Nat, NEW mid \in Nat, NEW a, a = ArmOf(r)
    PROVE  /\ Samples!Ends(a, t, mid) <=> \/ t > r.ts + TimeLimit
                                          \/ mid >= r.entry + BarrierMult * r.vol
                                          \/ mid <= r.entry - BarrierMult * r.vol
           /\ Samples!Ends(a, t, mid) => /\ Samples!Outcome(b, a, t, mid) # None
                                         /\ Samples!Outcome(b, a, t, mid).index = r.index
                                         /\ Samples!Outcome(b, a, t, mid).label = TouchLabel(t, mid, r)
<1>1. PICK y \in Nat, p \in Nat \ {0}, v \in Nat \ {0}, m \in Nat \ {0}, l \in Nat \ {0} :
         y = r.ts /\ p = r.entry /\ v = r.vol /\ m = BarrierMult /\ l = TimeLimit
  BY DEF RowTyped, PartsAssumption, Samples!LabelBounds
<1>2. PICK d \in Nat \ {0} : d = m * v
  <2>1. m \in Nat /\ m # 0 /\ v \in Nat /\ v # 0
    OBVIOUS
  <2> QED BY <2>1, WholeProduct
<1>3. a.index = r.index /\ a.entry = p /\ a.deadline = y + l /\ a.upper = p + d /\ a.lower = p - d
  BY <1>1, <1>2 DEF ArmOf
<1>4. Samples!Ends(a, t, mid) <=> t > y + l \/ mid >= p + d \/ mid <= p - d
  BY <1>3 DEF Samples!Ends, Samples!Expired, Samples!Touched
<1>5. PICK x, z : /\ x = Samples!RetBps(IF b.last # 0 THEN b.last ELSE p, p)
                  /\ z = Samples!RetBps(mid, p) /\ x \in Int /\ z \in Int
  <2>1. (IF b.last # 0 THEN b.last ELSE p) \in Int /\ mid \in Int
    OBVIOUS
  <2> QED BY <2>1, ReturnIsWhole
<1>6. TouchLabel(t, mid, r) = IF t > y + l THEN 0 ELSE IF mid > p THEN 1 ELSE -1
  BY <1>1 DEF TouchLabel
<1>7. PICK o : o = Samples!Outcome(b, a, t, mid)
  OBVIOUS
<1>8. o = IF t > y + l THEN [index |-> r.index, label |-> 0, ret |-> x]
          ELSE [index |-> r.index, label |-> IF mid >= p + d THEN 1 ELSE -1, ret |-> z]
  BY <1>3, <1>5, <1>7 DEF Samples!Outcome, Samples!Expired
<1>9. ASSUME Samples!Ends(a, t, mid)
      PROVE  o # None /\ o.index = r.index /\ o.label = TouchLabel(t, mid, r)
  <2>1. None \notin [index : Nat, label : -1..1, ret : Int]
    BY DEF PartsAssumption, Samples!StreamBounds
  <2>2. CASE t > y + l
    <3>1. o = [index |-> r.index, label |-> 0, ret |-> x]
      BY <1>8, <2>2
    <3>2. o \in [index : Nat, label : -1..1, ret : Int]
      BY <1>5, <3>1
    <3> QED BY <1>6, <2>1, <2>2, <3>1, <3>2
  <2>3. CASE ~(t > y + l)
    <3>1. PICK c \in -1..1 : c = IF mid >= p + d THEN 1 ELSE -1
      OBVIOUS
    <3>2. o = [index |-> r.index, label |-> c, ret |-> z]
      BY <1>8, <2>3, <3>1
    <3>3. o \in [index : Nat, label : -1..1, ret : Int]
      BY <1>5, <3>2
    <3>4. mid >= p + d \/ mid <= p - d
      BY <1>4, <1>9, <2>3
    <3>5. c = IF mid > p THEN 1 ELSE -1
      BY <3>1, <3>4
    <3> QED BY <1>6, <2>1, <2>3, <3>2, <3>3, <3>5
  <2> QED BY <2>2, <2>3
<1> QED BY <1>1, <1>2, <1>4, <1>7, <1>9

(* A row in flight is told the outcome of its barriers at the first event  *)
(* that ends them.                                                         *)
LEMMA BarriersTaken ==
    ASSUME PartsAssumption, NEW s, NEW e, NEW s1, Grown(s, e, s1),
           NEW r, RowTyped(r, Len(s)), r.index \in Nat, NEW b, NEW g, NEW outcomes,
           BarrierTells(b, g, outcomes, e), MidKnown(b, s, e), BarrierOk(s, b, r),
           NEW done, NEW r1, r1 = Samples!Resolved(r, done, outcomes)
    PROVE  BarrierOk(s1, g, r1)
<1>1. PICK n \in Nat, n1 \in Nat : n = Len(s) /\ n1 = Len(s1) /\ n1 = n + 1
  BY DEF Grown
<1>2. IsRow(r) /\ r.at \in Nat /\ r.at <= n /\ r.vol \in Nat
  BY <1>1 DEF RowTyped
<1>3. /\ r1.index = r.index /\ r1.ts = r.ts /\ r1.entry = r.entry /\ r1.vol = r.vol /\ ArmOf(r1) = ArmOf(r)
  BY <1>2, ResolvedKeeps DEF ArmOf
<1>4. /\ NoneCloses(s1, r1) <=> NoneCloses(s1, r)
      /\ \A v : Ended(s1, r1, v) <=> Ended(s1, r, v)
  <2>1. n \in Int /\ n1 \in Int /\ n <= n1 /\ RowTyped(r, n)
    BY <1>1
  <2> QED BY <1>2, <2>1, ToldKeepsReturn
<1>5. RowBarrier(s, r, TRUE) /\ Armed(b, r)
  BY DEF BarrierOk
<1>6. /\ EndedOf(r, outcomes) = {} => r1.tb = r.tb
      /\ EndedOf(r, outcomes) # {} => r1.tb \in EndedOf(r, outcomes)
  BY <1>2, OutcomeTaken
<1>7. CASE ~Samples!LabelEvent(e)
  <2>1. g = b /\ outcomes = {}
    BY <1>7 DEF BarrierTells
  <2>2. r1.tb = r.tb
    BY <1>6, <2>1 DEF EndedOf
  <2>3. RowBarrier(s1, r1, TRUE)
    BY <1>2, <1>3, <1>4, <1>5, <1>7, <2>2, BarrierMoves DEF RowBarrier
  <2>4. Armed(g, r1)
    BY <1>3, <1>5, <2>1, <2>2 DEF Armed
  <2> QED BY <2>3, <2>4 DEF BarrierOk
<1>8. ASSUME Samples!LabelEvent(e) PROVE BarrierOk(s1, g, r1)
  <2>1. PICK t \in Nat, m \in Nat : t = e.t /\ m = Samples!Mid(e.b)
    BY <1>8 DEF MidKnown
  <2>2. /\ g.active = {a \in b.active : ~Samples!Ends(a, t, m)}
        /\ outcomes = {Samples!Outcome(b, a, t, m) : a \in {x \in b.active : Samples!Ends(x, t, m)}}
    BY <1>8, <2>1 DEF BarrierTells
  <2>3. \A a : Samples!Outcome(b, a, t, m).index = a.index
    BY DEF Samples!Outcome
  <2>4. \A o : o \in EndedOf(r, outcomes) <=> \E a \in b.active : /\ Samples!Ends(a, t, m) /\ a.index = r.index
                                                                /\ o = Samples!Outcome(b, a, t, m)
    BY <2>2, <2>3 DEF EndedOf
  <2>5. CASE r.tb # None \/ r.vol = 0
    <3>1. \A a \in b.active : a.index # r.index
      BY <1>5, <2>5 DEF Armed
    <3>2. r1.tb = r.tb
      BY <1>6, <2>4, <3>1
    <3>3. Armed(g, r1)
      BY <1>3, <2>2, <2>5, <3>1, <3>2 DEF Armed
    <3>4. RowBarrier(s1, r1, TRUE)
      BY <1>2, <1>3, <1>4, <1>5, <2>5, <3>2, BarrierMoves DEF RowBarrier
    <3> QED BY <3>3, <3>4 DEF BarrierOk
  <2>6. ASSUME r.tb = None, r.vol # 0 PROVE BarrierOk(s1, g, r1)
    <3>1. \A a \in b.active : a.index = r.index => a = ArmOf(r)
      BY <1>5 DEF Armed
    <3>2. PICK a \in b.active : a.index = r.index /\ a = ArmOf(r)
      BY <1>5, <2>6, <3>1 DEF Armed
    <3>3. b.last \in Nat
      BY DEF MidKnown
    <3>4. /\ Samples!Ends(a, t, m) <=> \/ t > r.ts + TimeLimit
                                       \/ m >= r.entry + BarrierMult * r.vol
                                       \/ m <= r.entry - BarrierMult * r.vol
          /\ Samples!Ends(a, t, m) => /\ Samples!Outcome(b, a, t, m) # None
                                      /\ Samples!Outcome(b, a, t, m).label = TouchLabel(t, m, r)
      BY <2>6, <3>2, <3>3, OutcomeIs
    <3>5. NoneCloses(s, r)
      BY <1>5, <2>6 DEF RowBarrier
    <3>6. CASE Samples!Ends(a, t, m)
      <4>1. EndedOf(r, outcomes) # {} /\ \A o \in EndedOf(r, outcomes) : o = Samples!Outcome(b, a, t, m)
        BY <2>4, <3>1, <3>2, <3>6
      <4>2. r1.tb = Samples!Outcome(b, a, t, m)
        BY <1>6, <4>1
      <4>3. Ended(s1, r, TouchLabel(t, m, r))
        BY <1>1, <1>2, <1>8, <2>1, <2>6, <3>4, <3>5, <3>6, BarrierMoves
      <4>4. RowBarrier(s1, r1, TRUE)
        BY <1>4, <3>4, <3>6, <4>2, <4>3 DEF RowBarrier
      <4>5. \A x \in g.active : x.index # r.index
        BY <2>2, <3>1, <3>2, <3>6
      <4>6. Armed(g, r1)
        BY <1>3, <3>4, <3>6, <4>2, <4>5 DEF Armed
      <4> QED BY <4>4, <4>6 DEF BarrierOk
    <3>7. CASE ~Samples!Ends(a, t, m)
      <4>1. EndedOf(r, outcomes) = {}
        BY <2>4, <3>1, <3>2, <3>7
      <4>2. r1.tb = None
        BY <1>6, <2>6, <4>1
      <4>3. NoneCloses(s1, r)
        BY <1>2, <2>1, <3>4, <3>5, <3>7, BarrierMoves
      <4>4. RowBarrier(s1, r1, TRUE)
        BY <1>4, <4>2, <4>3 DEF RowBarrier
      <4>5. Armed(g, r1)
        BY <1>3, <2>2, <2>6, <3>1, <3>2, <3>7, <4>2 DEF Armed
      <4> QED BY <4>4, <4>5 DEF BarrierOk
    <3> QED BY <3>6, <3>7
  <2> QED BY <2>5, <2>6
<1> QED BY <1>7, <1>8
-----------------------------------------------------------------------------
(* The rolling engine: every window a sequence of stamped whole numbers    *)
(* and its total, every book one that was read.                            *)
Stamp == [ts : Nat, v : Int]
IsWindow(w) == w = [items |-> w.items, total |-> w.total] /\ w.items \in Seq(Stamp) /\ w.total \in Int
WinsInv(win) ==
    /\ win = [s \in Samples!Series |-> win[s]]
    /\ \A s \in Samples!Series : win[s] = [w \in Widths |-> win[s][w]] /\ \A w \in Widths : IsWindow(win[s][w])
IsEngine(g) ==
    g = [win |-> g.win, prev |-> g.prev, touch |-> g.touch, mid |-> g.mid, trades |-> g.trades,
         price |-> g.price, sign |-> g.sign, tradeNs |-> g.tradeNs, cross |-> g.cross]
EngineInv(g) ==
    /\ IsEngine(g) /\ WinsInv(g.win) /\ g.mid \in Nat /\ g.price \in Nat /\ g.sign \in -1..1
    /\ g.prev \in Samples!BookState \cup {None} /\ g.touch \in Samples!BookState \cup {None}

(* The sum over a function is the sum over its domain.                     *)
LEMMA StreamSum == ASSUME NEW F PROVE Samples!Sum(F) = SumOver(F, DOMAIN F)
BY DEF Samples!Sum, Samples!FoldFunction, Samples!FoldFunctionOnSet, Samples!MapThenFoldSet, Pick, SumTable, SumOver

(* What the places of a window hold.                                       *)
LEMMA StampTypes ==
    ASSUME NEW q, q \in Seq(Stamp)
    PROVE  Len(q) \in Nat /\ \A i \in 1..Len(q) : q[i] \in Stamp /\ q[i].ts \in Nat /\ q[i].v \in Int
<1>1. Len(q) \in Nat /\ \A i \in 1..Len(q) : q[i] \in Stamp
  OBVIOUS
<1>2. \A x \in Stamp : x.ts \in Nat /\ x.v \in Int
  BY DEF Stamp
<1> QED BY <1>1, <1>2

(* How many items a window lets go: a head of it, as long as it is stale.  *)
LEMMA StaleHead ==
    ASSUME NEW w, w.items \in Seq(Stamp), NEW cut \in Int
    PROVE  /\ Samples!Stale(w, cut) \in 0..Len(w.items)
           /\ \A i \in 1..Len(w.items) : i <= Samples!Stale(w, cut) => w.items[i].ts <= cut
           /\ Samples!Stale(w, cut) # Len(w.items) => w.items[Samples!Stale(w, cut) + 1].ts > cut
<1>1. PICK q : q = w.items
  OBVIOUS
<1>2. PICK b \in Nat : b = Len(q) /\ \A i \in 1..b : q[i].ts \in Nat
  BY <1>1, StampTypes
<1> DEFINE R == {i \in 1..b : q[i].ts <= cut}
           Is(n) == (\A i \in 1..n : q[i].ts <= cut) /\ (n = b \/ q[n + 1].ts > cut)
<1>4. PICK n \in 0..(b - 1 + 1) : (\A i \in 1..b : i < 1 + n => i \in R) /\ (1 + n \in 1..b => 1 + n \notin R)
  <2> HIDE DEF R
  <2>1. 1 \in Nat /\ 1 <= b + 1
    OBVIOUS
  <2> QED BY ONLY <2>1, b \in Nat, HeadExists
<1>5. n \in 0..b /\ Is(n)
  <2>1. n \in 0..b /\ \A i \in 1..n : i \in 1..b /\ i < 1 + n
    OBVIOUS
  <2>2. \A i \in 1..n : q[i].ts <= cut
    BY <1>4, <2>1
  <2>3. ASSUME n # b PROVE q[n + 1].ts > cut
    <3>1. n + 1 \in 1..b /\ 1 + n = n + 1
      BY <2>1, <2>3
    <3>2. ~(q[n + 1].ts <= cut) /\ q[n + 1].ts \in Nat
      BY <1>2, <1>4, <3>1
    <3> QED BY <3>2
  <2> QED BY <2>1, <2>2, <2>3
<1>6. Samples!Stale(w, cut) = CHOOSE x \in 0..b : Is(x)
  BY <1>1, <1>2 DEF Samples!Stale
<1> HIDE DEF Is
<1>7. PICK c \in 0..b : c = Samples!Stale(w, cut) /\ Is(c)
  BY <1>5, <1>6
<1>8. (\A i \in 1..b : i <= c => q[i].ts <= cut) /\ (c # b => q[c + 1].ts > cut)
  <2>1. \A i \in 1..b : i <= c => i \in 1..c
    BY <1>7
  <2> QED BY <1>7, <2>1 DEF Is
<1> QED BY <1>1, <1>2, <1>7, <1>8

(* A window keeps its shape when a value enters it.                        *)
LEMMA WindowAdds ==
    ASSUME NEW w, IsWindow(w), NEW ts \in Nat, NEW v \in Int
    PROVE  /\ IsWindow(Samples!AddValue(w, ts, v))
           /\ Samples!AddValue(w, ts, v).items = Append(w.items, [ts |-> ts, v |-> v])
           /\ Samples!AddValue(w, ts, v).total = w.total + v
<1>1. PICK x : x = [ts |-> ts, v |-> v] /\ x \in Stamp
  <2>1. [ts |-> ts, v |-> v] \in Stamp
    BY DEF Stamp
  <2> QED BY <2>1
<1>2. Append(w.items, x) \in Seq(Stamp) /\ w.total + v \in Int
  <2>1. w.items \in Seq(Stamp) /\ w.total \in Int
    BY DEF IsWindow
  <2> QED BY <1>1, <2>1, AppendProperties
<1>3. Samples!AddValue(w, ts, v) = [items |-> Append(w.items, x), total |-> w.total + v]
  BY <1>1 DEF Samples!AddValue
<1>4. PICK y : y = Append(w.items, x)
  OBVIOUS
<1> QED BY <1>1, <1>2, <1>3, <1>4 DEF IsWindow

(* What the first n values of a window add up to, and leave in it.         *)
LetGoOf(w, n) == SumOver([i \in 1..n |-> w.items[i].v], 1..n)
PrunedOf(w, r, n) ==
    /\ IsWindow(r) /\ r.items = SubSeq(w.items, n + 1, Len(w.items)) /\ r.total = w.total - LetGoOf(w, n)
    /\ n \in 0..Len(w.items) /\ LetGoOf(w, n) \in Int

(* A pruned window keeps its shape, and loses what it lets go.             *)
LEMMA WindowPrunes ==
    ASSUME NEW w, IsWindow(w), NEW width \in Int, NEW t \in Int, NEW n, n = Samples!Stale(w, t - width)
    PROVE  PrunedOf(w, Samples!Prune(w, width, t), n)
<1>1. w.items \in Seq(Stamp) /\ w.total \in Int
  BY DEF IsWindow
<1>2. n \in 0..Len(w.items) /\ Len(w.items) \in Nat /\ \A i \in 1..Len(w.items) : w.items[i].v \in Int
  <2>1. t - width \in Int
    OBVIOUS
  <2> QED BY <1>1, <2>1, StaleHead, StampTypes
<1>3. PICK F : F = [i \in 1..n |-> w.items[i].v]
  OBVIOUS
<1>4. SumOver(F, 1..n) \in Int
  <2>1. \A i \in 1..n : F[i] \in Int
    BY <1>2, <1>3
  <2>2. IsFiniteSet(1..n)
    <3>1. n \in Int
      BY <1>2
    <3> QED BY <3>1, FS_Interval
  <2> QED BY <2>1, <2>2, SumType
<1>5. Samples!Sum(F) = SumOver(F, 1..n)
  <2>1. DOMAIN F = 1..n
    BY <1>3
  <2> QED BY <2>1, StreamSum
<1>6. PICK y, z : y = SubSeq(w.items, n + 1, Len(w.items)) /\ z = SumOver(F, 1..n)
  OBVIOUS
<1>61. LetGoOf(w, n) = z
  BY <1>3, <1>6 DEF LetGoOf
<1>7. y \in Seq(Stamp)
  <2>1. \A i \in (n + 1)..Len(w.items) : w.items[i] \in Stamp
    BY <1>1, <1>2
  <2> QED BY <1>2, <1>6, <2>1, SubSeqProperties
<1>8. Samples!Prune(w, width, t) = [items |-> y, total |-> w.total - z]
  BY <1>3, <1>5, <1>6 DEF Samples!Prune
<1>9. w.total - z \in Int
  BY <1>1, <1>4, <1>6
<1>10. IsWindow(Samples!Prune(w, width, t))
  BY <1>7, <1>8, <1>9 DEF IsWindow
<1>11. PICK r : r = Samples!Prune(w, width, t)
  OBVIOUS
<1>12. r.items = SubSeq(w.items, n + 1, Len(w.items)) /\ r.total = w.total - LetGoOf(w, n)
  <2>1. r.items = y /\ r.total = w.total - z
    BY ONLY <1>8, <1>11
  <2>2. SubSeq(w.items, n + 1, Len(w.items)) = y
    BY ONLY <1>6
  <2> QED BY ONLY <2>1, <2>2, <1>61
<1>13. LetGoOf(w, n) \in Int
  BY <1>4, <1>6, <1>61
<1>14. PrunedOf(w, r, n)
  <2>1. n \in 0..Len(w.items) /\ IsWindow(r)
    BY <1>2, <1>10, <1>11
  <2> QED BY ONLY <2>1, <1>12, <1>13 DEF PrunedOf
<1> QED BY <1>11, <1>14

(* One series gains a value, the others nothing.                           *)
SeriesAdded(win, s, ts, v, r) ==
    /\ WinsInv(r)
    /\ \A w \in Widths : r[s][w] = Samples!AddValue(win[s][w], ts, v)
    /\ \A y \in Samples!Series \ {s} : r[y] = win[y]

(* A value added to one series is added to that one only.                  *)
LEMMA SeriesAdds ==
    ASSUME NEW win, WinsInv(win), NEW s \in Samples!Series, NEW ts \in Nat, NEW v \in Int,
           NEW r, r = Samples!AddTo(win, s, ts, v)
    PROVE  SeriesAdded(win, s, ts, v, r)
<1>1. PICK f : f = [w \in Widths |-> Samples!AddValue(win[s][w], ts, v)]
  OBVIOUS
<1>2. r = [win EXCEPT ![s] = f]
  BY <1>1 DEF Samples!AddTo
<1>3. win = [y \in Samples!Series |-> win[y]]
  BY DEF WinsInv
<1>4. r = [y \in Samples!Series |-> r[y]] /\ r[s] = f /\ \A y \in Samples!Series \ {s} : r[y] = win[y]
  BY <1>2, <1>3
<1>5. \A w \in Widths : IsWindow(f[w])
  BY <1>1, WindowAdds DEF WinsInv
<1>6. f = [w \in Widths |-> f[w]]
  BY <1>1
<1>7. ASSUME NEW y \in Samples!Series
      PROVE  r[y] = [w \in Widths |-> r[y][w]] /\ \A w \in Widths : IsWindow(r[y][w])
  <2>1. CASE y = s
    BY <1>4, <1>5, <1>6, <2>1
  <2>2. CASE y # s
    BY <1>4, <2>2 DEF WinsInv
  <2> QED BY <2>1, <2>2
<1>8. WinsInv(r)
  BY <1>4, <1>7 DEF WinsInv
<1> QED BY <1>1, <1>4, <1>8 DEF SeriesAdded

(* What one event of the venue changes in the engine.                      *)
ShowsMid(e, v) == \/ e.k = "bbo" /\ Samples!HasMid(e.b)
                  \/ e.k = "book" /\ ~v.bbo /\ Samples!Usable(e.b) /\ Samples!HasMid(e.b)
Flows(g, e) == e.k = "book" /\ g.prev # None /\ Samples!Quoted(g.prev) /\ Samples!Quoted(e.b)
SignOfTrade(g, e, v) == Samples!Sign(v.flagged, e.side, e.price, g.price, g.sign)
Gains(win, win1, s, e, If, v) ==
    \A w \in Widths : win1[s][w] = IF If THEN Samples!AddValue(win[s][w], e.t, v) ELSE win[s][w]
EngineMove(g, e, v, g1) ==
    /\ g1.prev = IF e.k = "book" THEN e.b ELSE g.prev
    /\ g1.mid = IF ShowsMid(e, v) THEN Samples!Mid(e.b) ELSE g.mid
    /\ g1.price = IF e.k = "trade" THEN e.price ELSE g.price
    /\ g1.sign = IF e.k = "trade" /\ SignOfTrade(g, e, v) # 0 THEN SignOfTrade(g, e, v) ELSE g.sign
    /\ Gains(g.win, g1.win, "ofi", e, Flows(g, e), Samples!OfiBest(g.prev, e.b))
    /\ Gains(g.win, g1.win, "signed", e, e.k = "trade", SignOfTrade(g, e, v) * e.qty)
    /\ Gains(g.win, g1.win, "count", e, e.k = "trade", 1)
    /\ Gains(g.win, g1.win, "ret", e, ShowsMid(e, v) /\ g.mid # 0, Samples!Mid(e.b) - g.mid)
    /\ Gains(g.win, g1.win, "r2", e, ShowsMid(e, v) /\ g.mid # 0,
             (Samples!Mid(e.b) - g.mid) * (Samples!Mid(e.b) - g.mid))

(* What is known of an event.                                              *)
LEMMA EventTypes ==
    ASSUME NEW e, Samples!IsEvent(e)
    PROVE  /\ e.t \in Nat /\ e.price \in Nat /\ e.qty \in Nat /\ e.b \in Samples!BookState \cup {None}
           /\ e.k \in {"book", "bbo", "trade", "ref"}
           /\ e.k = "trade" => e.price > 0
           /\ e.k # "trade" => e.b \in Samples!BookState
<1>1. /\ e \in [t : Nat, k : {"book", "bbo", "trade", "ref"}, b : Samples!BookState \cup {None},
                price : Nat, qty : Nat, side : {"buy", "sell", None}]
      /\ IF e.k = "trade" THEN e.price > 0 ELSE e.b # None
  BY DEF Samples!IsEvent
<1>2. /\ e.t \in Nat /\ e.price \in Nat /\ e.qty \in Nat /\ e.b \in Samples!BookState \cup {None}
      /\ e.k \in {"book", "bbo", "trade", "ref"}
  BY <1>1
<1> QED BY <1>1, <1>2

(* What is known of a book.                                                *)
LEMMA BookTypes ==
    ASSUME NEW b \in Samples!BookState
    PROVE  Samples!Mid(b) \in Nat /\ Samples!Spread(b) \in Int
           /\ (Samples!HasMid(b) => Samples!Mid(b) # 0)
<1>1. b.bid \in Nat /\ b.ask \in Nat
  BY DEF Samples!BookState
<1> QED BY <1>1 DEF Samples!Mid, Samples!Spread, Samples!HasMid

(* The flow between two books is a whole number.                           *)
LEMMA FlowTypes ==
    ASSUME NEW b \in Samples!BookState, NEW c \in Samples!BookState
    PROVE  Samples!OfiBest(b, c) \in Int /\ Samples!OfiDeep(b, c) \in Int
<1>1. /\ b.bq \in Int /\ b.aq \in Int /\ c.bq \in Int /\ c.aq \in Int
      /\ b.bdepth \in Int /\ b.adepth \in Int /\ c.bdepth \in Int /\ c.adepth \in Int
  BY DEF Samples!BookState
<1>2. Samples!OfiDeep(b, c) \in Int
  BY <1>1 DEF Samples!OfiDeep
<1>3. PICK i \in Int, j \in Int, k \in Int, l \in Int :
         /\ i = (IF c.bid >= b.bid THEN c.bq ELSE 0) /\ j = (IF c.bid <= b.bid THEN b.bq ELSE 0)
         /\ k = (IF c.ask <= b.ask THEN c.aq ELSE 0) /\ l = (IF c.ask >= b.ask THEN b.aq ELSE 0)
  BY <1>1
<1>4. Samples!OfiBest(b, c) = i - j - k + l
  BY <1>3 DEF Samples!OfiBest
<1> QED BY <1>2, <1>4

(* A sign is one.                                                          *)
LEMMA SignTypes ==
    ASSUME NEW g, EngineInv(g), NEW e, Samples!IsEvent(e), NEW v
    PROVE  SignOfTrade(g, e, v) \in -1..1 /\ SignOfTrade(g, e, v) * e.qty \in Int
<1>1. e.price \in Nat /\ e.qty \in Nat /\ g.price \in Nat /\ g.sign \in -1..1
  BY EventTypes DEF EngineInv
<1>2. PICK x \in -1..1 : x = SignOfTrade(g, e, v)
  BY <1>1 DEF SignOfTrade, Samples!Sign
<1>3. x * e.qty \in Int
  BY <1>1
<1> QED BY <1>2, <1>3

(* What a mid observed changes in the engine.                              *)
MidStep(g, ts, mid, g1) ==
    /\ EngineInv(g1) /\ g1.mid = mid /\ g1.prev = g.prev /\ g1.touch = g.touch
    /\ g1.price = g.price /\ g1.sign = g.sign
    /\ \A w \in Widths : g1.win["ret"][w] = IF g.mid # 0 THEN Samples!AddValue(g.win["ret"][w], ts, mid - g.mid)
                                            ELSE g.win["ret"][w]
    /\ \A w \in Widths : g1.win["r2"][w] =
         IF g.mid # 0 THEN Samples!AddValue(g.win["r2"][w], ts, (mid - g.mid) * (mid - g.mid))
         ELSE g.win["r2"][w]
    /\ \A s \in Samples!Series \ {"ret", "r2"} : g1.win[s] = g.win[s]

(* A mid observed moves the returns and the mid.                           *)
LEMMA MidObserved ==
    ASSUME NEW g, EngineInv(g), NEW ts \in Nat, NEW mid \in Nat, NEW g1, g1 = Samples!ObserveMid(g, ts, mid)
    PROVE  MidStep(g, ts, mid, g1)
<1>1. PICK r \in Int, rr \in Int : r = mid - g.mid /\ rr = r * r
  BY DEF EngineInv
<1>2. PICK x, y, w, c : /\ x = Samples!AddTo(g.win, "r2", ts, rr) /\ y = Samples!AddTo(x, "ret", ts, r)
                        /\ w = (IF g.mid = 0 THEN g.win ELSE y)
                        /\ c = Samples!CrossOnMid(g.cross, "primary", ts, mid)
  OBVIOUS
<1>3. g1 = [g EXCEPT !.win = w, !.mid = mid, !.cross = c]
  BY <1>1, <1>2 DEF Samples!ObserveMid
<1>4. /\ g1.win = w /\ g1.mid = mid /\ g1.prev = g.prev /\ g1.touch = g.touch /\ g1.price = g.price
      /\ g1.sign = g.sign /\ IsEngine(g1)
  BY <1>3 DEF EngineInv, IsEngine
<1>5. "r2" \in Samples!Series /\ "ret" \in Samples!Series /\ "r2" # "ret"
  BY DEF Samples!Series
<1>6. /\ WinsInv(x) /\ (\A u \in Widths : x["r2"][u] = Samples!AddValue(g.win["r2"][u], ts, rr))
      /\ \A s \in Samples!Series \ {"r2"} : x[s] = g.win[s]
  <2>1. SeriesAdded(g.win, "r2", ts, rr, x)
    BY <1>2, <1>5, SeriesAdds DEF EngineInv
  <2> QED BY <2>1 DEF SeriesAdded
<1>7. /\ WinsInv(y) /\ (\A u \in Widths : y["ret"][u] = Samples!AddValue(x["ret"][u], ts, r))
      /\ \A s \in Samples!Series \ {"ret"} : y[s] = x[s]
  <2>1. SeriesAdded(x, "ret", ts, r, y)
    BY <1>2, <1>5, <1>6, SeriesAdds
  <2> QED BY <2>1 DEF SeriesAdded
<1>8. WinsInv(w)
  BY <1>2, <1>7 DEF EngineInv
<1>9. EngineInv(g1)
  BY <1>4, <1>8 DEF EngineInv
<1>10. CASE g.mid = 0
  BY <1>2, <1>4, <1>9, <1>10 DEF MidStep
<1>11. CASE g.mid # 0
  <2>1. w = y
    BY <1>2, <1>11
  <2>2. \A u \in Widths : /\ w["ret"][u] = Samples!AddValue(g.win["ret"][u], ts, r)
                          /\ w["r2"][u] = Samples!AddValue(g.win["r2"][u], ts, rr)
    BY <1>5, <1>6, <1>7, <2>1
  <2>3. \A s \in Samples!Series \ {"ret", "r2"} : w[s] = g.win[s]
    BY <1>6, <1>7, <2>1
  <2> QED BY <1>1, <1>4, <1>9, <1>11, <2>2, <2>3 DEF MidStep
<1> QED BY <1>10, <1>11

(* Every event of the venue keeps the engine's shape, and adds to each     *)
(* series what it contributes.                                             *)
LEMMA EngineMoves ==
    ASSUME NEW g, EngineInv(g), NEW e, Samples!IsEvent(e), e.k # "ref", NEW v,
           NEW g1, g1 = Samples!OnEvent(g, e, v)
    PROVE  EngineInv(g1) /\ EngineMove(g, e, v, g1)
<1>1. /\ e.t \in Nat /\ e.price \in Nat /\ e.qty \in Nat /\ e.k \in {"book", "bbo", "trade"}
      /\ e.k # "trade" => e.b \in Samples!BookState
  BY EventTypes
<1>2. {"ofi", "signed", "count", "ret", "r2", "deep", "pq", "qty"} = Samples!Series
  BY DEF Samples!Series
<1>3. CASE e.k = "bbo"
  <2>1. PICK h : h = [g EXCEPT !.touch = e.b]
    OBVIOUS
  <2>2. EngineInv(h) /\ h.win = g.win /\ h.mid = g.mid /\ h.prev = g.prev /\ h.price = g.price /\ h.sign = g.sign
    BY <1>1, <1>3, <2>1 DEF EngineInv, IsEngine
  <2>3. g1 = IF Samples!HasMid(e.b) THEN Samples!ObserveMid(h, e.t, Samples!Mid(e.b)) ELSE h
    BY <1>3, <2>1 DEF Samples!OnEvent, Samples!OnBbo
  <2>4. ~Flows(g, e) /\ (ShowsMid(e, v) <=> Samples!HasMid(e.b))
    BY <1>3 DEF Flows, ShowsMid
  <2>5. CASE Samples!HasMid(e.b)
    <3>1. PICK m \in Nat : m = Samples!Mid(e.b)
      BY <1>1, <1>3, BookTypes
    <3>2. /\ EngineInv(g1) /\ g1.mid = m /\ g1.prev = h.prev /\ g1.touch = h.touch
          /\ g1.price = h.price /\ g1.sign = h.sign
          /\ \A w \in Widths : g1.win["ret"][w] = IF h.mid # 0 THEN Samples!AddValue(h.win["ret"][w], e.t, m - h.mid)
                                                   ELSE h.win["ret"][w]
          /\ \A w \in Widths : g1.win["r2"][w] =
                IF h.mid # 0 THEN Samples!AddValue(h.win["r2"][w], e.t, (m - h.mid) * (m - h.mid))
                ELSE h.win["r2"][w]
          /\ \A s \in Samples!Series \ {"ret", "r2"} : g1.win[s] = h.win[s]
      <4>1. MidStep(h, e.t, m, g1)
        BY <1>1, <2>2, <2>3, <2>5, <3>1, MidObserved
      <4> QED BY <4>1 DEF MidStep
    <3>3. g1.win["ofi"] = g.win["ofi"] /\ g1.win["signed"] = g.win["signed"] /\ g1.win["count"] = g.win["count"]
      BY <1>2, <2>2, <3>2
    <3>4. /\ Gains(g.win, g1.win, "ofi", e, Flows(g, e), Samples!OfiBest(g.prev, e.b))
          /\ Gains(g.win, g1.win, "signed", e, e.k = "trade", SignOfTrade(g, e, v) * e.qty)
          /\ Gains(g.win, g1.win, "count", e, e.k = "trade", 1)
      BY <1>3, <2>4, <3>3 DEF Gains
    <3>5. /\ Gains(g.win, g1.win, "ret", e, ShowsMid(e, v) /\ g.mid # 0, m - g.mid)
          /\ Gains(g.win, g1.win, "r2", e, ShowsMid(e, v) /\ g.mid # 0, (m - g.mid) * (m - g.mid))
      BY <2>2, <2>4, <2>5, <3>2 DEF Gains
    <3> QED BY <1>3, <2>2, <2>4, <2>5, <3>1, <3>2, <3>4, <3>5 DEF EngineMove
  <2>6. CASE ~Samples!HasMid(e.b)
    <3>1. g1 = h
      BY <2>3, <2>6
    <3>2. /\ Gains(g.win, g1.win, "ofi", e, Flows(g, e), Samples!OfiBest(g.prev, e.b))
          /\ Gains(g.win, g1.win, "signed", e, e.k = "trade", SignOfTrade(g, e, v) * e.qty)
          /\ Gains(g.win, g1.win, "count", e, e.k = "trade", 1)
          /\ Gains(g.win, g1.win, "ret", e, ShowsMid(e, v) /\ g.mid # 0, Samples!Mid(e.b) - g.mid)
          /\ Gains(g.win, g1.win, "r2", e, ShowsMid(e, v) /\ g.mid # 0,
                   (Samples!Mid(e.b) - g.mid) * (Samples!Mid(e.b) - g.mid))
      BY <1>3, <2>2, <2>4, <2>6, <3>1 DEF Gains
    <3> QED BY <1>3, <2>2, <2>4, <2>6, <3>1, <3>2 DEF EngineMove
  <2> QED BY <2>5, <2>6
<1>4. CASE e.k = "book"
  <2>1. PICK fl, f, h : /\ fl = (IF Flows(g, e)
                                 THEN Samples!AddTo(Samples!AddTo(g.win, "ofi", e.t, Samples!OfiBest(g.prev, e.b)),
                                                    "deep", e.t, Samples!OfiDeep(g.prev, e.b))
                                 ELSE g.win)
                        /\ f = [g EXCEPT !.win = fl]
                        /\ h = (IF ShowsMid(e, v) THEN Samples!ObserveMid(f, e.t, Samples!Mid(e.b)) ELSE f)
    OBVIOUS
  <2>2. Flows(g, e) <=> g.prev # None /\ Samples!Quoted(g.prev) /\ Samples!Quoted(e.b)
    BY <1>4 DEF Flows
  <2>3. ShowsMid(e, v) <=> ~v.bbo /\ Samples!Usable(e.b) /\ Samples!HasMid(e.b)
    BY <1>4 DEF ShowsMid
  <2>4. g1 = [h EXCEPT !.prev = e.b]
    BY <1>4, <2>1, <2>2, <2>3 DEF Samples!OnEvent, Samples!OnBook
  <2>5. /\ WinsInv(fl)
        /\ \A w \in Widths : fl["ofi"][w] = IF Flows(g, e) THEN Samples!AddValue(g.win["ofi"][w], e.t, Samples!OfiBest(g.prev, e.b))
                                            ELSE g.win["ofi"][w]
        /\ \A s \in Samples!Series \ {"ofi", "deep"} : fl[s] = g.win[s]
    <3>1. CASE ~Flows(g, e)
      BY <2>1, <3>1 DEF EngineInv
    <3>2. CASE Flows(g, e)
      <4>1. g.prev \in Samples!BookState /\ e.b \in Samples!BookState
        BY <1>1, <1>4, <2>2, <3>2 DEF EngineInv
      <4>2. PICK a \in Int, d \in Int : a = Samples!OfiBest(g.prev, e.b) /\ d = Samples!OfiDeep(g.prev, e.b)
        BY <4>1, FlowTypes
      <4>3. PICK x : x = Samples!AddTo(g.win, "ofi", e.t, a)
        OBVIOUS
      <4>4. fl = Samples!AddTo(x, "deep", e.t, d)
        BY <2>1, <3>2, <4>2, <4>3
      <4>5. /\ WinsInv(x) /\ (\A u \in Widths : x["ofi"][u] = Samples!AddValue(g.win["ofi"][u], e.t, a))
            /\ \A s \in Samples!Series \ {"ofi"} : x[s] = g.win[s]
        <5>1. SeriesAdded(g.win, "ofi", e.t, a, x)
          BY <1>1, <1>2, <4>2, <4>3, SeriesAdds DEF EngineInv
        <5> QED BY <5>1 DEF SeriesAdded
      <4>6. WinsInv(fl) /\ \A s \in Samples!Series \ {"deep"} : fl[s] = x[s]
        <5>1. SeriesAdded(x, "deep", e.t, d, fl)
          BY <1>1, <1>2, <4>2, <4>4, <4>5, SeriesAdds
        <5> QED BY <5>1 DEF SeriesAdded
      <4> QED BY <1>2, <3>2, <4>2, <4>5, <4>6
    <3> QED BY <3>1, <3>2
  <2>6. EngineInv(f) /\ f.win = fl /\ f.mid = g.mid /\ f.price = g.price /\ f.sign = g.sign
    BY <2>1, <2>5 DEF EngineInv, IsEngine
  <2>7. /\ EngineInv(h) /\ h.price = g.price /\ h.sign = g.sign
        /\ h.mid = (IF ShowsMid(e, v) THEN Samples!Mid(e.b) ELSE g.mid)
        /\ \A s \in Samples!Series \ {"ret", "r2"} : h.win[s] = fl[s]
        /\ \A w \in Widths : h.win["ret"][w] =
             IF ShowsMid(e, v) /\ g.mid # 0 THEN Samples!AddValue(fl["ret"][w], e.t, Samples!Mid(e.b) - g.mid) ELSE fl["ret"][w]
        /\ \A w \in Widths : h.win["r2"][w] =
             IF ShowsMid(e, v) /\ g.mid # 0
             THEN Samples!AddValue(fl["r2"][w], e.t, (Samples!Mid(e.b) - g.mid) * (Samples!Mid(e.b) - g.mid)) ELSE fl["r2"][w]
    <3>1. CASE ~ShowsMid(e, v)
      BY <2>1, <2>6, <3>1
    <3>2. CASE ShowsMid(e, v)
      <4>1. PICK m \in Nat : m = Samples!Mid(e.b)
        BY <1>1, <1>4, BookTypes
      <4>2. h = Samples!ObserveMid(f, e.t, m)
        BY <2>1, <3>2, <4>1
      <4>3. /\ EngineInv(h) /\ h.mid = m /\ h.price = f.price /\ h.sign = f.sign
            /\ \A w \in Widths : h.win["ret"][w] = IF f.mid # 0 THEN Samples!AddValue(f.win["ret"][w], e.t, m - f.mid)
                                                   ELSE f.win["ret"][w]
            /\ \A w \in Widths : h.win["r2"][w] =
                IF f.mid # 0 THEN Samples!AddValue(f.win["r2"][w], e.t, (m - f.mid) * (m - f.mid))
                ELSE f.win["r2"][w]
            /\ \A s \in Samples!Series \ {"ret", "r2"} : h.win[s] = f.win[s]
        <5>1. MidStep(f, e.t, m, h)
          BY <1>1, <2>6, <4>1, <4>2, MidObserved
        <5> QED BY <5>1 DEF MidStep
      <4> QED BY <2>6, <3>2, <4>1, <4>3
    <3> QED BY <3>1, <3>2
  <2>8. EngineInv(g1) /\ g1.win = h.win /\ g1.mid = h.mid /\ g1.prev = e.b /\ g1.price = h.price /\ g1.sign = h.sign
    BY <1>1, <1>4, <2>4, <2>7 DEF EngineInv, IsEngine
  <2>9. fl["ret"] = g.win["ret"] /\ fl["r2"] = g.win["r2"] /\ h.win["ofi"] = fl["ofi"]
        /\ h.win["signed"] = g.win["signed"] /\ h.win["count"] = g.win["count"]
    BY <1>2, <2>5, <2>7
  <2>10. /\ Gains(g.win, g1.win, "ofi", e, Flows(g, e), Samples!OfiBest(g.prev, e.b))
         /\ Gains(g.win, g1.win, "signed", e, e.k = "trade", SignOfTrade(g, e, v) * e.qty)
         /\ Gains(g.win, g1.win, "count", e, e.k = "trade", 1)
    BY <1>4, <2>5, <2>8, <2>9 DEF Gains
  <2>11. /\ Gains(g.win, g1.win, "ret", e, ShowsMid(e, v) /\ g.mid # 0, Samples!Mid(e.b) - g.mid)
         /\ Gains(g.win, g1.win, "r2", e, ShowsMid(e, v) /\ g.mid # 0,
                   (Samples!Mid(e.b) - g.mid) * (Samples!Mid(e.b) - g.mid))
    BY <2>7, <2>8, <2>9 DEF Gains
  <2> QED BY <1>4, <2>7, <2>8, <2>10, <2>11 DEF EngineMove
<1>5. CASE e.k = "trade"
  <2>1. PICK sg \in -1..1, sq \in Int, pq \in Int, q \in Int :
           /\ sg = SignOfTrade(g, e, v) /\ sq = sg * e.qty /\ pq = e.price * e.qty /\ q = e.qty
    <3>1. e.price * e.qty \in Int /\ e.qty \in Int
      BY <1>1
    <3> QED BY <3>1, SignTypes
  <2>2. PICK a, b, c, d, tr : /\ a = Samples!AddTo(g.win, "signed", e.t, sq) /\ b = Samples!AddTo(a, "pq", e.t, pq)
                              /\ c = Samples!AddTo(b, "qty", e.t, q) /\ d = Samples!AddTo(c, "count", e.t, 1)
                              /\ tr = Samples!LastOf(Append(g.trades, e.t), MaxTrades)
    OBVIOUS
  <2>3. g1 = [g EXCEPT !.win = d, !.trades = tr, !.price = e.price,
                       !.sign = IF sg # 0 THEN sg ELSE g.sign, !.tradeNs = e.t]
    BY <1>5, <2>1, <2>2 DEF Samples!OnEvent, Samples!OnTrade, SignOfTrade
  <2>4. /\ WinsInv(a) /\ (\A u \in Widths : a["signed"][u] = Samples!AddValue(g.win["signed"][u], e.t, sq))
        /\ \A s \in Samples!Series \ {"signed"} : a[s] = g.win[s]
    <3>1. SeriesAdded(g.win, "signed", e.t, sq, a)
      BY <1>1, <1>2, <2>1, <2>2, SeriesAdds DEF EngineInv
    <3> QED BY <3>1 DEF SeriesAdded
  <2>5. WinsInv(b) /\ \A s \in Samples!Series \ {"pq"} : b[s] = a[s]
    <3>1. SeriesAdded(a, "pq", e.t, pq, b)
      BY <1>1, <1>2, <2>1, <2>2, <2>4, SeriesAdds
    <3> QED BY <3>1 DEF SeriesAdded
  <2>6. WinsInv(c) /\ \A s \in Samples!Series \ {"qty"} : c[s] = b[s]
    <3>1. SeriesAdded(b, "qty", e.t, q, c)
      BY <1>1, <1>2, <2>1, <2>2, <2>5, SeriesAdds
    <3> QED BY <3>1 DEF SeriesAdded
  <2>7. /\ WinsInv(d) /\ (\A u \in Widths : d["count"][u] = Samples!AddValue(c["count"][u], e.t, 1))
        /\ \A s \in Samples!Series \ {"count"} : d[s] = c[s]
    <3>1. 1 \in Int
      OBVIOUS
    <3>2. SeriesAdded(c, "count", e.t, 1, d)
      BY <1>1, <1>2, <2>2, <2>6, <3>1, SeriesAdds
    <3> QED BY <3>2 DEF SeriesAdded
  <2>8. PICK sn \in -1..1 : sn = IF sg # 0 THEN sg ELSE g.sign
    BY <2>1 DEF EngineInv
  <2>9. /\ IsEngine(g1) /\ g1.win = d /\ g1.mid = g.mid /\ g1.prev = g.prev /\ g1.touch = g.touch
        /\ g1.price = e.price /\ g1.sign = sn
    <3>1. g1 = [g EXCEPT !.win = d, !.trades = tr, !.price = e.price, !.sign = sn, !.tradeNs = e.t]
      BY <2>3, <2>8
    <3> QED BY <3>1 DEF EngineInv, IsEngine
  <2>10. EngineInv(g1)
    BY <1>1, <2>7, <2>9 DEF EngineInv
  <2>11. d["ofi"] = g.win["ofi"] /\ d["ret"] = g.win["ret"] /\ d["r2"] = g.win["r2"]
         /\ d["signed"] = a["signed"] /\ c["count"] = g.win["count"]
    BY <1>2, <2>4, <2>5, <2>6, <2>7
  <2>12. ~Flows(g, e) /\ ~ShowsMid(e, v)
    BY <1>5 DEF Flows, ShowsMid
  <2>13. /\ Gains(g.win, g1.win, "ofi", e, Flows(g, e), Samples!OfiBest(g.prev, e.b))
         /\ Gains(g.win, g1.win, "ret", e, ShowsMid(e, v) /\ g.mid # 0, Samples!Mid(e.b) - g.mid)
         /\ Gains(g.win, g1.win, "r2", e, ShowsMid(e, v) /\ g.mid # 0,
                   (Samples!Mid(e.b) - g.mid) * (Samples!Mid(e.b) - g.mid))
    BY <2>9, <2>11, <2>12 DEF Gains
  <2>14. /\ Gains(g.win, g1.win, "signed", e, e.k = "trade", SignOfTrade(g, e, v) * e.qty)
         /\ Gains(g.win, g1.win, "count", e, e.k = "trade", 1)
    BY <1>5, <2>1, <2>4, <2>7, <2>9, <2>11 DEF Gains
  <2> QED BY <1>5, <2>1, <2>8, <2>9, <2>10, <2>12, <2>13, <2>14 DEF EngineMove
<1> QED BY <1>1, <1>3, <1>4, <1>5

(* Pruning keeps the engine's shape, and everything but its windows.       *)
LEMMA EnginePruned ==
    ASSUME PartsAssumption, NEW g, EngineInv(g), NEW t \in Nat, NEW g1, g1 = Samples!PruneAll(g, t)
    PROVE  /\ EngineInv(g1) /\ g1.prev = g.prev /\ g1.touch = g.touch /\ g1.mid = g.mid
           /\ g1.price = g.price /\ g1.sign = g.sign
           /\ \A s \in Samples!Series, w \in Widths :
                PrunedOf(g.win[s][w], g1.win[s][w], Samples!Stale(g.win[s][w], t - w))
<1>1. Widths \subseteq Int
  BY DEF PartsAssumption, Samples!EngineBounds
<1>2. PICK x : x = [s \in Samples!Series |-> [w \in Widths |-> Samples!Prune(g.win[s][w], w, t)]]
  OBVIOUS
<1>3. g1 = [g EXCEPT !.win = x]
  BY <1>2 DEF Samples!PruneAll
<1>4. /\ IsEngine(g1) /\ g1.win = x /\ g1.prev = g.prev /\ g1.touch = g.touch /\ g1.mid = g.mid
      /\ g1.price = g.price /\ g1.sign = g.sign
  BY <1>3 DEF EngineInv, IsEngine
<1>5. ASSUME NEW s \in Samples!Series, NEW w \in Widths
      PROVE  PrunedOf(g.win[s][w], x[s][w], Samples!Stale(g.win[s][w], t - w))
  <2>1. IsWindow(g.win[s][w]) /\ w \in Int /\ t \in Int
    <3>1. WinsInv(g.win)
      BY DEF EngineInv
    <3>2. IsWindow(g.win[s][w])
      BY <3>1 DEF WinsInv
    <3> QED BY <1>1, <3>2
  <2>2. x[s][w] = Samples!Prune(g.win[s][w], w, t)
    BY <1>2
  <2>3. PICK y, n : y = g.win[s][w] /\ n = Samples!Stale(y, t - w)
    OBVIOUS
  <2>4. PrunedOf(y, Samples!Prune(y, w, t), n)
    BY <2>1, <2>3, WindowPrunes
  <2> QED BY <2>2, <2>3, <2>4
<1>6. WinsInv(x)
  <2>1. x = [s \in Samples!Series |-> x[s]] /\ \A s \in Samples!Series : x[s] = [w \in Widths |-> x[s][w]]
    BY <1>2
  <2> QED BY <1>5, <2>1 DEF WinsInv, PrunedOf
<1>7. EngineInv(g1)
  BY <1>4, <1>6 DEF EngineInv
<1> QED BY <1>4, <1>5, <1>7

(* The longest window is one.                                              *)
LEMMA LongestWidth == ASSUME PartsAssumption PROVE Samples!Longest \in Widths
<1>1. Widths \in SUBSET Nat /\ Widths # {} /\ IsFiniteSet(Widths)
  BY SampleSizes DEF PartsAssumption, Samples!EngineBounds
<1>2. \E h \in Widths : \A g \in Widths : g <= h
  <2>1. PICK x \in Widths : \A y \in Widths : x >= y
    BY <1>1, GreatestExists
  <2> QED BY <1>1, <2>1
<1> QED BY <1>2 DEF Samples!Longest

(* A row just taken at the n-th event, with no label yet.                  *)
Fresh(r, n, t, k) ==
    /\ RowTyped(r, n) /\ r.at = n /\ r.ts = t /\ r.index = k /\ r.tb = None
    /\ \A h \in Horizons : r.ret[h] = None

(* A valid sample carries the engine's mid and volatility, and no label.   *)
LEMMA SampleIsFresh ==
    ASSUME PartsAssumption, EngineInv(eng), StreamInv, NEW e, Samples!IsEvent(e), NEW r, r = Samples!Sampled(e),
           r.valid
    PROVE  Fresh(r, Len(stream) + 1, e.t, index)
<1>1. PICK g : g = Samples!Pruned(e)
  OBVIOUS
<1>2. e.t \in Nat
  BY EventTypes
<1>3. EngineInv(g)
  BY <1>1, <1>2, EnginePruned DEF Samples!Pruned
<1>4. PICK ft : ft = Samples!Compute(g, e.t, Samples!venue)
  OBVIOUS
<1>5. ft.spread # None => ft.spread \in Int
  <2>1. PICK face : face = IF Samples!venue.bbo /\ g.touch # None THEN g.touch
              ELSE IF ~Samples!venue.bbo /\ g.prev # None /\ Samples!Usable(g.prev) /\ Samples!HasMid(g.prev)
                   THEN g.prev ELSE None
    OBVIOUS
  <2>2. ft.spread = IF face # None /\ Samples!HasMid(face) THEN Samples!Spread(face) ELSE None
    BY <1>4, <2>1 DEF Samples!Compute
  <2>3. face # None => face \in Samples!BookState
    BY <1>3, <2>1 DEF EngineInv
  <2> QED BY <2>2, <2>3, BookTypes
<1>6. PICK r2 \in Int : r2 = ft.r2[Samples!Longest]
  <2>1. ft.r2 = [w \in Widths |-> g.win["r2"][w].total]
    BY <1>4 DEF Samples!Compute
  <2>2. Samples!Longest \in Widths
    BY LongestWidth
  <2>3. "r2" \in Samples!Series
    BY DEF Samples!Series
  <2>4. g.win["r2"][Samples!Longest].total \in Int
    BY <1>3, <2>2, <2>3 DEF EngineInv, WinsInv, IsWindow
  <2> QED BY <2>1, <2>2, <2>4
<1>7. /\ r.index = index /\ r.ts = e.t /\ r.at = Len(stream) + 1 /\ r.entry = g.mid /\ r.feats = ft
      /\ r.valid = (g.mid # 0 /\ g.prev # None /\ Samples!Usable(g.prev) /\ ~Samples!InGap(e.t))
      /\ r.vol = (IF r2 > 0 THEN r2 ELSE 0) /\ r.ret = Samples!NoLabels /\ r.tb = None
  BY <1>1, <1>4, <1>6 DEF Samples!Sampled
<1>8. IsRow(r)
  BY SampleIsRow
<1>9. r.vol \in Nat /\ g.mid \in Nat /\ r.entry \in Nat \ {0}
  <2>1. g.mid \in Nat
    BY <1>3 DEF EngineInv
  <2>2. g.mid # 0
    BY <1>7
  <2>3. r.vol \in Nat
    BY <1>7
  <2> QED BY <1>7, <2>1, <2>2, <2>3
<1>10. Len(stream) + 1 \in Nat
  BY DEF StreamInv, IsSeq
<1>11. \A h \in Horizons : r.ret[h] = None
  BY <1>7 DEF Samples!NoLabels
<1>12. RowTyped(r, Len(stream) + 1)
  BY <1>2, <1>5, <1>7, <1>8, <1>9, <1>10 DEF RowTyped
<1> QED BY <1>7, <1>11, <1>12 DEF Fresh

(* What the labels are, day after day: every row in flight has what the    *)
(* stream so far gives it and is still owed the rest, every valid row      *)
(* written has nothing else.                                               *)
LabelsOk(s, f, b, r) ==
    RowTyped(r, Len(s)) /\ (\A h \in Horizons : ReturnOk(s, f.pending[h], r, h)) /\ BarrierOk(s, b, r)
WrittenOk(s, r) ==
    /\ RowTyped(r, Len(s)) /\ RowBarrier(s, r, FALSE)
    /\ \A h \in Horizons : RowReturn(s, r, h, FALSE) /\ NetSound(r, h)
LabelersInv(s, f, b, k, t) ==
    /\ IsFixed(f) /\ IsBarrier(b) /\ f.last \in Nat /\ b.last = f.last /\ MidUpTo(s, Len(s), f.last)
    /\ DueQueues(f.pending, k, t) /\ \A a \in b.active : a.index \in Nat /\ a.index < k

(* A row in flight may be written as it is.                                *)
LEMMA WrittenAsItIs ==
    ASSUME NEW s, NEW f, NEW b, NEW r, LabelsOk(s, f, b, r) PROVE WrittenOk(s, r)
<1>1. RowTyped(r, Len(s)) /\ RowBarrier(s, r, TRUE)
      /\ \A h \in Horizons : RowReturn(s, r, h, TRUE) /\ NetSound(r, h)
  BY DEF LabelsOk, ReturnOk, BarrierOk
<1>2. RowBarrier(s, r, FALSE)
  BY <1>1 DEF RowBarrier
<1>3. \A h \in Horizons : RowReturn(s, r, h, FALSE)
  BY <1>1 DEF RowReturn
<1> QED BY <1>1, <1>2, <1>3 DEF WrittenOk

(* What is written stays right however the stream goes on.                 *)
LEMMA WrittenStays ==
    ASSUME NEW s, NEW e, NEW s1, Grown(s, e, s1), NEW r, WrittenOk(s, r) PROVE WrittenOk(s1, r)
<1>1. r.at \in Nat /\ RowTyped(r, Len(s))
  BY DEF WrittenOk, RowTyped
<1>2. PICK n \in Nat : n = Len(s) /\ Len(s1) = n + 1
  BY DEF Grown
<1>3. RowTyped(r, Len(s1))
  <2>1. r.at <= n + 1
    BY <1>1, <1>2 DEF RowTyped
  <2> QED BY <1>1, <1>2, <2>1 DEF RowTyped
<1>4. \A h \in Horizons : RowReturn(s1, r, h, FALSE)
  BY <1>1, ReturnMoves DEF WrittenOk, RowReturn
<1>5. RowBarrier(s1, r, FALSE)
  BY <1>1, BarrierMoves DEF WrittenOk, RowBarrier
<1> QED BY <1>3, <1>4, <1>5 DEF WrittenOk

(* A later bound and more samples are no harm to a queue.                  *)
LEMMA QueuesLoosen ==
    ASSUME PartsAssumption, NEW P, NEW k \in Nat, NEW t \in Nat, DueQueues(P, k, t),
           NEW k1 \in Nat, k <= k1, NEW t1 \in Nat, t <= t1
    PROVE  DueQueues(P, k1, t1)
<1> SUFFICES ASSUME NEW h \in Horizons PROVE DueQueue(P[h], k1, t1 + h)
  BY DEF DueQueues
<1>1. DueQueue(P[h], k, t + h) /\ h \in Nat
  BY LongestHorizon DEF DueQueues
<1>2. PICK q : q = P[h]
  OBVIOUS
<1>3. \A i \in 1..Len(q) : q[i].index < k1 /\ q[i].deadline <= t1 + h
  <2> SUFFICES ASSUME NEW i \in 1..Len(q) PROVE q[i].index < k1 /\ q[i].deadline <= t1 + h
    OBVIOUS
  <2>1. PICK x \in Nat, d \in Nat : x = q[i].index /\ d = q[i].deadline
    BY <1>1, <1>2, DueTypes
  <2>2. x < k /\ d <= t + h
    BY <1>1, <1>2, <2>1 DEF DueQueue
  <2>3. x < k1 /\ d <= t1 + h
    BY <1>1, <2>2
  <2> QED BY <2>1, <2>3
<1> QED BY <1>1, <1>2, <1>3 DEF DueQueue

(* A label event is told to both labelers, and any other to none.          *)
LEMMA LabelersStep ==
    ASSUME PartsAssumption, NEW s, NEW f, NEW b, NEW k \in Nat, NEW t \in Nat, LabelersInv(s, f, b, k, t),
           NEW e, Samples!IsEvent(e), t <= e.t, NEW s1, Grown(s, e, s1),
           NEW rf, rf = (IF Samples!LabelEvent(e) THEN Samples!FixedOnMid(f, e.t, Samples!Mid(e.b))
                         ELSE [state |-> f, done |-> {}]),
           NEW rb, rb = (IF Samples!LabelEvent(e) THEN Samples!BarrierOnMid(b, e.t, Samples!Mid(e.b))
                         ELSE [state |-> b, done |-> {}])
    PROVE  /\ LabelersInv(s1, rf.state, rb.state, k, e.t)
           /\ FixedTells(f, rf.state, rf.done, e) /\ MidKnown(f, s, e)
           /\ BarrierTells(b, rb.state, rb.done, e) /\ MidKnown(b, s, e)
<1>1. e.t \in Nat /\ (Samples!LabelEvent(e) => Samples!Mid(e.b) \in Nat)
  <2>1. Samples!LabelEvent(e) => e.b \in Samples!BookState
    BY EventTypes DEF Samples!LabelEvent
  <2> QED BY <2>1, EventTypes, BookTypes
<1>2. /\ IsFixed(f) /\ IsBarrier(b) /\ f.last \in Nat /\ b.last = f.last /\ MidUpTo(s, Len(s), f.last)
      /\ DueQueues(f.pending, k, t) /\ \A a \in b.active : a.index \in Nat /\ a.index < k
  BY DEF LabelersInv
<1>3. MidKnown(f, s, e) /\ MidKnown(b, s, e)
  BY <1>1, <1>2 DEF MidKnown
<1>4. DueQueues(f.pending, k, e.t)
  <2>1. k <= k
    OBVIOUS
  <2> QED BY <1>1, <1>2, <2>1, QueuesLoosen
<1>5. CASE ~Samples!LabelEvent(e)
  <2>1. rf.state = f /\ rf.done = {} /\ rb.state = b /\ rb.done = {}
    BY <1>5
  <2>2. MidUpTo(s1, Len(s1), f.last)
    BY <1>2, <1>5, MidMoves
  <2>3. LabelersInv(s1, f, b, k, e.t)
    BY <1>2, <1>4, <2>2 DEF LabelersInv
  <2>4. FixedTells(f, f, {}, e) /\ BarrierTells(b, b, {}, e)
    BY <1>5 DEF FixedTells, BarrierTells
  <2> QED BY <1>3, <2>1, <2>3, <2>4
<1>6. CASE Samples!LabelEvent(e)
  <2>1. PICK m \in Nat : m = Samples!Mid(e.b)
    BY <1>1, <1>6
  <2>2. rf = Samples!FixedOnMid(f, e.t, m) /\ rb = Samples!BarrierOnMid(b, e.t, m)
    BY <1>6, <2>1
  <2>3. /\ IsFixed(rf.state) /\ rf.state.last = m /\ DueQueues(rf.state.pending, k, e.t)
        /\ FixedMove(f, rf.state, rf.done, e.t, m)
    <3>1. FixedResult(f, rf, k, e.t, e.t, m)
      BY <1>1, <1>2, <1>4, <2>2, FixedMoves
    <3> QED BY <3>1 DEF FixedResult
  <2>4. /\ rb.state = [active |-> {a \in b.active : ~Samples!Ends(a, e.t, m)}, last |-> m]
        /\ rb.done = {Samples!Outcome(b, a, e.t, m) : a \in {x \in b.active : Samples!Ends(x, e.t, m)}}
    BY <2>2 DEF Samples!BarrierOnMid
  <2>5. IsBarrier(rb.state) /\ rb.state.last = m /\ \A a \in rb.state.active : a.index \in Nat /\ a.index < k
    BY <1>2, <2>4 DEF IsBarrier
  <2>6. MidUpTo(s1, Len(s1), m)
    BY <1>2, <1>6, <2>1, MidMoves
  <2>7. LabelersInv(s1, rf.state, rb.state, k, e.t)
    BY <2>1, <2>3, <2>5, <2>6 DEF LabelersInv
  <2>8. FixedTells(f, rf.state, rf.done, e)
    BY <1>6, <2>1, <2>3 DEF FixedTells
  <2>9. BarrierTells(b, rb.state, rb.done, e)
    BY <1>6, <2>1, <2>4 DEF BarrierTells
  <2> QED BY <1>3, <2>7, <2>8, <2>9
<1> QED BY <1>5, <1>6

(* What a sample that is kept makes of the labelers.                       *)
Joins(s, f, b, k, t, r, f1, b1) ==
    /\ LabelersInv(s, f1, b1, k + 1, t) /\ LabelsOk(s, f1, b1, r)
    /\ \A x : x.index < k /\ x.index # k /\ LabelsOk(s, f, b, x) => LabelsOk(s, f1, b1, x)

(* A sample that is kept is owed every label, and takes none from another. *)
LEMMA SampleJoins ==
    ASSUME PartsAssumption, NEW s, NEW f, NEW b, NEW k \in Nat, NEW t \in Nat, LabelersInv(s, f, b, k, t),
           NEW r, Fresh(r, Len(s), t, k),
           NEW f1, f1 = Samples!FixedOnSample(f, k, t, r.entry),
           NEW b1, b1 = (IF Samples!Arms(r.entry, r.vol) THEN Samples!BarrierOnSample(b, k, t, r.entry, r.vol) ELSE b)
    PROVE  Joins(s, f, b, k, t, r, f1, b1)
<1>1. /\ IsFixed(f) /\ IsBarrier(b) /\ f.last \in Nat /\ b.last = f.last /\ MidUpTo(s, Len(s), f.last)
      /\ DueQueues(f.pending, k, t) /\ \A a \in b.active : a.index \in Nat /\ a.index < k
  BY DEF LabelersInv
<1>2. /\ RowTyped(r, Len(s)) /\ r.at = Len(s) /\ r.ts = t /\ r.index = k /\ r.tb = None /\ r.at \in Nat
      /\ r.entry \in Nat \ {0} /\ r.vol \in Nat /\ \A h \in Horizons : r.ret[h] = None
  BY DEF Fresh, RowTyped
<1>3. /\ IsFixed(f1) /\ f1.last = f.last /\ DueQueues(f1.pending, k + 1, t)
      /\ \A h \in Horizons : Entries(f1.pending[h]) = Entries(f.pending[h])
                                    \cup {[deadline |-> t + h, index |-> k, entry |-> r.entry]}
  <2>1. PICK entry \in Nat : entry = r.entry
    BY <1>2
  <2>2. f1 = Samples!FixedOnSample(f, k, t, entry)
    BY <2>1
  <2>3. /\ IsFixed(f1) /\ f1.last = f.last /\ DueQueues(f1.pending, k + 1, t)
        /\ \A h \in Horizons : Entries(f1.pending[h]) = Entries(f.pending[h])
                                      \cup {[deadline |-> t + h, index |-> k, entry |-> entry]}
    BY ONLY PartsAssumption, k \in Nat, t \in Nat, entry \in Nat, <1>1, <2>2, SampleQueues
  <2> QED BY <2>1, <2>3
<1>4. Samples!Arms(r.entry, r.vol) <=> r.vol # 0
  BY <1>2 DEF Samples!Arms
<1>5. /\ IsBarrier(b1) /\ b1.last = b.last
      /\ b1.active = b.active \cup (IF r.vol # 0 THEN {ArmOf(r)} ELSE {})
  <2>1. CASE r.vol = 0
    BY <1>1, <1>4, <2>1
  <2>2. CASE r.vol # 0
    <3>1. PICK x : x = b.active \cup {ArmOf(r)}
      OBVIOUS
    <3>2. b1 = [b EXCEPT !.active = x]
      BY <1>2, <1>4, <2>2, <3>1 DEF Samples!BarrierOnSample, ArmOf
    <3> QED BY <1>1, <2>2, <3>1, <3>2 DEF IsBarrier
  <2> QED BY <2>1, <2>2
<1>6. ArmOf(r).index = k
  BY <1>2 DEF ArmOf
<1>7. LabelersInv(s, f1, b1, k + 1, t)
  <2>1. \A a \in b1.active : a.index \in Nat /\ a.index < k + 1
    <3> SUFFICES ASSUME NEW a \in b1.active PROVE a.index \in Nat /\ a.index < k + 1
      OBVIOUS
    <3>1. CASE a \in b.active
      <4>1. a.index \in Nat /\ a.index < k
        BY <1>1, <3>1
      <4>2. \A x \in Nat : x < k => x < k + 1
        OBVIOUS
      <4> QED BY <4>1, <4>2
    <3>2. CASE a = ArmOf(r)
      <4>1. k < k + 1
        OBVIOUS
      <4> QED BY <1>6, <3>2, <4>1
    <3> QED BY <1>5, <3>1, <3>2
  <2> QED BY <1>1, <1>3, <1>5, <2>1 DEF LabelersInv
<1>8. ~(k < k)
  OBVIOUS
<1>9. \A h \in Horizons : \A x \in Entries(f.pending[h]) : x.index # k
  <2> SUFFICES ASSUME NEW h \in Horizons PROVE \A x \in Entries(f.pending[h]) : x.index # k
    OBVIOUS
  <2>1. DueQueue(f.pending[h], k, t + h)
    BY <1>1 DEF DueQueues
  <2> QED BY <1>8, <2>1, DueTypes
<1>10. \A j \in 1..Len(s) : ~(j > r.at)
  BY <1>2
<1>11. ASSUME NEW h \in Horizons PROVE ReturnOk(s, f1.pending[h], r, h)
  <2>1. RowReturn(s, r, h, TRUE)
    BY <1>2, <1>10 DEF RowReturn, NoneLate, Late
  <2>2. Owed(f1.pending[h], r, h)
    <3>1. PICK x : x = [deadline |-> t + h, index |-> k, entry |-> r.entry]
      OBVIOUS
    <3>2. Entries(f1.pending[h]) = Entries(f.pending[h]) \cup {x} /\ x.index = k /\ x.deadline = r.ts + h /\ x.entry = r.entry
      BY <1>2, <1>3, <3>1
    <3> QED BY <1>2, <1>9, <3>2 DEF Owed
  <2>3. NetSound(r, h)
    BY <1>2 DEF NetSound
  <2> QED BY <2>1, <2>2, <2>3 DEF ReturnOk
<1>12. BarrierOk(s, b1, r)
  <2>1. RowBarrier(s, r, TRUE)
    BY <1>2, <1>10 DEF RowBarrier, NoneCloses, Closes
  <2>2. \A a \in b.active : a.index # k
    BY <1>1, <1>8
  <2>3. Armed(b1, r)
    BY <1>2, <1>5, <1>6, <2>2 DEF Armed
  <2> QED BY <2>1, <2>3 DEF BarrierOk
<1>13. LabelsOk(s, f1, b1, r)
  BY <1>2, <1>11, <1>12 DEF LabelsOk
<1>14. ASSUME NEW x, x.index # k, LabelsOk(s, f, b, x) PROVE LabelsOk(s, f1, b1, x)
  <2>1. ASSUME NEW h \in Horizons PROVE ReturnOk(s, f1.pending[h], x, h)
    <3>1. PICK y : y = [deadline |-> t + h, index |-> k, entry |-> r.entry]
      OBVIOUS
    <3>2. Entries(f1.pending[h]) = Entries(f.pending[h]) \cup {y} /\ y.index = k
      BY <1>3, <3>1
    <3>3. RowReturn(s, x, h, TRUE) /\ Owed(f.pending[h], x, h) /\ NetSound(x, h)
      BY <1>14 DEF LabelsOk, ReturnOk
    <3>4. Owed(f1.pending[h], x, h)
      BY <1>14, <3>2, <3>3 DEF Owed
    <3> QED BY <3>3, <3>4 DEF ReturnOk
  <2>2. RowBarrier(s, x, TRUE) /\ Armed(b, x)
    BY <1>14 DEF LabelsOk, BarrierOk
  <2>3. Armed(b1, x)
    BY <1>5, <1>6, <1>14, <2>2 DEF Armed
  <2>4. RowTyped(x, Len(s))
    BY <1>14 DEF LabelsOk
  <2> QED BY <2>1, <2>2, <2>3, <2>4 DEF LabelsOk, BarrierOk
<1> QED BY <1>7, <1>13, <1>14 DEF Joins

(* What an event tells a row in flight keeps its labels the stream's.      *)
LEMMA LabelsTold ==
    ASSUME PartsAssumption, day \in Days, NEW s, NEW e, NEW s1, Grown(s, e, s1),
           NEW f, NEW b, NEW k, NEW t, LabelersInv(s, f, b, k, t), NEW g, NEW c, NEW done, NEW outs,
           FixedTells(f, g, done, e), MidKnown(f, s, e), BarrierTells(b, c, outs, e), MidKnown(b, s, e),
           NEW r, LabelsOk(s, f, b, r), r.index \in Nat, NEW r1, r1 = Samples!Resolved(r, done, outs)
    PROVE  LabelsOk(s1, g, c, r1) /\ r1.index = r.index
<1>1. PICK n \in Int, n1 \in Int : n = Len(s) /\ n1 = Len(s1) /\ n <= n1
  <2>1. PICK n \in Nat : n = Len(s) /\ Len(s1) = n + 1
    BY DEF Grown
  <2> QED BY <2>1
<1>2. RowTyped(r, Len(s)) /\ BarrierOk(s, b, r)
  BY DEF LabelsOk
<1>3. IsRow(r)
  BY <1>2 DEF RowTyped
<1>4. RowTyped(r1, n1) /\ r1.index = r.index
  BY <1>1, <1>2, <1>3, ToldKeepsReturn
<1>5. BarrierOk(s1, c, r1)
  BY <1>2, BarriersTaken
<1>6. ASSUME NEW h \in Horizons PROVE ReturnOk(s1, g.pending[h], r1, h)
  <2>1. PICK lim : lim = t + h
    OBVIOUS
  <2>2. DueQueue(f.pending[h], k, lim)
    BY <2>1 DEF LabelersInv, DueQueues
  <2>3. ReturnOk(s, f.pending[h], r, h)
    BY DEF LabelsOk
  <2> QED BY <1>2, <2>2, <2>3, ReturnsTaken
<1> QED BY <1>1, <1>4, <1>5, <1>6 DEF LabelsOk

(* The labelers and the rows of a day, in flight and written.              *)
LabelsHeld(s, f, b, k, t, p, w) ==
    /\ LabelersInv(s, f, b, k, t)
    /\ \A i \in Waiting(p) : LabelsOk(s, f, b, p.rows[i])
    /\ \A i \in 1..Len(w) : w[i].valid => WrittenOk(s, w[i])

(* What an event tells the labelers, and the sample taken at it, kept or   *)
(* not.                                                                    *)
EventTold(e, f, b, rf, rb) ==
    IF Samples!LabelEvent(e)
    THEN rf = Samples!FixedOnMid(f, e.t, Samples!Mid(e.b)) /\ rb = Samples!BarrierOnMid(b, e.t, Samples!Mid(e.b))
    ELSE rf = [state |-> f, done |-> {}] /\ rb = [state |-> b, done |-> {}]
SampleKept(e, k, n, rf, rb, take, row, f1, b1) ==
    /\ take \in BOOLEAN /\ row.valid \in BOOLEAN /\ (take /\ row.valid => Fresh(row, n, e.t, k))
    /\ f1 = IF take /\ row.valid THEN Samples!FixedOnSample(rf.state, k, e.t, row.entry) ELSE rf.state
    /\ b1 = IF (take /\ row.valid) /\ Samples!Arms(row.entry, row.vol)
            THEN Samples!BarrierOnSample(rb.state, k, e.t, row.entry, row.vol) ELSE rb.state
RowsMoved(q, w1, p, w, k, rf, rb, take, row) ==
    /\ \A i \in Waiting(q) : q.rows[i].valid
    /\ QueueMove(q, p, k, rf.done, rb.done, take, row) /\ FileMove(w1, w, p, rf.done, rb.done, take, row)

(* One event keeps them: what is in flight is told, and a sample that is   *)
(* kept joins the rows.                                                    *)
LEMMA EventKeepsLabels ==
    ASSUME PartsAssumption, day \in Days, NEW s, NEW f, NEW b, NEW k \in Nat, NEW t \in Nat, NEW p, NEW w,
           LabelsHeld(s, f, b, k, t, p, w), QueueInv(p, k), NEW e, Samples!IsEvent(e), t <= e.t,
           NEW s1, Grown(s, e, s1),
           NEW rf, NEW rb, EventTold(e, f, b, rf, rb), NEW take, NEW row, NEW f1, NEW b1,
           SampleKept(e, k, Len(s1), rf, rb, take, row, f1, b1),
           NEW q, NEW w1, RowsMoved(q, w1, p, w, k, rf, rb, take, row)
    PROVE  LabelsHeld(s1, f1, b1, IF take THEN k + 1 ELSE k, e.t, q, w1)
<1> USE DEF SampleKept, RowsMoved
<1>1. LabelersInv(s, f, b, k, t)
  BY DEF LabelsHeld
<1>2. /\ LabelersInv(s1, rf.state, rb.state, k, e.t)
      /\ FixedTells(f, rf.state, rf.done, e) /\ MidKnown(f, s, e)
      /\ BarrierTells(b, rb.state, rb.done, e) /\ MidKnown(b, s, e)
  <2>1. /\ rf = IF Samples!LabelEvent(e) THEN Samples!FixedOnMid(f, e.t, Samples!Mid(e.b))
               ELSE [state |-> f, done |-> {}]
        /\ rb = IF Samples!LabelEvent(e) THEN Samples!BarrierOnMid(b, e.t, Samples!Mid(e.b))
               ELSE [state |-> b, done |-> {}]
    BY DEF EventTold
  <2> QED BY <1>1, <2>1, LabelersStep
<1>3. e.t \in Nat
  BY EventTypes
<1>4. PICK F, B : F = rf.state /\ B = rb.state
  OBVIOUS
<1>5. PICK done, outs : done = rf.done /\ outs = rb.done
  OBVIOUS
<1>6. LabelersInv(s1, F, B, k, e.t)
  BY <1>2, <1>4
<1>7. \A i \in Waiting(p) : p.rows[i].index = i /\ i \in Nat /\ i < k
  <2>1. \A i \in Waiting(p) : p.rows[i].index = i
    BY DEF QueueInv
  <2>2. PICK x \in Nat, y \in Nat : x = p.next /\ y = Len(p.order) /\ 1 <= x
    BY QueueTypes
  <2>3. \A j \in 1..y : p.order[j] \in Nat /\ p.order[j] < k
    BY <2>2, QueueTypes
  <2>4. \A j \in x..y : j \in 1..y
    BY <2>2
  <2> QED BY <2>1, <2>2, <2>3, <2>4 DEF Waiting
<1>8. ASSUME NEW i \in Waiting(p), NEW r1, r1 = Samples!Resolved(p.rows[i], done, outs)
      PROVE  LabelsOk(s1, F, B, r1) /\ r1.index = i
  <2>1. PICK r : r = p.rows[i]
    OBVIOUS
  <2>2. LabelsOk(s, f, b, r) /\ r.index = i /\ r.index \in Nat
    BY <1>7, <2>1 DEF LabelsHeld
  <2>3. /\ FixedTells(f, F, done, e) /\ MidKnown(f, s, e)
        /\ BarrierTells(b, B, outs, e) /\ MidKnown(b, s, e)
    BY <1>2, <1>4, <1>5
  <2>4. r1 = Samples!Resolved(r, done, outs)
    BY <1>8, <2>1
  <2>5. LabelsOk(s1, F, B, r1) /\ r1.index = r.index
    BY <1>1, <2>2, <2>3, <2>4, LabelsTold
  <2> QED BY <2>2, <2>5
<1>9. /\ LabelersInv(s1, f1, b1, IF take THEN k + 1 ELSE k, e.t)
      /\ take /\ row.valid => LabelsOk(s1, f1, b1, row)
      /\ \A x : x.index \in Nat /\ x.index < k /\ LabelsOk(s1, F, B, x) => LabelsOk(s1, f1, b1, x)
  <2>1. CASE take /\ row.valid
    <3>1. Fresh(row, Len(s1), e.t, k)
      BY <2>1
    <3>2. f1 = Samples!FixedOnSample(F, k, e.t, row.entry)
      BY <1>4, <2>1
    <3>3. b1 = IF Samples!Arms(row.entry, row.vol)
               THEN Samples!BarrierOnSample(B, k, e.t, row.entry, row.vol) ELSE B
      BY <1>4, <2>1
    <3>4. Joins(s1, F, B, k, e.t, row, f1, b1)
      BY <1>3, <1>6, <3>1, <3>2, <3>3, SampleJoins
    <3>5. \A x \in Nat : x < k => x # k
      OBVIOUS
    <3> QED BY <2>1, <3>4, <3>5 DEF Joins
  <2>2. CASE ~(take /\ row.valid)
    <3>1. f1 = F /\ b1 = B
      BY <1>4, <2>2
    <3>2. LabelersInv(s1, F, B, k + 1, e.t)
      <4>1. k + 1 \in Nat /\ k <= k + 1 /\ e.t <= e.t
        BY <1>3
      <4>2. DueQueues(F.pending, k + 1, e.t)
        <5>1. DueQueues(F.pending, k, e.t)
          BY <1>6 DEF LabelersInv
        <5> QED BY <1>3, <4>1, <5>1, QueuesLoosen
      <4>3. \A x \in Nat : x < k => x < k + 1
        OBVIOUS
      <4> QED BY <1>6, <4>2, <4>3 DEF LabelersInv
    <3> QED BY <1>6, <2>2, <3>1, <3>2
  <2> QED BY <2>1, <2>2
<1>10. ASSUME NEW i \in Waiting(q) PROVE LabelsOk(s1, f1, b1, q.rows[i])
  <2>1. CASE i \in Waiting(p) /\ q.rows[i] = Samples!Resolved(p.rows[i], done, outs)
    <3>1. PICK r1 : r1 = q.rows[i]
      OBVIOUS
    <3>2. LabelsOk(s1, F, B, r1) /\ r1.index = i
      BY <1>8, <2>1, <3>1
    <3> QED BY <1>7, <1>9, <2>1, <3>1, <3>2
  <2>2. CASE i = k /\ take /\ q.rows[i] = row
    <3>1. row.valid
      BY <1>10, <2>2
    <3> QED BY <1>9, <2>2, <3>1
  <2> QED BY <1>5, <1>10, <2>1, <2>2 DEF QueueMove
<1>11. ASSUME NEW i \in 1..Len(w1), w1[i].valid PROVE WrittenOk(s1, w1[i])
  <2>1. CASE \E j \in 1..Len(w) : w1[i] = w[j]
    <3>1. PICK j \in 1..Len(w) : w1[i] = w[j]
      BY <2>1
    <3>2. WrittenOk(s, w1[i])
      BY <1>11, <3>1 DEF LabelsHeld
    <3> QED BY <3>2, WrittenStays
  <2>2. CASE \E j \in Waiting(p) : w1[i] = Samples!Resolved(p.rows[j], done, outs)
    <3>1. LabelsOk(s1, F, B, w1[i])
      BY <1>8, <2>2
    <3> QED BY <3>1, WrittenAsItIs
  <2>3. CASE take /\ w1[i] = row
    <3>1. LabelsOk(s1, f1, b1, w1[i])
      BY <1>9, <1>11, <2>3
    <3> QED BY <3>1, WrittenAsItIs
  <2> QED BY <1>5, <1>11, <2>1, <2>2, <2>3 DEF FileMove, RowMove
<1> QED BY <1>9, <1>10, <1>11 DEF LabelsHeld

(* The state of a day's labels.                                            *)
LabelInv == EngineInv(eng) /\ LabelsHeld(stream, fixed, barrier, index, Samples!Now, queued, file)

(* The stream with one event more, and the time it shows.                  *)
LEMMA StreamGrows ==
    ASSUME StreamInv, NEW e, stream' = Append(stream, e)
    PROVE  Grown(stream, e, stream') /\ Samples!Now' = e.t
<1>1. IsSeq(stream)
  BY DEF StreamInv
<1>2. PICK s1 : s1 = stream'
  OBVIOUS
<1>3. Grown(stream, e, s1)
  BY <1>1, <1>2, AppendGrows
<1>4. PICK n \in Nat : n = Len(stream) /\ Len(s1) = n + 1 /\ s1[n + 1] = e
  BY <1>3 DEF Grown
<1>5. s1 # <<>>
  BY <1>4
<1>6. Samples!Now' = s1[Len(s1)].t
  BY <1>2, <1>5 DEF Samples!Now
<1> QED BY <1>2, <1>3, <1>4, <1>6

(* An event of the venue is told to every row in flight.                   *)
LEMMA PrimaryKeepsLabels ==
    ASSUME PartsAssumption, SampleInv, LabelInv, NEW e, Samples!IsEvent(e), e.k # "ref", e.t >= Samples!Now,
           Samples!Primary(e), day' = day, ~closed, closed' = closed, stream' = Append(stream, e), StreamInv'
    PROVE  LabelInv'
<1>1. MaxPending \in Nat /\ day \in Days /\ StreamInv
  BY DEF PartsAssumption, Samples!StreamBounds, SampleInv
<1>2. PICK take, row, rf, rb : /\ take = Samples!Takes(e) /\ row = Samples!Sampled(e)
                               /\ rf = Samples!FixedStep(e) /\ rb = Samples!BarrierStep(e)
  OBVIOUS
<1>3. PICK s, f, b, k, t, p, w : /\ s = stream /\ f = fixed /\ b = barrier /\ k = index /\ t = Samples!Now
                                 /\ p = queued /\ w = file
  OBVIOUS
<1>4. PICK s1, f1, b1, q, w1 : s1 = stream' /\ f1 = fixed' /\ b1 = barrier' /\ q = queued' /\ w1 = file'
  OBVIOUS
<1>5. /\ SampleInv' /\ index' = (IF take THEN k + 1 ELSE k)
      /\ QueueMove(q, p, k, rf.done, rb.done, take, row)
      /\ FileMove(w1, w, p, rf.done, rb.done, take, row)
  BY <1>1, <1>2, <1>3, <1>4, PrimaryKeepsRows
<1>6. take \in BOOLEAN /\ row.valid \in BOOLEAN
  BY <1>2, SampleIsRow
<1>7. EventTold(e, f, b, rf, rb)
  BY <1>2, <1>3 DEF Samples!FixedStep, Samples!BarrierStep, EventTold
<1>8. /\ f1 = (IF take /\ row.valid THEN Samples!FixedOnSample(rf.state, k, e.t, row.entry) ELSE rf.state)
      /\ b1 = (IF (take /\ row.valid) /\ Samples!Arms(row.entry, row.vol)
               THEN Samples!BarrierOnSample(rb.state, k, e.t, row.entry, row.vol) ELSE rb.state)
  BY <1>2, <1>3, <1>4 DEF Samples!Primary
<1>9. Grown(s, e, s1) /\ Samples!Now' = e.t
  BY <1>1, <1>3, <1>4, StreamGrows
<1>10. SampleKept(e, k, Len(s1), rf, rb, take, row, f1, b1)
  <2>1. row.valid => Fresh(row, Len(s1), e.t, k)
    <3> SUFFICES ASSUME row.valid PROVE Fresh(row, Len(s1), e.t, k)
      OBVIOUS
    <3>1. EngineInv(eng)
      BY DEF LabelInv
    <3>2. Fresh(row, Len(stream) + 1, e.t, index)
      BY <1>1, <1>2, <3>1, SampleIsFresh
    <3>3. Len(s1) = Len(stream) + 1
      BY <1>3, <1>9 DEF Grown
    <3> QED BY <1>3, <3>2, <3>3
  <2> QED BY <1>6, <1>8, <2>1 DEF SampleKept
<1>11. t \in Nat /\ k \in Nat /\ QueueInv(p, k) /\ LabelsHeld(s, f, b, k, t, p, w) /\ t <= e.t
  <2>1. Samples!Now \in Nat /\ e.t \in Nat
    BY <1>1, NowIsTime, EventTypes
  <2>2. RowsInv(queued, file, index)
    BY DEF SampleInv
  <2> QED BY <1>3, <2>1, <2>2 DEF LabelInv, RowsInv
<1>12. RowsMoved(q, w1, p, w, k, rf, rb, take, row)
  <2>1. RowsInv(q, w1, index')
    BY <1>4, <1>5 DEF SampleInv
  <2> QED BY <1>5, <2>1 DEF RowsInv, QueueInv, RowsMoved
<1>13. LabelsHeld(s1, f1, b1, IF take THEN k + 1 ELSE k, e.t, q, w1)
  BY <1>1, <1>7, <1>9, <1>10, <1>11, <1>12, EventKeepsLabels
<1>14. EngineInv(eng')
  <2>1. PICK g : g = Samples!Pruned(e)
    OBVIOUS
  <2>2. EngineInv(eng) /\ e.t \in Nat
    BY EventTypes DEF LabelInv
  <2>3. EngineInv(g)
    BY <2>1, <2>2, EnginePruned DEF Samples!Pruned
  <2>4. PICK v, g1 : v = Samples!venue /\ g1 = eng'
    OBVIOUS
  <2>5. g1 = Samples!OnEvent(g, e, v)
    BY <2>1, <2>4 DEF Samples!Primary
  <2>6. EngineInv(g1)
    BY <2>3, <2>5, EngineMoves
  <2> QED BY <2>4, <2>6
<1> QED BY <1>4, <1>5, <1>9, <1>13, <1>14 DEF LabelInv

(* An event that is no label event leaves a row in flight its labels.      *)
LEMMA LabelsStay ==
    ASSUME NEW s, NEW e, NEW s1, Grown(s, e, s1), ~Samples!LabelEvent(e), NEW f, NEW b, NEW r, LabelsOk(s, f, b, r)
    PROVE  LabelsOk(s1, f, b, r)
<1>1. RowTyped(r, Len(s)) /\ r.at \in Nat
  BY DEF LabelsOk, RowTyped
<1>2. PICK n \in Nat : n = Len(s) /\ Len(s1) = n + 1
  BY DEF Grown
<1>3. RowTyped(r, Len(s1))
  <2>1. r.at <= n + 1
    BY <1>1, <1>2 DEF RowTyped
  <2> QED BY <1>1, <1>2, <2>1 DEF RowTyped
<1>4. ASSUME NEW h \in Horizons PROVE ReturnOk(s1, f.pending[h], r, h)
  <2>1. RowReturn(s, r, h, TRUE) /\ Owed(f.pending[h], r, h) /\ NetSound(r, h)
    BY DEF LabelsOk, ReturnOk
  <2>2. RowReturn(s1, r, h, TRUE)
    BY <1>1, <2>1, ReturnMoves DEF RowReturn
  <2> QED BY <2>1, <2>2 DEF ReturnOk
<1>5. BarrierOk(s1, b, r)
  <2>1. RowBarrier(s, r, TRUE) /\ Armed(b, r)
    BY DEF LabelsOk, BarrierOk
  <2>2. RowBarrier(s1, r, TRUE)
    BY <1>1, <2>1, BarrierMoves DEF RowBarrier
  <2> QED BY <2>1, <2>2 DEF BarrierOk
<1> QED BY <1>3, <1>4, <1>5 DEF LabelsOk

(* A book of the reference venue is told to none of them.                  *)
LEMMA ReferenceKeepsLabels ==
    ASSUME PartsAssumption, SampleInv, LabelInv, NEW e, Samples!IsEvent(e), e.k = "ref", e.t >= Samples!Now,
           Samples!Reference(e), stream' = Append(stream, e)
    PROVE  LabelInv'
<1>1. StreamInv
  BY DEF SampleInv
<1>2. PICK s, f, b, k, t, p, w, s1 : /\ s = stream /\ f = fixed /\ b = barrier /\ k = index /\ t = Samples!Now
                                     /\ p = queued /\ w = file /\ s1 = stream'
  OBVIOUS
<1>3. fixed' = f /\ barrier' = b /\ index' = k /\ queued' = p /\ file' = w
  BY <1>2 DEF Samples!Reference
<1>4. Grown(s, e, s1) /\ Samples!Now' = e.t
  BY <1>1, <1>2, StreamGrows
<1>5. t \in Nat /\ k \in Nat /\ LabelsHeld(s, f, b, k, t, p, w) /\ t <= e.t /\ e.t \in Nat
  <2>1. Samples!Now \in Nat /\ e.t \in Nat
    BY <1>1, NowIsTime, EventTypes
  <2>2. RowsInv(queued, file, index)
    BY DEF SampleInv
  <2> QED BY <1>2, <2>1, <2>2 DEF LabelInv, RowsInv
<1>6. ~Samples!LabelEvent(e)
  BY DEF Samples!LabelEvent
<1>7. LabelersInv(s1, f, b, k, e.t)
  <2>1. PICK rf, rb : rf = [state |-> f, done |-> {}] /\ rb = [state |-> b, done |-> {}]
    OBVIOUS
  <2>2. LabelersInv(s, f, b, k, t)
    BY <1>5 DEF LabelsHeld
  <2>3. LabelersInv(s1, rf.state, rb.state, k, e.t)
    BY <1>4, <1>5, <1>6, <2>1, <2>2, LabelersStep
  <2> QED BY <2>1, <2>3
<1>8. LabelsHeld(s1, f, b, k, e.t, p, w)
  <2>1. ASSUME NEW i \in Waiting(p) PROVE LabelsOk(s1, f, b, p.rows[i])
    <3>1. PICK r : r = p.rows[i]
      OBVIOUS
    <3>2. LabelsOk(s, f, b, r)
      BY <1>5, <3>1 DEF LabelsHeld
    <3>3. LabelsOk(s1, f, b, r)
      BY <1>4, <1>6, <3>2, LabelsStay
    <3> QED BY <3>1, <3>3
  <2>2. ASSUME NEW i \in 1..Len(w), w[i].valid PROVE WrittenOk(s1, w[i])
    <3>1. WrittenOk(s, w[i])
      BY <1>5, <2>2 DEF LabelsHeld
    <3> QED BY <1>4, <3>1, WrittenStays
  <2> QED BY <1>7, <2>1, <2>2 DEF LabelsHeld
<1>9. EngineInv(eng')
  <2>1. PICK g, g1 : g = eng /\ g1 = eng'
    OBVIOUS
  <2>2. PICK c : g1 = [g EXCEPT !.cross = c] \/ g1 = g
    BY <2>1 DEF Samples!Reference
  <2>3. EngineInv(g)
    BY <2>1 DEF LabelInv
  <2>4. IsEngine(g1) /\ g1.win = g.win /\ g1.prev = g.prev /\ g1.touch = g.touch /\ g1.mid = g.mid
        /\ g1.price = g.price /\ g1.sign = g.sign
    BY <2>2, <2>3 DEF EngineInv, IsEngine
  <2>5. EngineInv(g1)
    BY <2>3, <2>4 DEF EngineInv
  <2> QED BY <2>1, <2>5
<1> QED BY <1>2, <1>3, <1>4, <1>8, <1>9 DEF LabelInv

(* At the end of the day what is left is written with the labels it has.   *)
LEMMA FinishKeepsLabels ==
    ASSUME PartsAssumption, SampleInv, LabelInv, Samples!Finish
    PROVE  LabelInv'
<1>1. MaxPending \in Nat /\ StreamInv
  BY DEF PartsAssumption, Samples!StreamBounds, SampleInv
<1>2. PICK s, f, b, k, t, p, w : /\ s = stream /\ f = fixed /\ b = barrier /\ k = index /\ t = Samples!Now
                                 /\ p = queued /\ w = file
  OBVIOUS
<1>3. PICK f1, b1, q, w1 : f1 = fixed' /\ b1 = barrier' /\ q = queued' /\ w1 = file'
  OBVIOUS
<1>4. /\ stream' = s /\ index' = k /\ eng' = eng /\ closed' = TRUE /\ Samples!Now' = t
      /\ b1 = [b EXCEPT !.active = {}]
  BY <1>2, <1>3 DEF Samples!Finish, Samples!Now
<1>5. /\ SampleInv'
      /\ \A i \in 1..Len(w1) : (\E j \in 1..Len(w) : w1[i] = w[j]) \/ \E j \in Waiting(p) : w1[i] = p.rows[j]
  BY <1>1, <1>2, <1>3, FinishKeepsRows
<1>6. Waiting(q) = {}
  <2>1. SampleInv' => (closed' => Waiting(queued') = {})
    BY DEF SampleInv
  <2> QED BY <1>3, <1>4, <1>5, <2>1
<1>7. LabelsHeld(s, f, b, k, t, p, w)
  BY <1>2 DEF LabelInv
<1>8. /\ IsFixed(f) /\ IsBarrier(b) /\ f.last \in Nat /\ b.last = f.last /\ MidUpTo(s, Len(s), f.last)
  BY <1>7 DEF LabelsHeld, LabelersInv
<1>9. PICK P : P = [h \in Horizons |-> <<>>] /\ f1 = [f EXCEPT !.pending = P]
  <2>1. PICK P : P = [h \in Horizons |-> <<>>]
    OBVIOUS
  <2>2. Samples!NewFixed.pending = P
    BY <2>1 DEF Samples!NewFixed
  <2>3. f1 = [f EXCEPT !.pending = Samples!NewFixed.pending]
    BY <1>2, <1>3 DEF Samples!Finish
  <2> QED BY <2>1, <2>2, <2>3
<1>10. DueQueues(P, k, t)
  <2>1. \A h \in Horizons : P[h] = <<>>
    BY <1>9
  <2>2. <<>> \in Seq(Due) /\ Len(<<>>) = 0
    OBVIOUS
  <2>3. \A lim : DueQueue(<<>>, k, lim)
    BY <2>2 DEF DueQueue
  <2>4. P = [h \in Horizons |-> P[h]]
    BY <1>9
  <2> QED BY <2>1, <2>3, <2>4 DEF DueQueues
<1>11. IsFixed(f1) /\ f1.last = f.last /\ f1.pending = P
  BY <1>8, <1>9 DEF IsFixed
<1>12. IsBarrier(b1) /\ b1.last = b.last /\ b1.active = {}
  BY <1>4, <1>8 DEF IsBarrier
<1>13. LabelersInv(s, f1, b1, k, t)
  BY <1>8, <1>10, <1>11, <1>12 DEF LabelersInv
<1>14. ASSUME NEW i \in 1..Len(w1), w1[i].valid PROVE WrittenOk(s, w1[i])
  <2>1. CASE \E j \in 1..Len(w) : w1[i] = w[j]
    BY <1>7, <1>14, <2>1 DEF LabelsHeld
  <2>2. CASE \E j \in Waiting(p) : w1[i] = p.rows[j]
    <3>1. LabelsOk(s, f, b, w1[i])
      BY <1>7, <2>2 DEF LabelsHeld
    <3> QED BY <3>1, WrittenAsItIs
  <2> QED BY <1>5, <2>1, <2>2
<1>15. LabelsHeld(s, f1, b1, k, t, q, w1)
  BY <1>6, <1>13, <1>14 DEF LabelsHeld
<1>16. EngineInv(eng)
  BY DEF LabelInv
<1> QED BY <1>3, <1>4, <1>15, <1>16 DEF LabelInv

(* Whatever a day of samples does next, its labels stay the stream's.      *)
LEMMA StepKeepsLabels ==
    ASSUME PartsAssumption, SampleInv, LabelInv, [Samples!Next]_(Samples!vars)
    PROVE  LabelInv'
<1>0. Steps \subseteq Nat /\ \A d \in Days : \A x \in d.events : Samples!IsEvent(x)
  BY DEF PartsAssumption, Samples!StreamBounds
<1>1. CASE UNCHANGED Samples!vars
  BY <1>1 DEF Samples!vars, LabelInv, Samples!Now
<1>2. CASE Samples!Finish
  BY <1>2, FinishKeepsLabels
<1>3. ASSUME NEW p \in day.events, NEW d \in Steps, Samples!Read([p EXCEPT !.t = Samples!Now + d])
      PROVE  LabelInv'
  <2>1. PICK e : e = [p EXCEPT !.t = Samples!Now + d]
    OBVIOUS
  <2>2. Samples!IsEvent(e) /\ e.t >= Samples!Now
    <3>1. Samples!Now \in Nat
      BY NowIsTime DEF SampleInv
    <3>2. PICK n \in Nat : n = Samples!Now + d /\ n >= Samples!Now
      BY <1>0, <3>1
    <3>3. Samples!IsEvent(p)
      BY <1>0 DEF SampleInv
    <3>4. e = [p EXCEPT !.t = n]
      BY <2>1, <3>2
    <3> QED BY <3>2, <3>3, <3>4, EventMoves
  <2>3. stream' = Append(stream, e) /\ day' = day /\ closed' = closed /\ ~closed
    BY <1>3, <2>1 DEF Samples!Read
  <2>4. StreamInv'
    BY <2>2, <2>3, ReadKeepsOrder DEF SampleInv
  <2>5. CASE e.k = "ref"
    <3>1. Samples!Reference(e)
      BY <1>3, <2>1, <2>5 DEF Samples!Read
    <3> QED BY <2>2, <2>3, <2>5, <3>1, ReferenceKeepsLabels
  <2>6. CASE e.k # "ref"
    <3>1. Samples!Primary(e)
      BY <1>3, <2>1, <2>6 DEF Samples!Read
    <3> QED BY <2>2, <2>3, <2>4, <2>6, <3>1, PrimaryKeepsLabels
  <2> QED BY <2>5, <2>6
<1> QED BY <1>1, <1>2, <1>3 DEF Samples!Next

(* A day starts with no label owed, and no history.                        *)
LEMMA StartsLabelled == ASSUME PartsAssumption, SampleInv, Samples!Init PROVE LabelInv
<1>1. /\ stream = <<>> /\ file = <<>> /\ index = 0 /\ queued = Samples!NewPending
      /\ eng = Samples!NewEngine /\ fixed = Samples!NewFixed /\ barrier = Samples!NewBarrier
  BY DEF Samples!Init
<1>2. PICK E : E = [items |-> <<>>, total |-> 0]
  OBVIOUS
<1>3. IsWindow(E)
  BY <1>2 DEF IsWindow
<1>4. PICK W : W = [s \in Samples!Series |-> [w \in Widths |-> E]]
  OBVIOUS
<1>5. WinsInv(W)
  BY <1>3, <1>4 DEF WinsInv
<1>6. PICK c : eng = [win |-> W, prev |-> None, touch |-> None, mid |-> 0, trades |-> <<>>,
                      price |-> 0, sign |-> 0, tradeNs |-> 0, cross |-> c]
  BY <1>1, <1>2, <1>4 DEF Samples!NewEngine, Samples!EmptyWindow
<1>7. EngineInv(eng)
  BY <1>5, <1>6 DEF EngineInv, IsEngine
<1>8. Waiting(queued) = {} /\ Len(file) = 0 /\ Len(stream) = 0 /\ Samples!Now = 0
  <2>1. queued.order = <<>> /\ queued.next = 1
    BY <1>1 DEF Samples!NewPending
  <2> QED BY <1>1, <2>1 DEF Waiting, Samples!Now
<1>9. PICK P : P = [h \in Horizons |-> <<>>] /\ fixed = [pending |-> P, last |-> 0]
  BY <1>1 DEF Samples!NewFixed
<1>10. DueQueues(P, 0, 0)
  <2>1. \A h \in Horizons : P[h] = <<>>
    BY <1>9
  <2>2. <<>> \in Seq(Due) /\ Len(<<>>) = 0
    OBVIOUS
  <2>3. \A lim : DueQueue(<<>>, 0, lim)
    BY <2>2 DEF DueQueue
  <2>4. P = [h \in Horizons |-> P[h]]
    BY <1>9
  <2> QED BY <2>1, <2>3, <2>4 DEF DueQueues
<1>11. IsFixed(fixed) /\ fixed.last = 0 /\ fixed.pending = P
  BY <1>9 DEF IsFixed
<1>12. IsBarrier(barrier) /\ barrier.last = 0 /\ barrier.active = {}
  BY <1>1 DEF Samples!NewBarrier, IsBarrier
<1>13. LabelersInv(stream, fixed, barrier, index, Samples!Now)
  <2>1. MidUpTo(stream, Len(stream), 0)
    BY <1>8 DEF MidUpTo
  <2> QED BY <1>1, <1>8, <1>10, <1>11, <1>12, <2>1 DEF LabelersInv
<1> QED BY <1>7, <1>8, <1>13 DEF LabelInv, LabelsHeld

(* Labels in that state are the ones a reader of the whole stream gives.   *)
LEMMA KeptLabelsMatch ==
    ASSUME PartsAssumption, SampleInv, LabelInv
    PROVE  Samples!LabelsMatchStream
<1>1. QueueInv(queued, index) /\ FileInv(file, queued, index) /\ IsSeq(stream) /\ LabelsHeld(stream, fixed, barrier, index, Samples!Now, queued, file)
  BY DEF SampleInv, RowsInv, StreamInv, LabelInv
<1>2. DOMAIN queued.rows = Waiting(queued) /\ \A i \in Waiting(queued) : queued.rows[i].index = i
  BY <1>1 DEF QueueInv
<1>3. None \notin Int
  BY DEF PartsAssumption, Samples!StreamBounds
<1>4. Len(stream) \in Nat
  BY <1>1 DEF IsSeq
<1>5. ASSUME NEW r, NEW waits \in BOOLEAN, r.index \in DOMAIN queued.rows => waits, NEW h \in Horizons,
             RowReturn(stream, r, h, waits), RowBarrier(stream, r, waits), NetSound(r, h)
      PROVE  LET tb == IF r.tb = None THEN None ELSE r.tb.label
             IN  /\ r.ret[h] # None \/ r.index \in DOMAIN queued.rows => r.ret[h] = Samples!ForwardReturn(r, h)
                 /\ tb # None \/ r.index \in DOMAIN queued.rows => tb = Samples!BarrierLabel(r)
                 /\ r.ret[h] # None /\ r.taker[h] = 1 /\ ~Samples!CrossedTouch(r)
                      => r.maker[h] = 1 /\ r.ret[h] > 0
  <2>1. PICK tb : tb = IF r.tb = None THEN None ELSE r.tb.label
    OBVIOUS
  <2>2. ASSUME r.ret[h] # None \/ r.index \in DOMAIN queued.rows PROVE r.ret[h] = Samples!ForwardReturn(r, h)
    <3>1. PICK v : v = r.ret[h]
      OBVIOUS
    <3>2. (v = None /\ NoneLate(stream, r, h)) \/ Settled(stream, r, h, v)
      BY <1>5, <2>2, <3>1 DEF RowReturn
    <3> QED BY <1>4, <3>1, <3>2, ForwardReturnIs
  <2>3. ASSUME tb # None \/ r.index \in DOMAIN queued.rows PROVE tb = Samples!BarrierLabel(r)
    <3>1. (tb = None /\ (r.vol = 0 \/ NoneCloses(stream, r))) \/ Ended(stream, r, tb)
      BY <1>5, <2>1, <2>3 DEF RowBarrier
    <3> QED BY <1>4, <3>1, BarrierLabelIs
  <2>4. r.ret[h] # None /\ r.taker[h] = 1 /\ ~Samples!CrossedTouch(r) => r.maker[h] = 1 /\ r.ret[h] > 0
    BY <1>5 DEF NetSound
  <2> QED BY <2>1, <2>2, <2>3, <2>4
<1>6. ASSUME NEW r \in Samples!RowSet, r.valid, NEW h \in Horizons
      PROVE  \E waits \in BOOLEAN : /\ r.index \in DOMAIN queued.rows => waits
                                    /\ RowReturn(stream, r, h, waits) /\ RowBarrier(stream, r, waits)
                                    /\ NetSound(r, h)
  <2>1. CASE \E i \in Waiting(queued) : r = queued.rows[i]
    <3>1. LabelsOk(stream, fixed, barrier, r)
      BY <1>1, <2>1 DEF LabelsHeld
    <3>2. RowReturn(stream, r, h, TRUE) /\ RowBarrier(stream, r, TRUE) /\ NetSound(r, h)
      BY <3>1 DEF LabelsOk, ReturnOk, BarrierOk
    <3> QED BY <3>2
  <2>2. CASE \E i \in 1..Len(file) : r = file[i]
    <3>1. WrittenOk(stream, r)
      BY <1>1, <1>6, <2>2 DEF LabelsHeld
    <3>2. RowReturn(stream, r, h, FALSE) /\ RowBarrier(stream, r, FALSE) /\ NetSound(r, h)
      BY <3>1 DEF WrittenOk
    <3>3. r.index \notin DOMAIN queued.rows
      <4>1. PICK i \in 1..Len(file) : r = file[i]
        BY <2>2
      <4>2. r.index \in Nat /\ \A j \in Waiting(queued) : r.index < j
        BY <1>1, <1>6, <4>1 DEF FileInv
      <4>3. ~(r.index < r.index)
        BY <4>2
      <4> QED BY <1>2, <4>2, <4>3
    <3> QED BY <3>2, <3>3
  <2>3. r \in {file[i] : i \in 1..Len(file)} \cup {queued.rows[i] : i \in DOMAIN queued.rows}
    BY <1>6 DEF Samples!RowSet
  <2> QED BY <1>2, <2>1, <2>2, <2>3
<1> QED BY <1>5, <1>6 DEF Samples!LabelsMatchStream

(* Every return, net label and barrier outcome a valid sample carries is   *)
(* what a reader of the whole stream would give it, and one in flight has  *)
(* every one of them the stream has settled.                               *)
THEOREM LabelsAreTheStreams == FeedSpec => []LabelsMatchStream
<1> DEFINE Inv == part = "samples" => SampleInv /\ LabelInv
<1>1. FeedInit => Inv
  BY PartsAssumption, StartsWithoutRows, StartsLabelled DEF FeedInit
<1>2. Inv /\ [FeedNext]_feedVars => Inv'
  <2> SUFFICES ASSUME Inv, [FeedNext]_feedVars, part' = "samples" PROVE SampleInv' /\ LabelInv'
    OBVIOUS
  <2>1. part = "samples" /\ [Samples!Next]_(Samples!vars)
    BY DEF FeedNext, feedVars, sampleVars, Samples!vars
  <2> QED BY <2>1, PartsAssumption, StepKeepsRows, StepKeepsLabels
<1>3. Inv => LabelsMatchStream
  BY PartsAssumption, KeptLabelsMatch DEF LabelsMatchStream
<1> QED BY <1>1, <1>2, <1>3, PTL DEF FeedSpec

-----------------------------------------------------------------------------
(* The members of S stand for some of T, each with the integer of its own. *)
StandsFor(f, S, T, G, F) ==
    /\ \A x \in S : f[x] \in T /\ G[x] = F[f[x]]
    /\ \A x, y \in S : f[x] = f[y] => x = y
    /\ \A y \in T : F[y] \in Int

(* A sum over the members that others stand for is the sum over those.     *)
LEMMA SumImage ==
    ASSUME NEW S, IsFiniteSet(S), NEW T, IsFiniteSet(T), NEW f, NEW G, NEW F, StandsFor(f, S, T, G, F)
    PROVE  SumOver(G, S) = SumOver(F, {f[x] : x \in S})
<1>0. /\ \A x \in S : f[x] \in T /\ G[x] = F[f[x]]
      /\ \A x, y \in S : f[x] = f[y] => x = y
      /\ \A y \in T : F[y] \in Int
  BY DEF StandsFor
<1> DEFINE I(s) == {f[x] : x \in s}
           P == {s \in SUBSET S : SumOver(G, s) = SumOver(F, I(s))}
<1>1. \A s \in SUBSET S : IsFiniteSet(s) /\ I(s) \subseteq T /\ IsFiniteSet(I(s))
  <2> SUFFICES ASSUME NEW s \in SUBSET S PROVE IsFiniteSet(s) /\ I(s) \subseteq T /\ IsFiniteSet(I(s))
    OBVIOUS
  <2>1. I(s) \subseteq T
    BY <1>0
  <2> HIDE DEF I
  <2> QED BY <2>1, FS_Subset
<1>2. {} \in P
  <2>1. I({}) = {}
    OBVIOUS
  <2>2. SumOver(G, {}) = 0 /\ SumOver(F, {}) = 0
    BY SumOfNothing
  <2> QED BY <2>1, <2>2
<1>3. ASSUME NEW s \in SUBSET S, s # {}, s \ {Pick(s)} \in P PROVE s \in P
  <2>1. PICK e : e = Pick(s)
    OBVIOUS
  <2>2. e \in s /\ e \in S
    BY <1>3, <2>1 DEF Pick
  <2>3. SumOver(G, s) = G[e] + SumOver(G, s \ {e})
    <3> HIDE DEF I
    <3>1. IsFiniteSet(s) /\ \A x \in s : G[x] \in Int
      <4>1. \A x \in s : x \in S /\ G[x] \in Int
        BY <1>0
      <4> QED BY <1>1, <4>1
    <3> QED BY ONLY <2>2, <3>1, SumRemove
  <2>4. I(s) \ {f[e]} = I(s \ {e}) /\ f[e] \in I(s)
    BY <1>0, <2>2
  <2>5. SumOver(F, I(s)) = F[f[e]] + SumOver(F, I(s) \ {f[e]})
    <3> HIDE DEF I
    <3>1. IsFiniteSet(I(s)) /\ \A x \in I(s) : F[x] \in Int
      BY <1>0, <1>1
    <3> QED BY <2>4, <3>1, SumRemove
  <2>6. SumOver(G, s \ {e}) = SumOver(F, I(s \ {e}))
    BY <1>3, <2>1
  <2>7. G[e] = F[f[e]]
    BY <1>0, <2>2
  <2> HIDE DEF I
  <2> QED BY <2>2, <2>3, <2>4, <2>5, <2>6, <2>7
<1> HIDE DEF P
<1>4. SUBSET S \subseteq P
  BY <1>2, <1>3, PickInduction
<1>5. S \in P
  BY <1>4
<1> QED BY <1>5 DEF P

(* Each member of a set counted as one adds up to its size.                *)
LEMMA SumOfOnes ==
    ASSUME NEW F, NEW S, IsFiniteSet(S), \A x \in S : F[x] = 1 PROVE SumOver(F, S) = Cardinality(S)
<1> DEFINE P == {s \in SUBSET S : SumOver(F, s) = Cardinality(s)}
<1>1. {} \in P
  BY SumOfNothing, FS_EmptySet
<1>2. ASSUME NEW s \in SUBSET S, s # {}, s \ {Pick(s)} \in P PROVE s \in P
  <2>1. PICK e : e = Pick(s)
    OBVIOUS
  <2>2. e \in s /\ e \in S /\ IsFiniteSet(s) /\ Cardinality(s) \in Nat
    BY <1>2, <2>1, FS_Subset, FS_CardinalityType DEF Pick
  <2>3. SumOver(F, s) = 1 + SumOver(F, s \ {e})
    <3>1. (\A x \in s : F[x] \in Int) /\ F[e] = 1
      BY <2>2
    <3> QED BY <2>2, <3>1, SumRemove
  <2>4. Cardinality(s \ {e}) = Cardinality(s) - 1
    BY <2>2, FS_RemoveElement
  <2>5. SumOver(F, s \ {e}) = Cardinality(s \ {e})
    BY <1>2, <2>1
  <2> QED BY <2>2, <2>3, <2>4, <2>5
<1> HIDE DEF P
<1>3. SUBSET S \subseteq P
  BY <1>1, <1>2, PickInduction
<1>4. S \in P
  BY <1>3
<1> QED BY <1>4 DEF P

(* A window that holds, in their order, the values F gives to the places P *)
(* of the stream, and nothing else.                                        *)
Held(w, s, F, at, P) ==
    /\ IsWindow(w) /\ P \subseteq 1..Len(s) /\ \A x \in P : F[x] \in Int
    /\ \A i \in 1..Len(w.items) : at[i] \in P /\ w.items[i].ts = s[at[i]].t /\ w.items[i].v = F[at[i]]
    /\ \A i, j \in 1..Len(w.items) : i < j => at[i] < at[j]
    /\ \A x \in P : \E i \in 1..Len(w.items) : at[i] = x
    /\ w.total = SumOver(F, P)
After(s, A, cut) == {j \in A : s[j].t > cut}
HoldsFrom(w, s, F, A, cut) == A \subseteq 1..Len(s) /\ \E at : Held(w, s, F, at, After(s, A, cut))
HoldsSince(w, s, F, A, lim) == \E cut \in Int : cut <= lim /\ HoldsFrom(w, s, F, A, cut)
TimedBy(s) == Len(s) \in Nat /\ (\A i \in 1..Len(s) : s[i].t \in Nat) /\ \A i, j \in 1..Len(s) : i <= j => s[i].t <= s[j].t

(* Pruned to a later time, it holds what is later.                         *)
LEMMA HeldPrunes ==
    ASSUME NEW s, TimedBy(s), NEW w, NEW F, NEW A, NEW lim \in Int, HoldsSince(w, s, F, A, lim),
           NEW cut \in Int, lim <= cut, NEW w1, PrunedOf(w, w1, Samples!Stale(w, cut))
    PROVE  HoldsFrom(w1, s, F, A, cut)
<1>0. PICK c0 \in Int : c0 <= lim /\ HoldsFrom(w, s, F, A, c0)
  BY DEF HoldsSince
<1>1. PICK at : c0 <= lim /\ A \subseteq 1..Len(s) /\ Held(w, s, F, at, After(s, A, c0))
  BY <1>0 DEF HoldsFrom
<1>2. PICK P : P = After(s, A, c0)
  OBVIOUS
<1>3. PICK b \in Nat : b = Len(w.items) /\ w.items \in Seq(Stamp) /\ w.total \in Int
  BY <1>1, StampTypes DEF Held, IsWindow
<1>4. PICK n \in 0..b : n = Samples!Stale(w, cut)
  BY <1>3, StaleHead
<1>5. /\ \A i \in 1..b : w.items[i].ts \in Nat
      /\ \A i \in 1..b : i <= n => w.items[i].ts <= cut
      /\ n # b => w.items[n + 1].ts > cut
  BY <1>3, <1>4, StaleHead, StampTypes
<1>6. /\ P \subseteq 1..Len(s) /\ P \subseteq A /\ \A x \in P : F[x] \in Int
      /\ \A i \in 1..b : at[i] \in P /\ w.items[i].ts = s[at[i]].t /\ w.items[i].v = F[at[i]]
      /\ \A i, j \in 1..b : i < j => at[i] < at[j]
      /\ \A x \in P : \E i \in 1..b : at[i] = x
      /\ w.total = SumOver(F, P)
  BY <1>1, <1>2, <1>3 DEF Held, After
<1>7. \A i \in 1..b : i > n => w.items[i].ts > cut
  <2> SUFFICES ASSUME NEW i \in 1..b, i > n PROVE w.items[i].ts > cut
    OBVIOUS
  <2>1. n # b /\ n + 1 \in 1..b /\ (i = n + 1 \/ n + 1 < i)
    BY <1>4
  <2>2. w.items[n + 1].ts > cut
    BY <1>5, <2>1
  <2>3. CASE n + 1 < i
    <3>1. at[n + 1] < at[i] /\ at[n + 1] \in 1..Len(s) /\ at[i] \in 1..Len(s)
      BY <1>6, <2>1, <2>3
    <3>2. at[n + 1] <= at[i]
      <4>1. Len(s) \in Nat
        BY DEF TimedBy
      <4> QED BY <3>1, <4>1
    <3>3. s[at[n + 1]].t <= s[at[i]].t
      BY <3>1, <3>2 DEF TimedBy
    <3>4. w.items[n + 1].ts <= w.items[i].ts /\ w.items[n + 1].ts \in Nat /\ w.items[i].ts \in Nat
      BY <1>5, <1>6, <2>1, <3>3
    <3> QED BY <2>2, <3>4
  <2> QED BY <2>1, <2>2, <2>3
<1>8. PICK at1 : at1 = [i \in 1..(b - n) |-> at[i + n]]
  OBVIOUS
<1>9. PICK R : R = After(s, A, cut)
  OBVIOUS
<1>10. R \subseteq P /\ \A x \in P : x \in R <=> s[x].t > cut
  <2>1. \A x \in A : s[x].t > cut => s[x].t > c0
    <3> SUFFICES ASSUME NEW x \in A, s[x].t > cut PROVE s[x].t > c0
      OBVIOUS
    <3>1. s[x].t \in Nat
      BY <1>1 DEF TimedBy
    <3> QED BY <1>1, <3>1
  <2> QED BY <1>2, <1>6, <1>9, <2>1 DEF After
<1>11. PICK Q : Q = {at[i] : i \in 1..n}
  OBVIOUS
<1>12. Q \subseteq P /\ P \ Q = R
  <2>1. \A i \in 1..n : i \in 1..b /\ i <= n
    BY <1>4
  <2>2. Q \subseteq P
    BY <1>6, <1>11, <2>1
  <2>3. ASSUME NEW x \in Q PROVE x \notin R
    <3>1. PICK i \in 1..n : x = at[i]
      BY <1>11
    <3>2. s[x].t <= cut /\ s[x].t \in Nat /\ x \in P
      BY <1>5, <1>6, <2>1, <3>1
    <3>3. ~(s[x].t > cut)
      BY <3>2
    <3> QED BY <1>10, <3>2, <3>3
  <2>4. ASSUME NEW x \in P, x \notin Q PROVE x \in R
    <3>1. PICK i \in 1..b : at[i] = x
      BY <1>6
    <3>2. i > n
      <4>1. i \notin 1..n
        BY <1>11, <2>4, <3>1
      <4> QED BY <1>4, <4>1
    <3> QED BY <1>6, <1>7, <1>10, <3>1, <3>2
  <2> QED BY <1>10, <2>2, <2>3, <2>4
<1>13. LetGoOf(w, n) = SumOver(F, Q)
  <2>1. PICK G : G = [i \in 1..n |-> w.items[i].v]
    OBVIOUS
  <2>2. \A i \in 1..n : i \in 1..b
    BY <1>4
  <2>3. IsFiniteSet(1..n) /\ IsFiniteSet(P)
    <3>1. IsFiniteSet(1..Len(s)) /\ IsFiniteSet(1..n)
      <4>1. Len(s) \in Int /\ n \in Int /\ 1 \in Int
        BY <1>4 DEF TimedBy
      <4> QED BY <4>1, FS_Interval
    <3> QED BY <1>6, <3>1, FS_Subset
  <2>4. \A i, j \in 1..n : at[i] = at[j] => i = j
    <3>1. \A i, j \in 1..b : at[i] \in Nat /\ (i < j \/ j < i \/ i = j)
      <4>1. \A i, j \in 1..b : i < j \/ j < i \/ i = j
        OBVIOUS
      <4>2. \A x \in P : x \in Nat
        <5>1. \A x \in 1..Len(s) : x \in Nat
          BY DEF TimedBy
        <5> QED BY <1>6, <5>1
      <4> QED BY <1>6, <4>1, <4>2
    <3>2. \A i, j \in 1..b : at[i] = at[j] => i = j
      BY <1>6, <3>1
    <3> QED BY <2>2, <3>2
  <2>5. \A i \in 1..n : at[i] \in P /\ G[i] = F[at[i]]
    BY <1>6, <2>1, <2>2
  <2>6. SumOver(G, 1..n) = SumOver(F, {at[i] : i \in 1..n})
    <3>1. PICK S : S = 1..n
      OBVIOUS
    <3>2. StandsFor(at, S, P, G, F)
      BY <1>6, <2>4, <2>5, <3>1 DEF StandsFor
    <3>3. IsFiniteSet(S) /\ IsFiniteSet(P)
      BY <2>3, <3>1
    <3>4. SumOver(G, S) = SumOver(F, {at[i] : i \in S})
      BY ONLY <3>2, <3>3, SumImage
    <3> QED BY <3>1, <3>4
  <2> QED BY <1>11, <2>1, <2>6 DEF LetGoOf
<1>14. /\ IsWindow(w1) /\ w1.items = SubSeq(w.items, n + 1, b) /\ w1.total = w.total - LetGoOf(w, n)
  BY <1>3, <1>4 DEF PrunedOf
<1>15. /\ Len(w1.items) = b - n /\ b - n \in Nat
       /\ \A i \in 1..(b - n) : w1.items[i] = w.items[i + n] /\ i + n \in 1..b
  <2>1. \A i \in (n + 1)..b : w.items[i] \in Stamp
    BY <1>3, <1>4
  <2>2. n + 1 \in Int /\ b \in Int /\ n \in Int /\ n <= b
    BY <1>4
  <2>3. /\ Len(w1.items) = IF n + 1 <= b THEN b - (n + 1) + 1 ELSE 0
        /\ \A i \in 1..(b - (n + 1) + 1) : w1.items[i] = w.items[(n + 1) + i - 1]
    BY ONLY <1>14, <2>1, <2>2, SubSeqProperties
  <2>4. \A i \in 1..(b - n) : i \in 1..(b - (n + 1) + 1) /\ (n + 1) + i - 1 = i + n /\ i + n \in 1..b
    BY <2>2
  <2>5. (IF n + 1 <= b THEN b - (n + 1) + 1 ELSE 0) = b - n /\ b - n \in Nat
    BY <2>2
  <2> QED BY <2>3, <2>4, <2>5
<1>16. w1.total = SumOver(F, R)
  <2>1. IsFiniteSet(P)
    <3>1. IsFiniteSet(1..Len(s))
      <4>1. Len(s) \in Int /\ 1 \in Int
        BY DEF TimedBy
      <4> QED BY <4>1, FS_Interval
    <3> QED BY <1>6, <3>1, FS_Subset
  <2>2. SumOver(F, P) = SumOver(F, Q) + SumOver(F, R)
    <3>1. Q \in SUBSET P /\ \A x \in P : F[x] \in Int
      BY <1>6, <1>12
    <3>2. SumOver(F, P) = SumOver(F, Q) + SumOver(F, P \ Q)
      BY ONLY <2>1, <3>1, SumParts
    <3> QED BY <1>12, <3>2
  <2>3. SumOver(F, Q) \in Int /\ SumOver(F, R) \in Int
    <3>1. IsFiniteSet(Q) /\ IsFiniteSet(R)
      BY <1>10, <1>12, <2>1, FS_Subset
    <3> QED BY <1>6, <1>10, <1>12, <3>1, SumType
  <2> QED BY <1>6, <1>13, <1>14, <2>2, <2>3
<1>17. \A i \in 1..(b - n) : at1[i] \in R /\ w1.items[i].ts = s[at1[i]].t /\ w1.items[i].v = F[at1[i]]
  <2> SUFFICES ASSUME NEW i \in 1..(b - n)
               PROVE  at1[i] \in R /\ w1.items[i].ts = s[at1[i]].t /\ w1.items[i].v = F[at1[i]]
    OBVIOUS
  <2>1. at1[i] = at[i + n] /\ w1.items[i] = w.items[i + n] /\ i + n \in 1..b /\ i + n > n
    BY <1>4, <1>8, <1>15
  <2>2. w.items[i + n].ts > cut
    BY <1>7, <2>1
  <2> QED BY <1>6, <1>10, <2>1, <2>2
<1>18. \A i, j \in 1..(b - n) : i < j => at1[i] < at1[j]
  <2>1. \A i, j \in 1..(b - n) : i < j => i + n < j + n
    BY <1>4
  <2> QED BY <1>6, <1>8, <1>15, <2>1
<1>19. \A x \in R : \E i \in 1..(b - n) : at1[i] = x
  <2> SUFFICES ASSUME NEW x \in R PROVE \E i \in 1..(b - n) : at1[i] = x
    OBVIOUS
  <2>1. PICK j \in 1..b : at[j] = x
    BY <1>6, <1>10
  <2>2. j > n
    <3>1. x \notin Q
      BY <1>12
    <3>2. j \notin 1..n
      BY <1>11, <2>1, <3>1
    <3> QED BY <1>4, <3>2
  <2>3. j - n \in 1..(b - n) /\ (j - n) + n = j
    BY <1>4, <2>2
  <2> QED BY <1>8, <2>1, <2>3
<1>20. Held(w1, s, F, at1, R)
  BY <1>6, <1>10, <1>14, <1>15, <1>16, <1>17, <1>18, <1>19 DEF Held
<1> QED BY <1>1, <1>9, <1>20 DEF HoldsFrom

(* What a window holds depends on nothing that comes later.                *)
LEMMA HeldStays ==
    ASSUME NEW s, NEW e, NEW s1, Grown(s, e, s1), NEW w, NEW F, NEW A, NEW lim \in Int, HoldsSince(w, s, F, A, lim),
           NEW F1, \A i \in A : F1[i] = F[i], NEW lim1 \in Int, lim <= lim1
    PROVE  HoldsSince(w, s1, F1, A, lim1)
<1>1. PICK cut \in Int : cut <= lim /\ HoldsFrom(w, s, F, A, cut)
  BY DEF HoldsSince
<1>2. PICK at : A \subseteq 1..Len(s) /\ Held(w, s, F, at, After(s, A, cut))
  BY <1>1 DEF HoldsFrom
<1>3. PICK n \in Nat : n = Len(s) /\ Len(s1) = n + 1 /\ \A i \in 1..n : s1[i] = s[i]
  BY DEF Grown
<1>4. PICK P : P = After(s, A, cut)
  OBVIOUS
<1>5. After(s1, A, cut) = P /\ P \subseteq A /\ A \subseteq 1..n /\ A \subseteq 1..(n + 1)
  <2>1. A \subseteq 1..n
    BY <1>2, <1>3
  <2>2. \A j \in A : s1[j] = s[j] /\ j \in 1..(n + 1)
    BY <1>3, <2>1
  <2> QED BY <1>4, <2>1, <2>2 DEF After
<1>6. PICK b : b = Len(w.items)
  OBVIOUS
<1>7. /\ IsWindow(w) /\ P \subseteq 1..Len(s) /\ \A x \in P : F[x] \in Int
      /\ \A i \in 1..b : at[i] \in P /\ w.items[i].ts = s[at[i]].t /\ w.items[i].v = F[at[i]]
      /\ \A i, j \in 1..b : i < j => at[i] < at[j]
      /\ \A x \in P : \E i \in 1..b : at[i] = x
      /\ w.total = SumOver(F, P)
  BY <1>2, <1>4, <1>6 DEF Held
<1>8. \A x \in P : s1[x] = s[x] /\ F1[x] = F[x]
  BY <1>3, <1>5
<1>9. SumOver(F1, P) = SumOver(F, P)
  <2>1. IsFiniteSet(1..n)
    <3>1. 1 \in Int /\ n \in Int
      OBVIOUS
    <3> QED BY <3>1, FS_Interval
  <2>2. IsFiniteSet(P)
    BY <1>5, <2>1, FS_Subset
  <2> QED BY <1>8, <2>2, SumAgrees
<1>10. Held(w, s1, F1, at, P)
  <2>1. \A i \in 1..b : at[i] \in P /\ w.items[i].ts = s1[at[i]].t /\ w.items[i].v = F1[at[i]]
    BY <1>7, <1>8
  <2>2. P \subseteq 1..Len(s1) /\ \A x \in P : F1[x] \in Int
    BY <1>3, <1>5, <1>7, <1>8
  <2> QED BY <1>6, <1>7, <1>9, <2>1, <2>2 DEF Held
<1>11. A \subseteq 1..Len(s1)
  BY <1>3, <1>5
<1>12. cut <= lim1
  BY <1>1
<1>13. HoldsFrom(w, s1, F1, A, cut)
  BY <1>5, <1>10, <1>11 DEF HoldsFrom
<1> QED BY <1>12, <1>13 DEF HoldsSince

(* The value of the event read enters it last.                             *)
LEMMA HeldAdds ==
    ASSUME NEW s, NEW e, NEW s1, Grown(s, e, s1), e.t \in Nat, NEW w, NEW F, NEW A, NEW lim \in Int,
           HoldsSince(w, s, F, A, lim), NEW F1, \A i \in A : F1[i] = F[i],
           NEW lim1 \in Int, lim <= lim1, lim1 < e.t,
           NEW v \in Int, F1[Len(s1)] = v, NEW w1, w1 = Samples!AddValue(w, e.t, v)
    PROVE  HoldsSince(w1, s1, F1, A \cup {Len(s1)}, lim1)
<1>1. HoldsSince(w, s1, F1, A, lim)
  <2>1. lim <= lim
    OBVIOUS
  <2> QED BY <2>1, HeldStays
<1>2. PICK cut \in Int : cut <= lim /\ HoldsFrom(w, s1, F1, A, cut)
  BY <1>1 DEF HoldsSince
<1>3. PICK at : Held(w, s1, F1, at, After(s1, A, cut))
  BY <1>2 DEF HoldsFrom
<1>31. PICK c0 \in Int : HoldsFrom(w, s, F, A, c0)
  BY DEF HoldsSince
<1>4. PICK n \in Nat : n = Len(s) /\ Len(s1) = n + 1 /\ s1[n + 1] = e
  BY DEF Grown
<1>5. A \subseteq 1..n
  BY <1>4, <1>31 DEF HoldsFrom
<1>6. PICK b \in Nat : b = Len(w.items) /\ w.items \in Seq(Stamp) /\ w.total \in Int
  BY <1>3, StampTypes DEF Held, IsWindow
<1>7. PICK P : P = After(s1, A, cut)
  OBVIOUS
<1>8. /\ IsWindow(w) /\ P \subseteq 1..n /\ \A x \in P : F1[x] \in Int
      /\ \A i \in 1..b : at[i] \in P /\ w.items[i].ts = s1[at[i]].t /\ w.items[i].v = F1[at[i]]
      /\ \A i, j \in 1..b : i < j => at[i] < at[j]
      /\ \A x \in P : \E i \in 1..b : at[i] = x
      /\ w.total = SumOver(F1, P)
  <2>1. P \subseteq 1..n
    BY <1>5, <1>7 DEF After
  <2> QED BY <1>3, <1>6, <1>7, <2>1 DEF Held
<1>9. PICK R : R = P \cup {n + 1}
  OBVIOUS
<1>10. After(s1, A \cup {n + 1}, cut) = R
  <2>1. s1[n + 1].t > cut
    <3>1. e.t > cut
      BY <1>2
    <3> QED BY <1>4, <3>1
  <2> QED BY <1>7, <1>9, <2>1 DEF After
<1>110. PICK x : x = [ts |-> e.t, v |-> v]
  OBVIOUS
<1>11. x = [ts |-> e.t, v |-> v] /\ x.ts = e.t /\ x.v = v
  BY <1>110
<1>12. /\ IsWindow(w1) /\ w1.items = Append(w.items, x) /\ w1.total = w.total + v
  BY <1>8, <1>11, WindowAdds
<1>13. /\ Len(w1.items) = b + 1 /\ w1.items[b + 1] = x /\ \A i \in 1..b : w1.items[i] = w.items[i]
  <2>1. PICK q : q = w.items /\ q \in Seq(Stamp) /\ Len(q) = b
    BY <1>6
  <2>2. x \in Stamp
    BY <1>11 DEF Stamp
  <2>3. Len(Append(q, x)) = b + 1 /\ Append(q, x)[b + 1] = x /\ \A i \in 1..b : Append(q, x)[i] = q[i]
    BY <2>1, <2>2, AppendProperties
  <2> QED BY <1>12, <2>1, <2>3
<1>14. PICK at1 : at1 = [i \in 1..(b + 1) |-> IF i = b + 1 THEN n + 1 ELSE at[i]]
  OBVIOUS
<1>15. at1[b + 1] = n + 1 /\ \A i \in 1..b : at1[i] = at[i] /\ i # b + 1
  BY <1>14
<1>16. \A i \in 1..(b + 1) : i = b + 1 \/ i \in 1..b
  OBVIOUS
<1>17. R \subseteq 1..Len(s1) /\ \A y \in R : F1[y] \in Int
  <2>0. F1[n + 1] = v
    BY <1>4
  <2>2. \A y \in 1..n : y \in 1..(n + 1)
    OBVIOUS
  <2>1. P \cup {n + 1} \subseteq 1..(n + 1) /\ F1[n + 1] \in Int
    BY <1>8, <2>0, <2>2
  <2> QED BY <1>4, <1>8, <1>9, <2>1
<1>18. \A i \in 1..(b + 1) : at1[i] \in R /\ w1.items[i].ts = s1[at1[i]].t /\ w1.items[i].v = F1[at1[i]]
  <2>1. at1[b + 1] \in R /\ w1.items[b + 1].ts = s1[at1[b + 1]].t /\ w1.items[b + 1].v = F1[at1[b + 1]]
    BY <1>4, <1>9, <1>11, <1>13, <1>15
  <2>2. \A i \in 1..b : at1[i] \in R /\ w1.items[i].ts = s1[at1[i]].t /\ w1.items[i].v = F1[at1[i]]
    BY <1>8, <1>9, <1>13, <1>15
  <2> QED BY <1>16, <2>1, <2>2
<1>19. \A i, j \in 1..(b + 1) : i < j => at1[i] < at1[j]
  <2> SUFFICES ASSUME NEW i \in 1..(b + 1), NEW j \in 1..(b + 1), i < j PROVE at1[i] < at1[j]
    OBVIOUS
  <2>1. i \in 1..b
    BY <1>16
  <2>2. at[i] \in 1..n /\ at1[i] = at[i]
    BY <1>8, <1>15, <2>1
  <2>3. CASE j = b + 1
    BY <1>15, <2>2, <2>3
  <2>4. CASE j \in 1..b
    BY <1>8, <1>15, <2>1, <2>2, <2>4
  <2> QED BY <1>16, <2>3, <2>4
<1>20. \A y \in R : \E i \in 1..(b + 1) : at1[i] = y
  <2>1. \A y \in P : \E i \in 1..(b + 1) : at1[i] = y
    <3>1. \A i \in 1..b : i \in 1..(b + 1)
      OBVIOUS
    <3> QED BY <1>8, <1>15, <3>1
  <2>2. b + 1 \in 1..(b + 1)
    OBVIOUS
  <2> QED BY <1>9, <1>15, <2>1, <2>2
<1>21. w1.total = SumOver(F1, R)
  <2>1. IsFiniteSet(P) /\ IsFiniteSet(R)
    <3>1. 1 \in Int /\ n \in Int
      OBVIOUS
    <3>2. IsFiniteSet(P)
      BY <1>8, <3>1, FS_Interval, FS_Subset
    <3> QED BY <1>9, <3>2, FS_AddElement
  <2>2. n + 1 \in R /\ R \ {n + 1} = P
    <3>1. n + 1 \notin P
      BY <1>8
    <3> QED BY <1>9, <3>1
  <2>3. SumOver(F1, R) = F1[n + 1] + SumOver(F1, R \ {n + 1})
    <3>1. PICK z : z = n + 1
      OBVIOUS
    <3>2. \A y \in R : F1[y] \in Int
      BY <1>17
    <3>3. z \in R /\ IsFiniteSet(R)
      BY <2>1, <2>2, <3>1
    <3>4. SumOver(F1, R) = F1[z] + SumOver(F1, R \ {z})
      BY ONLY <3>2, <3>3, SumRemove
    <3> QED BY <3>1, <3>4
  <2>4. F1[n + 1] = v /\ w.total = SumOver(F1, P) /\ w.total \in Int
    BY <1>4, <1>6, <1>8
  <2>6. PICK tot \in Int : tot = w.total
    BY <2>4
  <2>7. SumOver(F1, R \ {n + 1}) = tot
    BY <2>2, <2>4, <2>6
  <2>5. SumOver(F1, R) = v + w.total /\ w.total + v = v + w.total
    <3>1. SumOver(F1, R) = v + tot /\ tot + v = v + tot
      BY <2>3, <2>4, <2>7
    <3> QED BY <2>6, <3>1
  <2> QED BY <1>12, <2>5
<1>22. Held(w1, s1, F1, at1, R)
  BY <1>12, <1>13, <1>17, <1>18, <1>19, <1>20, <1>21 DEF Held
<1>23. HoldsFrom(w1, s1, F1, A \cup {n + 1}, cut)
  <2>1. A \cup {n + 1} \subseteq 1..Len(s1)
    <3>1. A \cup {n + 1} \subseteq 1..(n + 1)
      BY <1>5
    <3> QED BY <1>4, <3>1
  <2> QED BY <1>10, <1>22, <2>1 DEF HoldsFrom
<1>24. cut <= lim1
  BY <1>2
<1> QED BY <1>4, <1>23, <1>24 DEF HoldsSince

-----------------------------------------------------------------------------
(* What the stream s shows before its j-th event: the mids, the books, the *)
(* trades, the sign of a trade by itself and by those before it.           *)
MidsBefore(s, v, j) == {i \in 1..(j - 1) : ShowsMid(s[i], v)}
BooksBefore(s, j) == {i \in 1..(j - 1) : s[i].k = "book"}
TradesBefore(s, j) == {i \in 1..(j - 1) : s[i].k = "trade"}
LastPrice(s, j) == IF TradesBefore(s, j) = {} THEN 0 ELSE s[Samples!LastAt(TradesBefore(s, j))].price
OwnOf(s, v, j) ==
    CASE v.flagged /\ s[j].side = "buy"  -> 1
      [] v.flagged /\ s[j].side = "sell" -> -1
      [] OTHER -> IF TradesBefore(s, j) = {} \/ s[j].price = LastPrice(s, j) THEN 0
                  ELSE IF s[j].price > LastPrice(s, j) THEN 1 ELSE -1
TellsBefore(s, v, j) == {i \in TradesBefore(s, j) : OwnOf(s, v, i) # 0}
LastSign(s, v, j) == IF TellsBefore(s, v, j) = {} THEN 0 ELSE OwnOf(s, v, Samples!LastAt(TellsBefore(s, v, j)))
LastBook(s, j) == IF BooksBefore(s, j) = {} THEN None ELSE s[Samples!LastAt(BooksBefore(s, j))].b
LastMid(s, v, j) == IF MidsBefore(s, v, j) = {} THEN 0 ELSE Samples!Mid(s[Samples!LastAt(MidsBefore(s, v, j))].b)

(* Which events enter a column, and with what.                             *)
Column == {"ofi", "signed", "count", "ret", "r2"}
Enters(c, s, v, j) ==
    \/ /\ c = "ofi" /\ s[j].k = "book" /\ LastBook(s, j) # None
       /\ Samples!Quoted(LastBook(s, j)) /\ Samples!Quoted(s[j].b)
    \/ c \in {"signed", "count"} /\ s[j].k = "trade"
    \/ c \in {"ret", "r2"} /\ ShowsMid(s[j], v) /\ LastMid(s, v, j) # 0
Change(s, v, j) == Samples!Mid(s[j].b) - LastMid(s, v, j)
Worth(c, s, v, j) ==
    CASE c = "ofi" -> Samples!OfiBest(LastBook(s, j), s[j].b)
      [] c = "signed" -> LastSign(s, v, j + 1) * s[j].qty
      [] c = "count" -> 1
      [] c = "ret" -> Change(s, v, j)
      [] c = "r2" -> Change(s, v, j) * Change(s, v, j)
Worths(c, s, v) == [j \in 1..Len(s) |-> Worth(c, s, v, j)]
Entered(c, s, v) == {j \in 1..Len(s) : Enters(c, s, v, j)}

(* The last of some places is one of them.                                 *)
LEMMA LastIsOne ==
    ASSUME NEW n \in Nat, NEW J, J \subseteq 1..n, J # {}
    PROVE  Samples!LastAt(J) \in J /\ \A i \in J : i <= Samples!LastAt(J)
<1>1. J \in SUBSET Nat /\ IsFiniteSet(J)
  <2>1. 1 \in Int /\ n \in Int /\ 1..n \subseteq Nat
    OBVIOUS
  <2> QED BY <2>1, FS_Interval, FS_Subset
<1>2. PICK x \in J : \A y \in J : x >= y
  BY <1>1, GreatestExists
<1>3. \A y \in J : y <= x
  BY <1>1, <1>2
<1>4. Samples!LastAt(J) = x
  <2>1. J \subseteq Int
    BY <1>1
  <2> QED BY <1>3, <2>1, EndsOfPlaces
<1> QED BY <1>3, <1>4

(* The stream s up to its j-th event is that of s1.                        *)
SamePast(s, s1, v, j) ==
    /\ MidsBefore(s1, v, j) = MidsBefore(s, v, j) /\ BooksBefore(s1, j) = BooksBefore(s, j)
    /\ TradesBefore(s1, j) = TradesBefore(s, j)
    /\ LastPrice(s1, j) = LastPrice(s, j) /\ LastBook(s1, j) = LastBook(s, j)
    /\ LastMid(s1, v, j) = LastMid(s, v, j)

(* What comes later leaves what was shown.                                 *)
LEMMA PastStays ==
    ASSUME NEW s, NEW e, NEW s1, Grown(s, e, s1), NEW v, NEW j \in 1..Len(s1)
    PROVE  SamePast(s, s1, v, j)
<1>1. PICK n \in Nat : n = Len(s) /\ Len(s1) = n + 1 /\ \A i \in 1..n : s1[i] = s[i]
  BY DEF Grown
<1>2. PICK m \in Nat : m = j - 1 /\ \A i \in 1..m : s1[i] = s[i]
  <2>1. j \in Nat \ {0} /\ j <= n + 1
    BY <1>1
  <2>2. j - 1 \in Nat /\ \A i \in 1..(j - 1) : i \in 1..n
    BY <2>1
  <2> QED BY <1>1, <2>2
<1>3. PICK M, B, T : M = MidsBefore(s, v, j) /\ B = BooksBefore(s, j) /\ T = TradesBefore(s, j)
  OBVIOUS
<1>4. M \subseteq 1..m /\ B \subseteq 1..m /\ T \subseteq 1..m
  BY <1>2, <1>3 DEF MidsBefore, BooksBefore, TradesBefore
<1>5. MidsBefore(s1, v, j) = M /\ BooksBefore(s1, j) = B /\ TradesBefore(s1, j) = T
  <2>1. MidsBefore(s1, v, j) = M
    BY <1>2, <1>3 DEF MidsBefore
  <2>2. BooksBefore(s1, j) = B
    BY <1>2, <1>3 DEF BooksBefore
  <2>3. TradesBefore(s1, j) = T
    BY <1>2, <1>3 DEF TradesBefore
  <2> QED BY <2>1, <2>2, <2>3
<1>6. \A J : J \subseteq 1..m /\ J # {} => s1[Samples!LastAt(J)] = s[Samples!LastAt(J)]
  <2> SUFFICES ASSUME NEW J, J \subseteq 1..m, J # {} PROVE s1[Samples!LastAt(J)] = s[Samples!LastAt(J)]
    OBVIOUS
  <2>1. Samples!LastAt(J) \in J
    BY LastIsOne
  <2> QED BY <1>2, <2>1
<1>7. LastPrice(s1, j) = LastPrice(s, j)
  BY <1>3, <1>4, <1>5, <1>6 DEF LastPrice
<1>8. LastBook(s1, j) = LastBook(s, j)
  BY <1>3, <1>4, <1>5, <1>6 DEF LastBook
<1>9. LastMid(s1, v, j) = LastMid(s, v, j)
  BY <1>3, <1>4, <1>5, <1>6 DEF LastMid
<1> QED BY <1>3, <1>5, <1>7, <1>8, <1>9 DEF SamePast

(* The same of signs, and of what enters each column.                      *)
LEMMA SignsStay ==
    ASSUME NEW s, NEW e, NEW s1, Grown(s, e, s1), NEW v, NEW j \in 1..Len(s1)
    PROVE  TellsBefore(s1, v, j) = TellsBefore(s, v, j) /\ LastSign(s1, v, j) = LastSign(s, v, j)
<1>1. PICK n \in Nat : n = Len(s) /\ Len(s1) = n + 1 /\ \A i \in 1..n : s1[i] = s[i]
  BY DEF Grown
<1>2. PICK m \in Nat : m = j - 1 /\ 1..m \subseteq 1..n /\ 1..m \subseteq 1..Len(s1)
  <2>1. j \in Nat \ {0} /\ j <= n + 1
    BY <1>1
  <2>2. j - 1 \in Nat /\ 1..(j - 1) \subseteq 1..n /\ 1..(j - 1) \subseteq 1..(n + 1)
    BY <2>1
  <2> QED BY <1>1, <2>2
<1>3. \A i \in 1..m : OwnOf(s1, v, i) = OwnOf(s, v, i)
  <2> SUFFICES ASSUME NEW i \in 1..m PROVE OwnOf(s1, v, i) = OwnOf(s, v, i)
    OBVIOUS
  <2>1. SamePast(s, s1, v, i)
    BY <1>2, PastStays
  <2>2. s1[i] = s[i]
    BY <1>1, <1>2
  <2>3. TradesBefore(s1, i) = TradesBefore(s, i) /\ LastPrice(s1, i) = LastPrice(s, i)
    BY <2>1 DEF SamePast
  <2> QED BY ONLY <2>2, <2>3 DEF OwnOf
<1>4. TradesBefore(s1, j) = TradesBefore(s, j) /\ TradesBefore(s, j) \subseteq 1..m
  <2>1. SamePast(s, s1, v, j)
    BY PastStays
  <2>2. TradesBefore(s, j) \subseteq 1..m
    BY <1>2 DEF TradesBefore
  <2> QED BY <2>1, <2>2 DEF SamePast
<1>5. PICK J : J = TellsBefore(s, v, j)
  OBVIOUS
<1>6. TellsBefore(s1, v, j) = J /\ J \subseteq 1..m
  BY <1>3, <1>4, <1>5 DEF TellsBefore
<1>7. J # {} => OwnOf(s1, v, Samples!LastAt(J)) = OwnOf(s, v, Samples!LastAt(J))
  <2> SUFFICES ASSUME J # {} PROVE OwnOf(s1, v, Samples!LastAt(J)) = OwnOf(s, v, Samples!LastAt(J))
    OBVIOUS
  <2>1. Samples!LastAt(J) \in J
    BY <1>6, LastIsOne
  <2> QED BY <1>3, <1>6, <2>1
<1> QED BY <1>5, <1>6, <1>7 DEF LastSign

(* An event that entered a column stays in it, for what it was.            *)
LEMMA ColumnStays ==
    ASSUME NEW s, NEW e, NEW s1, Grown(s, e, s1), NEW v, NEW c \in Column, NEW j \in 1..Len(s)
    PROVE  (Enters(c, s1, v, j) <=> Enters(c, s, v, j)) /\ Worth(c, s1, v, j) = Worth(c, s, v, j)
<1>1. PICK n \in Nat : n = Len(s) /\ Len(s1) = n + 1 /\ \A i \in 1..n : s1[i] = s[i]
  BY DEF Grown
<1>2. j \in 1..Len(s1) /\ j + 1 \in 1..Len(s1) /\ s1[j] = s[j]
  <2>1. j \in 1..n /\ j \in 1..(n + 1) /\ j + 1 \in 1..(n + 1)
    BY <1>1
  <2> QED BY <1>1, <2>1
<1>3. LastBook(s1, j) = LastBook(s, j) /\ LastMid(s1, v, j) = LastMid(s, v, j)
  <2>1. SamePast(s, s1, v, j)
    BY <1>2, PastStays
  <2> QED BY <2>1 DEF SamePast
<1>4. LastSign(s1, v, j + 1) = LastSign(s, v, j + 1)
  BY <1>2, SignsStay
<1>5. Enters(c, s1, v, j) <=> Enters(c, s, v, j)
  BY <1>2, <1>3 DEF Enters
<1>6. Change(s1, v, j) = Change(s, v, j)
  BY <1>2, <1>3 DEF Change
<1>7. Worth(c, s1, v, j) = Worth(c, s, v, j)
  BY <1>2, <1>3, <1>4, <1>6 DEF Worth
<1> QED BY <1>5, <1>7

(* A stream of what is read.                                               *)
Typed(s) == Len(s) \in Nat /\ \A i \in 1..Len(s) : Samples!IsEvent(s[i])
(* What an engine remembers is what the stream showed last.                *)
Remembers(g, s, v) ==
    /\ g.prev = LastBook(s, Len(s) + 1) /\ g.mid = LastMid(s, v, Len(s) + 1)
    /\ g.price = LastPrice(s, Len(s) + 1) /\ g.sign = LastSign(s, v, Len(s) + 1)

(* The last of the places with one after all of them is that one.          *)
LEMMA LastIsNew ==
    ASSUME NEW n \in Nat, NEW J, J \subseteq 1..n
    PROVE  Samples!LastAt(J \cup {n + 1}) = n + 1
<1>1. J \cup {n + 1} \subseteq Int
  OBVIOUS
<1>2. n + 1 \in J \cup {n + 1} /\ \A i \in J \cup {n + 1} : i <= n + 1
  OBVIOUS
<1>3. PICK K, a : K = J \cup {n + 1} /\ a = n + 1
  OBVIOUS
<1> QED BY <1>1, <1>2, <1>3, EndsOfPlaces

(* What the stream shows once the event e is read.                         *)
NowShows(s, s1, e, v) ==
    /\ LastBook(s1, Len(s1) + 1) = IF e.k = "book" THEN e.b ELSE LastBook(s, Len(s) + 1)
    /\ LastMid(s1, v, Len(s1) + 1) = IF ShowsMid(e, v) THEN Samples!Mid(e.b) ELSE LastMid(s, v, Len(s) + 1)
    /\ LastPrice(s1, Len(s1) + 1) = IF e.k = "trade" THEN e.price ELSE LastPrice(s, Len(s) + 1)
    /\ LastSign(s1, v, Len(s1) + 1) = IF e.k = "trade" /\ OwnOf(s1, v, Len(s1)) # 0 THEN OwnOf(s1, v, Len(s1))
                                      ELSE LastSign(s, v, Len(s) + 1)

(* What is shown is what the event shows, or what was shown.               *)
LEMMA EventShows ==
    ASSUME NEW s, NEW e, NEW s1, Grown(s, e, s1), NEW v
    PROVE  NowShows(s, s1, e, v)
<1>1. PICK n \in Nat : n = Len(s) /\ Len(s1) = n + 1 /\ s1[n + 1] = e /\ \A i \in 1..n : s1[i] = s[i]
  BY DEF Grown
<1>2. PICK N \in Nat : N = n + 1 /\ N = Len(s1) /\ s1[N] = e /\ N + 1 - 1 = N /\ N - 1 = n
  BY <1>1
<1>3. 1..N = (1..n) \cup {N} /\ N \in 1..Len(s1)
  BY <1>2
<1>4. SamePast(s, s1, v, N) /\ TellsBefore(s1, v, N) = TellsBefore(s, v, N) /\ LastSign(s1, v, N) = LastSign(s, v, N)
  BY <1>2, <1>3, PastStays, SignsStay
<1>5. /\ MidsBefore(s1, v, N) = MidsBefore(s, v, N) /\ BooksBefore(s1, N) = BooksBefore(s, N)
      /\ TradesBefore(s1, N) = TradesBefore(s, N)
      /\ LastPrice(s1, N) = LastPrice(s, N) /\ LastBook(s1, N) = LastBook(s, N) /\ LastMid(s1, v, N) = LastMid(s, v, N)
  BY <1>4 DEF SamePast
<1>6. /\ MidsBefore(s1, v, N + 1) = IF ShowsMid(e, v) THEN MidsBefore(s1, v, N) \cup {N} ELSE MidsBefore(s1, v, N)
      /\ MidsBefore(s1, v, N) \subseteq 1..n
  BY <1>2, <1>3 DEF MidsBefore
<1>7. /\ BooksBefore(s1, N + 1) = IF e.k = "book" THEN BooksBefore(s1, N) \cup {N} ELSE BooksBefore(s1, N)
      /\ BooksBefore(s1, N) \subseteq 1..n
  BY <1>2, <1>3 DEF BooksBefore
<1>8. /\ TradesBefore(s1, N + 1) = IF e.k = "trade" THEN TradesBefore(s1, N) \cup {N} ELSE TradesBefore(s1, N)
      /\ TradesBefore(s1, N) \subseteq 1..n
  BY <1>2, <1>3 DEF TradesBefore
<1>9. /\ TellsBefore(s1, v, N + 1) = IF e.k = "trade" /\ OwnOf(s1, v, N) # 0 THEN TellsBefore(s1, v, N) \cup {N}
                                     ELSE TellsBefore(s1, v, N)
      /\ TellsBefore(s1, v, N) \subseteq 1..n
  BY <1>8 DEF TellsBefore
<1>10. \A J : J \subseteq 1..n => Samples!LastAt(J \cup {N}) = N /\ J \cup {N} # {}
  BY <1>2, LastIsNew
<1>11. LastBook(s1, N + 1) = IF e.k = "book" THEN e.b ELSE LastBook(s1, N)
  BY <1>2, <1>7, <1>10 DEF LastBook
<1>12. LastMid(s1, v, N + 1) = IF ShowsMid(e, v) THEN Samples!Mid(e.b) ELSE LastMid(s1, v, N)
  BY <1>2, <1>6, <1>10 DEF LastMid
<1>13. LastPrice(s1, N + 1) = IF e.k = "trade" THEN e.price ELSE LastPrice(s1, N)
  BY <1>2, <1>8, <1>10 DEF LastPrice
<1>14. LastSign(s1, v, N + 1) = IF e.k = "trade" /\ OwnOf(s1, v, N) # 0 THEN OwnOf(s1, v, N) ELSE LastSign(s1, v, N)
  BY <1>9, <1>10 DEF LastSign
<1>15. Len(s) + 1 = N /\ Len(s1) + 1 = N + 1 /\ Len(s1) = N
  BY <1>1, <1>2
<1> QED BY <1>4, <1>5, <1>11, <1>12, <1>13, <1>14, <1>15 DEF NowShows

(* The prices and books shown are some event's, and there are none before  *)
(* the first.                                                              *)
LEMMA ShownTypes ==
    ASSUME PartsAssumption, NEW s, Typed(s), NEW v
    PROVE  /\ LastBook(s, Len(s) + 1) \in Samples!BookState \cup {None}
           /\ LastMid(s, v, Len(s) + 1) \in Nat
           /\ LastPrice(s, Len(s) + 1) \in Nat
           /\ LastPrice(s, Len(s) + 1) = 0 <=> TradesBefore(s, Len(s) + 1) = {}
<1>1. PICK n \in Nat : n = Len(s) /\ \A i \in 1..n : Samples!IsEvent(s[i])
  BY DEF Typed
<1>2. n + 1 - 1 = n
  OBVIOUS
<1>3. PICK B, M, T : B = BooksBefore(s, n + 1) /\ M = MidsBefore(s, v, n + 1) /\ T = TradesBefore(s, n + 1)
  OBVIOUS
<1>4. /\ B \subseteq 1..n /\ \A i \in B : s[i].k = "book"
      /\ M \subseteq 1..n /\ \A i \in M : s[i].k # "trade"
      /\ T \subseteq 1..n /\ \A i \in T : s[i].k = "trade"
  BY <1>2, <1>3 DEF BooksBefore, MidsBefore, TradesBefore, ShowsMid
<1>5. LastBook(s, n + 1) \in Samples!BookState \cup {None}
  <2>1. CASE B = {}
    BY <1>3, <2>1 DEF LastBook
  <2>2. CASE B # {}
    <3>1. Samples!LastAt(B) \in B
      BY <1>4, <2>2, LastIsOne
    <3>2. PICK x : x = s[Samples!LastAt(B)]
      OBVIOUS
    <3>3. Samples!IsEvent(x) /\ x.k = "book"
      BY <1>1, <1>4, <3>1, <3>2
    <3>4. x.b \in Samples!BookState
      BY <3>3, EventTypes
    <3> QED BY <1>3, <2>2, <3>2, <3>4 DEF LastBook
  <2> QED BY <2>1, <2>2
<1>6. LastMid(s, v, n + 1) \in Nat
  <2>1. CASE M = {}
    BY <1>3, <2>1 DEF LastMid
  <2>2. CASE M # {}
    <3>1. Samples!LastAt(M) \in M
      BY <1>4, <2>2, LastIsOne
    <3>2. PICK x : x = s[Samples!LastAt(M)]
      OBVIOUS
    <3>3. Samples!IsEvent(x) /\ x.k # "trade"
      BY <1>1, <1>4, <3>1, <3>2
    <3>4. Samples!Mid(x.b) \in Nat
      BY <3>3, EventTypes, BookTypes
    <3> QED BY <1>3, <2>2, <3>2, <3>4 DEF LastMid
  <2> QED BY <2>1, <2>2
<1>7. LastPrice(s, n + 1) \in Nat /\ (LastPrice(s, n + 1) = 0 <=> T = {})
  <2>1. CASE T = {}
    BY <1>3, <2>1 DEF LastPrice
  <2>2. CASE T # {}
    <3>1. Samples!LastAt(T) \in T
      BY <1>4, <2>2, LastIsOne
    <3>2. PICK x : x = s[Samples!LastAt(T)]
      OBVIOUS
    <3>3. Samples!IsEvent(x) /\ x.k = "trade"
      BY <1>1, <1>4, <3>1, <3>2
    <3>4. x.price \in Nat /\ x.price > 0
      BY <3>3, EventTypes
    <3>5. LastPrice(s, n + 1) = x.price
      BY <1>3, <2>2, <3>2 DEF LastPrice
    <3> QED BY <2>2, <3>4, <3>5
  <2> QED BY <2>1, <2>2
<1> QED BY <1>1, <1>3, <1>5, <1>6, <1>7

(* The sign given to a trade is the one its history gives it.              *)
LEMMA SignIsTold ==
    ASSUME PartsAssumption, NEW g, NEW s, Typed(s), NEW v, Remembers(g, s, v), NEW e, Samples!IsEvent(e),
           e.k = "trade", NEW s1, Grown(s, e, s1)
    PROVE  /\ SignOfTrade(g, e, v) = LastSign(s1, v, Len(s1) + 1)
           /\ SignOfTrade(g, e, v) = 0 => g.sign = 0
<1>1. PICK N \in Nat : N = Len(s) + 1 /\ Len(s1) = N /\ s1[N] = e /\ N \in 1..Len(s1)
  <2>1. PICK n \in Nat : n = Len(s) /\ Len(s1) = n + 1 /\ s1[n + 1] = e
    BY DEF Grown
  <2>2. n + 1 \in Nat /\ n + 1 \in 1..(n + 1)
    OBVIOUS
  <2> QED BY <2>1, <2>2
<1>2. PICK was \in Nat : was = LastPrice(s, N) /\ was = g.price /\ (was = 0 <=> TradesBefore(s, N) = {})
  BY <1>1, ShownTypes DEF Remembers
<1>3. TradesBefore(s1, N) = TradesBefore(s, N) /\ LastPrice(s1, N) = was
  <2>1. SamePast(s, s1, v, N)
    BY <1>1, PastStays
  <2> QED BY <1>2, <2>1 DEF SamePast
<1>4. PICK own : own = OwnOf(s1, v, N)
  OBVIOUS
<1>5. own = (CASE v.flagged /\ e.side = "buy"  -> 1
               [] v.flagged /\ e.side = "sell" -> -1
               [] OTHER -> IF was = 0 \/ e.price = was THEN 0 ELSE IF e.price > was THEN 1 ELSE -1)
  BY <1>1, <1>2, <1>3, <1>4 DEF OwnOf
<1>6. LastSign(s1, v, N + 1) = IF own # 0 THEN own ELSE g.sign
  <2>1. NowShows(s, s1, e, v)
    BY EventShows
  <2>2. g.sign = LastSign(s, v, N)
    BY <1>1 DEF Remembers
  <2> QED BY <1>1, <1>4, <2>1, <2>2 DEF NowShows
<1>7. was = 0 => g.sign = 0
  <2> SUFFICES ASSUME was = 0 PROVE g.sign = 0
    OBVIOUS
  <2>1. TellsBefore(s, v, N) = {}
    BY <1>2 DEF TellsBefore
  <2> QED BY <1>1, <2>1 DEF Remembers, LastSign
<1>8. e.price \in Nat
  BY EventTypes
<1>9. SignOfTrade(g, e, v) =
        CASE v.flagged /\ e.side = "buy"  -> 1
          [] v.flagged /\ e.side = "sell" -> -1
          [] OTHER -> IF was = 0 THEN 0
                      ELSE IF e.price > was THEN 1
                      ELSE IF e.price < was THEN -1 ELSE g.sign
  BY <1>2 DEF SignOfTrade, Samples!Sign
<1>10. SignOfTrade(g, e, v) = (IF own # 0 THEN own ELSE g.sign) /\ (SignOfTrade(g, e, v) = 0 => g.sign = 0)
  <2>1. CASE v.flagged /\ e.side = "buy"
    BY <1>5, <1>9, <2>1
  <2>2. CASE v.flagged /\ e.side = "sell"
    BY <1>5, <1>9, <2>2
  <2>3. CASE ~(v.flagged /\ e.side = "buy") /\ ~(v.flagged /\ e.side = "sell")
    <3>1. own = (IF was = 0 \/ e.price = was THEN 0 ELSE IF e.price > was THEN 1 ELSE -1)
      BY <1>5, <2>3
    <3>2. SignOfTrade(g, e, v) = IF was = 0 THEN 0 ELSE IF e.price > was THEN 1
                                 ELSE IF e.price < was THEN -1 ELSE g.sign
      BY <1>9, <2>3
    <3> QED BY <1>7, <1>8, <3>1, <3>2
  <2> QED BY <2>1, <2>2, <2>3
<1> QED BY <1>1, <1>6, <1>10

(* The engine remembers the event as the stream shows it.                  *)
LEMMA EngineRemembers ==
    ASSUME PartsAssumption, NEW g, NEW s, Typed(s), NEW v, Remembers(g, s, v), NEW e, Samples!IsEvent(e),
           NEW s1, Grown(s, e, s1), NEW g1, EngineMove(g, e, v, g1)
    PROVE  Remembers(g1, s1, v)
<1>1. NowShows(s, s1, e, v)
  BY EventShows
<1>2. /\ g1.prev = LastBook(s1, Len(s1) + 1) /\ g1.mid = LastMid(s1, v, Len(s1) + 1)
      /\ g1.price = LastPrice(s1, Len(s1) + 1)
  BY <1>1 DEF NowShows, Remembers, EngineMove
<1>3. g1.sign = LastSign(s1, v, Len(s1) + 1)
  <2>1. CASE e.k = "trade"
    <3>1. SignOfTrade(g, e, v) = LastSign(s1, v, Len(s1) + 1) /\ (SignOfTrade(g, e, v) = 0 => g.sign = 0)
      BY <2>1, SignIsTold
    <3> QED BY <2>1, <3>1 DEF EngineMove
  <2>2. CASE e.k # "trade"
    BY <1>1, <2>2 DEF NowShows, Remembers, EngineMove
  <2> QED BY <2>1, <2>2
<1> QED BY <1>2, <1>3 DEF Remembers

(* Whether an event enters a column of the engine, and with what.          *)
Gives(g, e, v, c) ==
    \/ c = "ofi" /\ Flows(g, e)
    \/ c \in {"signed", "count"} /\ e.k = "trade"
    \/ c \in {"ret", "r2"} /\ ShowsMid(e, v) /\ g.mid # 0
Given(g, e, v, c) ==
    CASE c = "ofi" -> Samples!OfiBest(g.prev, e.b)
      [] c = "signed" -> SignOfTrade(g, e, v) * e.qty
      [] c = "count" -> 1
      [] c = "ret" -> Samples!Mid(e.b) - g.mid
      [] c = "r2" -> (Samples!Mid(e.b) - g.mid) * (Samples!Mid(e.b) - g.mid)

(* Every column gains what the event gives it.                             *)
LEMMA ColumnGains ==
    ASSUME NEW g, NEW e, NEW v, NEW g1, EngineMove(g, e, v, g1), NEW c \in Column
    PROVE  Gains(g.win, g1.win, c, e, Gives(g, e, v, c), Given(g, e, v, c))
<1>1. CASE c = "ofi"
  <2>1. (Gives(g, e, v, c) <=> Flows(g, e)) /\ Given(g, e, v, c) = Samples!OfiBest(g.prev, e.b)
    BY <1>1 DEF Gives, Given
  <2> QED BY <1>1, <2>1 DEF EngineMove, Gains
<1>2. CASE c = "signed"
  <2>1. (Gives(g, e, v, c) <=> e.k = "trade") /\ Given(g, e, v, c) = SignOfTrade(g, e, v) * e.qty
    BY <1>2 DEF Gives, Given
  <2> QED BY <1>2, <2>1 DEF EngineMove, Gains
<1>3. CASE c = "count"
  <2>1. (Gives(g, e, v, c) <=> e.k = "trade") /\ Given(g, e, v, c) = 1
    BY <1>3 DEF Gives, Given
  <2> QED BY <1>3, <2>1 DEF EngineMove, Gains
<1>4. CASE c = "ret"
  <2>1. (Gives(g, e, v, c) <=> ShowsMid(e, v) /\ g.mid # 0) /\ Given(g, e, v, c) = Samples!Mid(e.b) - g.mid
    BY <1>4 DEF Gives, Given
  <2> QED BY <1>4, <2>1 DEF EngineMove, Gains
<1>5. CASE c = "r2"
  <2>1. /\ Gives(g, e, v, c) <=> ShowsMid(e, v) /\ g.mid # 0
        /\ Given(g, e, v, c) = (Samples!Mid(e.b) - g.mid) * (Samples!Mid(e.b) - g.mid)
    BY <1>5 DEF Gives, Given
  <2> QED BY <1>5, <2>1 DEF EngineMove, Gains
<1> QED BY <1>1, <1>2, <1>3, <1>4, <1>5 DEF Column

(* What is given is a whole number.                                        *)
LEMMA GivenTypes ==
    ASSUME NEW g, EngineInv(g), NEW e, Samples!IsEvent(e), NEW v, NEW c \in Column, Gives(g, e, v, c)
    PROVE  Given(g, e, v, c) \in Int
<1>1. CASE c = "ofi"
  <2>1. e.k = "book" /\ g.prev # None
    BY <1>1 DEF Gives, Flows
  <2>2. e.b \in Samples!BookState /\ g.prev \in Samples!BookState
    BY <2>1, EventTypes DEF EngineInv
  <2>3. Samples!OfiBest(g.prev, e.b) \in Int
    BY <2>2, FlowTypes
  <2> QED BY <1>1, <2>3 DEF Given
<1>2. CASE c = "signed"
  BY <1>2, SignTypes DEF Given
<1>3. CASE c = "count"
  BY <1>3 DEF Given
<1>4. CASE c \in {"ret", "r2"}
  <2>1. e.k # "trade"
    BY <1>4 DEF Gives, ShowsMid
  <2>2. PICK a \in Nat, b \in Nat : a = Samples!Mid(e.b) /\ b = g.mid
    BY <2>1, EventTypes, BookTypes DEF EngineInv
  <2>3. PICK d \in Int : d = a - b
    OBVIOUS
  <2>4. d * d \in Int
    OBVIOUS
  <2> QED BY <1>4, <2>2, <2>3, <2>4 DEF Given
<1> QED BY <1>1, <1>2, <1>3, <1>4 DEF Column

(* An event enters the columns of its stream as it enters the engine's.    *)
LEMMA GivenIsWorth ==
    ASSUME PartsAssumption, NEW g, NEW s, Typed(s), NEW v, Remembers(g, s, v), NEW e, Samples!IsEvent(e),
           NEW s1, Grown(s, e, s1), NEW c \in Column
    PROVE  /\ Enters(c, s1, v, Len(s1)) <=> Gives(g, e, v, c)
           /\ Gives(g, e, v, c) => Worth(c, s1, v, Len(s1)) = Given(g, e, v, c)
<1>1. PICK N \in Nat : N = Len(s) + 1 /\ Len(s1) = N /\ s1[N] = e /\ N \in 1..Len(s1)
  <2>1. PICK n \in Nat : n = Len(s) /\ Len(s1) = n + 1 /\ s1[n + 1] = e
    BY DEF Grown
  <2>2. n + 1 \in Nat /\ n + 1 \in 1..(n + 1)
    OBVIOUS
  <2> QED BY <2>1, <2>2
<1>2. LastBook(s1, N) = g.prev /\ LastMid(s1, v, N) = g.mid
  <2>1. SamePast(s, s1, v, N)
    BY <1>1, PastStays
  <2> QED BY <1>1, <2>1 DEF SamePast, Remembers
<1>3. Enters(c, s1, v, N) <=> Gives(g, e, v, c)
  BY <1>1, <1>2 DEF Enters, Gives, Flows
<1>4. Change(s1, v, N) = Samples!Mid(e.b) - g.mid
  BY <1>1, <1>2 DEF Change
<1>5. ASSUME e.k = "trade" PROVE SignOfTrade(g, e, v) = LastSign(s1, v, N + 1)
  <2>1. SignOfTrade(g, e, v) = LastSign(s1, v, Len(s1) + 1) /\ (SignOfTrade(g, e, v) = 0 => g.sign = 0)
    BY <1>5, SignIsTold
  <2> QED BY <1>1, <2>1
<1>6. ASSUME Gives(g, e, v, c) PROVE Worth(c, s1, v, N) = Given(g, e, v, c)
  <2>1. CASE c = "ofi"
    BY <1>1, <1>2, <2>1 DEF Worth, Given
  <2>2. CASE c = "signed"
    <3>1. e.k = "trade"
      BY <1>6, <2>2 DEF Gives
    <3> QED BY <1>1, <1>5, <2>2, <3>1 DEF Worth, Given
  <2>3. CASE c = "count"
    BY <2>3 DEF Worth, Given
  <2>4. CASE c = "ret"
    BY <1>4, <2>4 DEF Worth, Given
  <2>5. CASE c = "r2"
    BY <1>4, <2>5 DEF Worth, Given
  <2> QED BY <2>1, <2>2, <2>3, <2>4, <2>5 DEF Column
<1> QED BY <1>1, <1>3, <1>6

(* An engine that knows its stream at time t: it remembers what was shown  *)
(* last, and every window holds what entered its column since.             *)
Holds(g, s, v, t, c, w) == HoldsSince(g.win[c][w], s, Worths(c, s, v), Entered(c, s, v), t - w)
Knows(g, s, v, t) == Remembers(g, s, v) /\ \A c \in Column, w \in Widths : Holds(g, s, v, t, c, w)
(* Just pruned at time t, its windows hold exactly that.                   *)
Exact(g, s, v, t) ==
    \A c \in Column, w \in Widths : HoldsFrom(g.win[c][w], s, Worths(c, s, v), Entered(c, s, v), t - w)

(* Columns are series, widths are whole.                                   *)
LEMMA ColumnTypes ==
    ASSUME PartsAssumption
    PROVE  Column \subseteq Samples!Series /\ Widths \subseteq Nat \ {0}
<1>1. Column \subseteq Samples!Series
  BY DEF Column, Samples!Series
<1>2. Widths \subseteq Nat \ {0}
  BY DEF PartsAssumption, Samples!EngineBounds
<1> QED BY <1>1, <1>2

(* Pruning makes it exact.                                                 *)
LEMMA PruningIsExact ==
    ASSUME PartsAssumption, NEW g, EngineInv(g), NEW s, TimedBy(s), NEW v, NEW t \in Int, Knows(g, s, v, t),
           NEW t1 \in Nat, t <= t1, NEW g1, g1 = Samples!PruneAll(g, t1)
    PROVE  Knows(g1, s, v, t1) /\ Exact(g1, s, v, t1)
<1>1. /\ g1.prev = g.prev /\ g1.mid = g.mid /\ g1.price = g.price /\ g1.sign = g.sign
      /\ \A c \in Samples!Series, w \in Widths :
           PrunedOf(g.win[c][w], g1.win[c][w], Samples!Stale(g.win[c][w], t1 - w))
  BY EnginePruned
<1>2. Remembers(g1, s, v)
  BY <1>1 DEF Knows, Remembers
<1>3. ASSUME NEW c \in Column, NEW w \in Widths
      PROVE  HoldsFrom(g1.win[c][w], s, Worths(c, s, v), Entered(c, s, v), t1 - w)
  <2>1. PICK x, x1, F, A : x = g.win[c][w] /\ x1 = g1.win[c][w] /\ F = Worths(c, s, v) /\ A = Entered(c, s, v)
    OBVIOUS
  <2>2. PICK lim \in Int, cut \in Int : lim = t - w /\ cut = t1 - w /\ lim <= cut
    <3>1. w \in Int
      BY ColumnTypes
    <3> QED BY <3>1
  <2>3. HoldsSince(x, s, F, A, lim)
    BY <2>1, <2>2 DEF Knows, Holds
  <2>4. PrunedOf(x, x1, Samples!Stale(x, cut))
    <3>1. c \in Samples!Series
      BY ColumnTypes
    <3> QED BY <1>1, <2>1, <2>2, <3>1
  <2>5. HoldsFrom(x1, s, F, A, cut)
    BY <2>2, <2>3, <2>4, HeldPrunes
  <2> QED BY <2>1, <2>2, <2>5
<1>4. Exact(g1, s, v, t1)
  BY <1>3 DEF Exact
<1>5. ASSUME NEW c \in Column, NEW w \in Widths PROVE Holds(g1, s, v, t1, c, w)
  <2>1. PICK cut \in Int : cut = t1 - w
    <3>1. w \in Int
      BY ColumnTypes
    <3> QED BY <3>1
  <2>2. cut <= cut
    OBVIOUS
  <2> QED BY <1>3, <2>1, <2>2 DEF Holds, HoldsSince
<1> QED BY <1>2, <1>4, <1>5 DEF Knows

(* What entered a column once the event is read.                           *)
LEMMA EntersNow ==
    ASSUME NEW s, NEW e, NEW s1, Grown(s, e, s1), NEW v, NEW c \in Column
    PROVE  /\ Entered(c, s1, v) = IF Enters(c, s1, v, Len(s1)) THEN Entered(c, s, v) \cup {Len(s1)} ELSE Entered(c, s, v)
           /\ Entered(c, s, v) \subseteq 1..Len(s)
           /\ \A i \in 1..Len(s) : Worths(c, s1, v)[i] = Worths(c, s, v)[i]
           /\ Worths(c, s1, v)[Len(s1)] = Worth(c, s1, v, Len(s1))
<1>1. PICK n \in Nat : n = Len(s) /\ Len(s1) = n + 1
  BY DEF Grown
<1>2. 1..(n + 1) = (1..n) \cup {n + 1} /\ n + 1 \in 1..(n + 1) /\ \A i \in 1..n : i \in 1..(n + 1)
  OBVIOUS
<1>3. \A i \in 1..n : (Enters(c, s1, v, i) <=> Enters(c, s, v, i)) /\ Worth(c, s1, v, i) = Worth(c, s, v, i)
  BY <1>1, ColumnStays
<1>4. Entered(c, s, v) = {i \in 1..n : Enters(c, s, v, i)} /\ Entered(c, s1, v) = {i \in 1..(n + 1) : Enters(c, s1, v, i)}
  BY <1>1 DEF Entered
<1>5. Worths(c, s, v) = [i \in 1..n |-> Worth(c, s, v, i)] /\ Worths(c, s1, v) = [i \in 1..(n + 1) |-> Worth(c, s1, v, i)]
  BY <1>1 DEF Worths
<1>6. Entered(c, s1, v) = IF Enters(c, s1, v, n + 1) THEN Entered(c, s, v) \cup {n + 1} ELSE Entered(c, s, v)
  BY <1>2, <1>3, <1>4
<1>7. /\ \A i \in 1..n : Worths(c, s1, v)[i] = Worths(c, s, v)[i]
      /\ Worths(c, s1, v)[n + 1] = Worth(c, s1, v, n + 1)
  BY <1>2, <1>3, <1>5
<1> QED BY <1>1, <1>4, <1>6, <1>7

(* Told of the event, it knows the stream with it.                         *)
LEMMA EventIsKnown ==
    ASSUME PartsAssumption, NEW g, EngineInv(g), NEW s, Typed(s), NEW v, NEW t \in Int, Knows(g, s, v, t),
           NEW e, Samples!IsEvent(e), t <= e.t, NEW s1, Grown(s, e, s1), NEW g1, EngineMove(g, e, v, g1)
    PROVE  Knows(g1, s1, v, e.t)
<1>1. Remembers(g, s, v) /\ e.t \in Nat
  BY EventTypes DEF Knows
<1>2. Remembers(g1, s1, v)
  BY <1>1, EngineRemembers
<1>3. ASSUME NEW c \in Column, NEW w \in Widths PROVE Holds(g1, s1, v, e.t, c, w)
  <2>1. PICK x, x1, F, A, F1, A1, y :
           /\ x = g.win[c][w] /\ x1 = g1.win[c][w] /\ F = Worths(c, s, v) /\ A = Entered(c, s, v)
           /\ F1 = Worths(c, s1, v) /\ A1 = Entered(c, s1, v) /\ y = Given(g, e, v, c)
    OBVIOUS
  <2>2. PICK lim \in Int, lim1 \in Int : lim = t - w /\ lim1 = e.t - w /\ lim <= lim1 /\ lim1 < e.t
    <3>1. w \in Int /\ w > 0
      BY ColumnTypes
    <3> QED BY <1>1, <3>1
  <2>3. HoldsSince(x, s, F, A, lim)
    BY <2>1, <2>2 DEF Knows, Holds
  <2>4. /\ A1 = IF Enters(c, s1, v, Len(s1)) THEN A \cup {Len(s1)} ELSE A
        /\ A \subseteq 1..Len(s)
        /\ \A i \in 1..Len(s) : F1[i] = F[i]
        /\ F1[Len(s1)] = Worth(c, s1, v, Len(s1))
    BY <2>1, EntersNow
  <2>5. /\ Enters(c, s1, v, Len(s1)) <=> Gives(g, e, v, c)
        /\ Gives(g, e, v, c) => Worth(c, s1, v, Len(s1)) = y
    BY <1>1, <2>1, GivenIsWorth
  <2>6. x1 = IF Gives(g, e, v, c) THEN Samples!AddValue(x, e.t, y) ELSE x
    <3>1. Gains(g.win, g1.win, c, e, Gives(g, e, v, c), Given(g, e, v, c))
      BY ColumnGains
    <3> QED BY <2>1, <3>1 DEF Gains
  <2>7. \A i \in A : F1[i] = F[i]
    BY <2>4
  <2>8. HoldsSince(x1, s1, F1, A1, lim1)
    <3>1. CASE Gives(g, e, v, c)
      <4>1. y \in Int
        BY <2>1, <3>1, GivenTypes
      <4>2. F1[Len(s1)] = y /\ x1 = Samples!AddValue(x, e.t, y) /\ A1 = A \cup {Len(s1)}
        BY <2>4, <2>5, <2>6, <3>1
      <4>3. HoldsSince(x1, s1, F1, A \cup {Len(s1)}, lim1)
        BY <1>1, <2>2, <2>3, <2>7, <4>1, <4>2, HeldAdds
      <4> QED BY <4>2, <4>3
    <3>2. CASE ~Gives(g, e, v, c)
      <4>1. x1 = x /\ A1 = A
        BY <2>4, <2>5, <2>6, <3>2
      <4>2. HoldsSince(x, s1, F1, A, lim1)
        BY <2>2, <2>3, <2>7, HeldStays
      <4> QED BY <4>1, <4>2
    <3> QED BY <3>1, <3>2
  <2> QED BY <2>1, <2>2, <2>8 DEF Holds
<1> QED BY <1>2, <1>3 DEF Knows

(* Before the first event there is nothing to know.                        *)
LEMMA NothingIsKnown ==
    ASSUME PartsAssumption, NEW v, NEW g, g = Samples!NewEngine
    PROVE  Knows(g, <<>>, v, 0)
<1>1. PICK s : s = <<>> /\ Len(s) = 0
  OBVIOUS
<1>2. 1..(0 + 1 - 1) = {} /\ 1..0 = {}
  OBVIOUS
<1>3. BooksBefore(s, 0 + 1) = {} /\ MidsBefore(s, v, 0 + 1) = {} /\ TradesBefore(s, 0 + 1) = {} /\ TellsBefore(s, v, 0 + 1) = {}
  BY <1>2 DEF BooksBefore, MidsBefore, TradesBefore, TellsBefore
<1>4. Remembers(g, s, v)
  <2>1. g.prev = None /\ g.mid = 0 /\ g.price = 0 /\ g.sign = 0
    BY DEF Samples!NewEngine
  <2> QED BY <1>1, <1>3, <2>1 DEF Remembers, LastBook, LastMid, LastPrice, LastSign
<1>5. ASSUME NEW c \in Column, NEW w \in Widths PROVE Holds(g, s, v, 0, c, w)
  <2>1. PICK x : x = g.win[c][w]
    OBVIOUS
  <2>2. c \in Samples!Series /\ w \in Nat
    BY ColumnTypes
  <2>3. x = [items |-> <<>>, total |-> 0]
    BY <2>1, <2>2 DEF Samples!NewEngine, Samples!EmptyWindow
  <2>4. PICK F, A, cut : F = Worths(c, s, v) /\ A = Entered(c, s, v) /\ cut = 0 - w
    OBVIOUS
  <2>5. A = {} /\ cut \in Int /\ cut <= cut
    BY <1>1, <1>2, <2>2, <2>4 DEF Entered
  <2>6. After(s, A, cut) = {}
    BY <2>5 DEF After
  <2>7. IsWindow(x) /\ Len(x.items) = 0 /\ x.total = 0
    BY <2>3 DEF IsWindow
  <2>8. SumOver(F, {}) = 0
    BY SumOfNothing
  <2>9. PICK at : at = 0
    OBVIOUS
  <2>10. Held(x, s, F, at, {})
    BY <1>2, <2>7, <2>8 DEF Held
  <2>11. HoldsFrom(x, s, F, A, cut)
    BY <2>5, <2>6, <2>10 DEF HoldsFrom
  <2>12. HoldsSince(x, s, F, A, cut)
    BY <2>5, <2>11 DEF HoldsSince
  <2> QED BY <2>1, <2>4, <2>12 DEF Holds
<1> QED BY <1>1, <1>4, <1>5 DEF Knows

(* The rolling columns of a row add up what entered each before it, within *)
(* the window that ends at its time.                                       *)
Span(c, s, v, k, cut) == {j \in Entered(c, s, v) : j < k /\ s[j].t > cut}
TotalOf(c, s, v, r, w) == SumOver(Worths(c, s, v), Span(c, s, v, r.at, r.ts - w))
ColumnsTell(ft, r, s, v) ==
    /\ \A c \in Column \ {"ofi"}, w \in Widths : ft[c][w] = TotalOf(c, s, v, r, w)
    /\ v.depth => \A w \in Widths : ft.ofi[w] = TotalOf("ofi", s, v, r, w)
    /\ ~v.depth => ft.ofi = None /\ ft.deep = None
RowTells(r, s, v) == r.at \in Nat /\ r.at <= Len(s) /\ (r.at = Len(s) => ColumnsTell(r.feats, r, s, v))

(* A total that is exact before an event is the row's that samples it.     *)
LEMMA TotalIsExact ==
    ASSUME NEW s, NEW e, NEW s1, Grown(s, e, s1), NEW v, NEW c \in Column, NEW w \in Widths, NEW g, NEW t,
           Exact(g, s, v, t), NEW r, r.at = Len(s1), r.ts = t
    PROVE  g.win[c][w].total = TotalOf(c, s1, v, r, w)
<1>1. PICK n \in Nat : n = Len(s) /\ Len(s1) = n + 1 /\ \A i \in 1..n : s1[i] = s[i]
  BY DEF Grown
<1>2. PICK F, A, cut : F = Worths(c, s, v) /\ A = Entered(c, s, v) /\ cut = t - w
  OBVIOUS
<1>3. A \subseteq 1..n
  BY <1>1, <1>2 DEF Entered
<1>4. PICK P : P = After(s, A, cut)
  OBVIOUS
<1>5. g.win[c][w].total = SumOver(F, P)
  <2>1. PICK x : x = g.win[c][w]
    OBVIOUS
  <2>3. HoldsFrom(g.win[c][w], s, Worths(c, s, v), Entered(c, s, v), t - w)
    BY DEF Exact
  <2>4. HoldsFrom(x, s, F, A, cut)
    BY <1>2, <2>1, <2>3
  <2>2. PICK at : Held(x, s, F, at, P)
    BY <1>4, <2>4 DEF HoldsFrom
  <2> QED BY <2>1, <2>2 DEF Held
<1>6. Span(c, s1, v, n + 1, cut) = P
  <2>1. Entered(c, s1, v) = A \/ Entered(c, s1, v) = A \cup {n + 1}
    BY <1>1, <1>2, EntersNow
  <2>2. \A j \in A : j < n + 1 /\ s1[j] = s[j]
    <3>1. \A j \in 1..n : j < n + 1
      OBVIOUS
    <3>2. \A j \in A : j \in 1..n
      BY <1>3
    <3> QED BY <1>1, <3>1, <3>2
  <2>3. ~(n + 1 < n + 1)
    OBVIOUS
  <2> QED BY <1>4, <2>1, <2>2, <2>3 DEF Span, After
<1>7. PICK F1 : F1 = Worths(c, s1, v)
  OBVIOUS
<1>8. \A i \in P : F1[i] = F[i]
  <2>1. \A i \in 1..n : F1[i] = F[i]
    BY <1>1, <1>2, <1>7, EntersNow
  <2>2. P \subseteq 1..n
    BY <1>3, <1>4 DEF After
  <2> QED BY <2>1, <2>2
<1>9. SumOver(F1, P) = SumOver(F, P)
  <2>1. IsFiniteSet(P)
    <3>1. 1 \in Int /\ n \in Int
      OBVIOUS
    <3> QED BY <1>3, <1>4, <3>1, FS_Interval, FS_Subset DEF After
  <2> QED BY <1>8, <2>1, SumAgrees
<1>10. TotalOf(c, s1, v, r, w) = SumOver(F1, Span(c, s1, v, n + 1, cut))
  BY <1>1, <1>2, <1>7 DEF TotalOf
<1> QED BY <1>5, <1>6, <1>9, <1>10

(* What a sample computes from an engine just pruned is its row's.         *)
LEMMA ComputedTells ==
    ASSUME PartsAssumption, NEW s, NEW e, NEW s1, Grown(s, e, s1), NEW v, v.depth \in BOOLEAN, NEW g, NEW t,
           Exact(g, s, v, t), NEW ft, ft = Samples!Compute(g, t, v), NEW r, r.at = Len(s1), r.ts = t
    PROVE  ColumnsTell(ft, r, s1, v)
<1>1. ASSUME NEW c \in Column, NEW w \in Widths PROVE g.win[c][w].total = TotalOf(c, s1, v, r, w)
  BY TotalIsExact
<1>2. PICK T : T = [c \in Samples!Series |-> [w \in Widths |-> g.win[c][w].total]]
  OBVIOUS
<1>3. \A c \in Samples!Series : T[c] = [w \in Widths |-> g.win[c][w].total]
  BY <1>2
<1>4. {"ofi", "deep", "signed", "count", "ret", "r2"} \subseteq Samples!Series
  BY DEF Samples!Series
<1>5. /\ ft.signed = [w \in Widths |-> g.win["signed"][w].total]
      /\ ft.count = [w \in Widths |-> g.win["count"][w].total]
      /\ ft.ret = [w \in Widths |-> g.win["ret"][w].total]
      /\ ft.r2 = [w \in Widths |-> g.win["r2"][w].total]
      /\ ft.ofi = IF v.depth THEN [w \in Widths |-> g.win["ofi"][w].total] ELSE None
      /\ ft.deep = IF v.depth THEN [w \in Widths |-> g.win["deep"][w].total] ELSE None
  BY DEF Samples!Compute
<1>6. ASSUME NEW c \in Column \ {"ofi"}, NEW w \in Widths PROVE ft[c][w] = TotalOf(c, s1, v, r, w)
  <2>1. ft[c][w] = g.win[c][w].total
    <3>1. CASE c = "signed"
      BY <1>5, <3>1
    <3>2. CASE c = "count"
      BY <1>5, <3>2
    <3>3. CASE c = "ret"
      BY <1>5, <3>3
    <3>4. CASE c = "r2"
      BY <1>5, <3>4
    <3> QED BY <3>1, <3>2, <3>3, <3>4 DEF Column
  <2> QED BY <1>1, <2>1
<1>7. ASSUME v.depth, NEW w \in Widths PROVE ft.ofi[w] = TotalOf("ofi", s1, v, r, w)
  <2>1. ft.ofi[w] = g.win["ofi"][w].total
    BY <1>5, <1>7
  <2>2. "ofi" \in Column
    BY DEF Column
  <2> QED BY <1>1, <2>1, <2>2
<1>8. ~v.depth => ft.ofi = None /\ ft.deep = None
  BY <1>5
<1> QED BY <1>6, <1>7, <1>8 DEF ColumnsTell

(* The labels a row takes leave it its columns.                            *)
LEMMA ResolvedTells ==
    ASSUME NEW r, IsRow(r), NEW done, NEW outcomes, NEW r1, r1 = Samples!Resolved(r, done, outcomes)
    PROVE  r1.at = r.at /\ r1.ts = r.ts /\ r1.feats = r.feats
BY ResolvedKeeps

(* A row of an earlier event is no row of the next.                        *)
LEMMA RowIsPast ==
    ASSUME NEW r, NEW s, NEW v, RowTells(r, s, v), NEW e, NEW s1, Grown(s, e, s1), NEW r1, r1.at = r.at
    PROVE  RowTells(r1, s1, v)
<1>1. PICK n \in Nat : n = Len(s) /\ Len(s1) = n + 1
  BY DEF Grown
<1>2. r.at \in Nat /\ r.at <= n
  BY <1>1 DEF RowTells
<1>3. r1.at \in Nat /\ r1.at <= n + 1 /\ r1.at # n + 1
  BY <1>2
<1> QED BY <1>1, <1>3 DEF RowTells

-----------------------------------------------------------------------------
(* The state of a day's features: the engine knows the stream, the rows    *)
(* tell it, and touch rows come from the one kind of venue that has them.  *)
RowsTell(s, v, p, w) ==
    /\ \A i \in 1..Len(w) : RowTells(w[i], s, v)
    /\ \A i \in Waiting(p) : RowTells(p.rows[i], s, v)
TouchesTold(s, v) == \A i \in 1..Len(s) : s[i].k = "bbo" => v.bbo
FeatureInv ==
    /\ Knows(eng, stream, Samples!venue, Samples!Now)
    /\ RowsTell(stream, Samples!venue, queued, file) /\ TouchesTold(stream, Samples!venue)

(* The stream is one of events, in the order of their times.               *)
LEMMA StreamIsTimed ==
    ASSUME StreamInv
    PROVE  Typed(stream) /\ TimedBy(stream)
<1>1. Len(stream) \in Nat
  BY DEF StreamInv, IsSeq
<1>2. \A i \in 1..Len(stream) : Samples!IsEvent(stream[i]) /\ stream[i].t \in Nat
  BY EventTypes DEF StreamInv
<1> QED BY <1>1, <1>2 DEF StreamInv, InOrder, Typed, TimedBy

(* A venue either has depth or not.                                        *)
LEMMA VenueTypes ==
    ASSUME PartsAssumption, day \in Days
    PROVE  Samples!venue.depth \in BOOLEAN /\ Samples!venue.bbo \in BOOLEAN
BY DEF PartsAssumption, Samples!StreamBounds, Samples!venue

(* What is sampled tells the stream it was sampled from.                   *)
LEMMA SampleTells ==
    ASSUME PartsAssumption, SampleInv, EngineInv(eng), FeatureInv, NEW e, Samples!IsEvent(e), e.t >= Samples!Now,
           Samples!Takes(e), NEW s1, Grown(stream, e, s1), NEW row, row = Samples!Sampled(e)
    PROVE  RowTells(row, s1, Samples!venue)
<1>1. PICK s, v, g, g1, t : /\ s = stream /\ v = Samples!venue /\ g = eng /\ t = Samples!Now
                            /\ g1 = Samples!PruneAll(g, e.t)
  OBVIOUS
<1>2. t \in Int /\ e.t \in Nat /\ t <= e.t
  BY <1>1, NowIsTime, EventTypes DEF SampleInv
<1>3. TimedBy(s) /\ v.depth \in BOOLEAN
  BY <1>1, StreamIsTimed, VenueTypes DEF SampleInv
<1>4. Exact(g1, s, v, e.t)
  <2>1. Knows(g, s, v, t) /\ EngineInv(g)
    BY <1>1 DEF FeatureInv
  <2>2. Knows(g1, s, v, e.t) /\ Exact(g1, s, v, e.t)
    BY <1>1, <1>2, <1>3, <2>1, PruningIsExact
  <2> QED BY <2>2
<1>5. Samples!Pruned(e) = g1
  BY <1>1 DEF Samples!Pruned
<1>6. row.at = Len(s) + 1 /\ row.ts = e.t /\ row.feats = Samples!Compute(g1, e.t, v)
  BY <1>1, <1>5 DEF Samples!Sampled
<1>7. PICK n \in Nat : n = Len(s) /\ Len(s1) = n + 1 /\ Grown(s, e, s1)
  BY <1>1 DEF Grown
<1>8. row.at = Len(s1)
  BY <1>6, <1>7
<1>9. PICK ft : ft = Samples!Compute(g1, e.t, v) /\ ft = row.feats
  BY <1>6
<1>10. ColumnsTell(ft, row, s1, v)
  BY <1>3, <1>4, <1>6, <1>7, <1>8, <1>9, ComputedTells
<1>11. row.at \in Nat /\ row.at <= Len(s1)
  BY <1>7, <1>8
<1> QED BY <1>1, <1>9, <1>10, <1>11 DEF RowTells

(* The engine knows the stream with the event read, pruned before or not.  *)
LEMMA EngineStillKnows ==
    ASSUME PartsAssumption, SampleInv, EngineInv(eng), FeatureInv, NEW e, Samples!IsEvent(e), e.k # "ref",
           e.t >= Samples!Now, NEW s1, Grown(stream, e, s1),
           NEW g1, g1 = Samples!OnEvent(Samples!Pruned(e), e, Samples!venue)
    PROVE  Knows(g1, s1, Samples!venue, e.t)
<1>1. PICK s, v, g, t, p : s = stream /\ v = Samples!venue /\ g = eng /\ t = Samples!Now /\ p = Samples!Pruned(e)
  OBVIOUS
<1>2. t \in Int /\ e.t \in Nat /\ t <= e.t
  BY <1>1, NowIsTime, EventTypes DEF SampleInv
<1>3. TimedBy(s) /\ Typed(s)
  BY <1>1, StreamIsTimed DEF SampleInv
<1>4. Knows(g, s, v, t) /\ EngineInv(g)
  BY <1>1 DEF FeatureInv
<1>5. EngineInv(p) /\ \E u \in Int : u <= e.t /\ Knows(p, s, v, u)
  <2>1. CASE p = g
    BY <1>2, <1>4, <2>1
  <2>2. CASE p = Samples!PruneAll(g, e.t)
    <3>1. EngineInv(p)
      BY <1>2, <1>4, <2>2, EnginePruned
    <3>2. Knows(p, s, v, e.t) /\ Exact(p, s, v, e.t)
      BY <1>2, <1>3, <1>4, <2>2, PruningIsExact
    <3>3. e.t \in Int /\ e.t <= e.t
      BY <1>2
    <3> QED BY <3>1, <3>2, <3>3
  <2> QED BY <1>1, <2>1, <2>2 DEF Samples!Pruned
<1>6. PICK u \in Int : u <= e.t /\ Knows(p, s, v, u)
  BY <1>5
<1>7. EngineMove(p, e, v, g1)
  <2>1. g1 = Samples!OnEvent(p, e, v)
    BY <1>1
  <2> QED BY <1>5, <2>1, EngineMoves
<1>8. Grown(s, e, s1)
  BY <1>1
<1>9. Knows(g1, s1, v, e.t)
  BY <1>3, <1>5, <1>6, <1>7, <1>8, EventIsKnown
<1> QED BY <1>1, <1>9

(* A touch read is told by the venue that has them.                        *)
LEMMA TouchesStay ==
    ASSUME NEW s, NEW e, NEW s1, Grown(s, e, s1), NEW v, TouchesTold(s, v), e.k = "bbo" => v.bbo
    PROVE  TouchesTold(s1, v)
<1>1. PICK n \in Nat : n = Len(s) /\ Len(s1) = n + 1 /\ s1[n + 1] = e /\ \A i \in 1..n : s1[i] = s[i]
  BY DEF Grown
<1>2. \A i \in 1..(n + 1) : i \in 1..n \/ i = n + 1
  OBVIOUS
<1> QED BY <1>1, <1>2 DEF TouchesTold

(* An event of the venue keeps the features.                               *)
LEMMA PrimaryKeepsFeatures ==
    ASSUME PartsAssumption, SampleInv, LabelInv, FeatureInv, NEW e, Samples!IsEvent(e), e.k # "ref",
           e.t >= Samples!Now, e.k = "bbo" => Samples!venue.bbo, Samples!Primary(e), day' = day, ~closed,
           closed' = closed, stream' = Append(stream, e), StreamInv'
    PROVE  FeatureInv'
<1>1. MaxPending \in Nat /\ StreamInv /\ EngineInv(eng)
  BY DEF PartsAssumption, Samples!StreamBounds, SampleInv, LabelInv
<1>2. PICK s, v, p, w, k, s1, q, w1, g1 :
         /\ s = stream /\ v = Samples!venue /\ p = queued /\ w = file /\ k = index
         /\ s1 = stream' /\ q = queued' /\ w1 = file' /\ g1 = eng'
  OBVIOUS
<1>3. PICK take, row, done, outs : /\ take = Samples!Takes(e) /\ row = Samples!Sampled(e)
                                   /\ done = Samples!FixedStep(e).done /\ outs = Samples!BarrierStep(e).done
  OBVIOUS
<1>4. QueueMove(q, p, k, done, outs, take, row) /\ FileMove(w1, w, p, done, outs, take, row)
  BY <1>1, <1>2, <1>3, PrimaryKeepsRows
<1>5. Samples!venue' = v
  BY <1>2 DEF Samples!venue
<1>6. Grown(s, e, s1) /\ Samples!Now' = e.t
  BY <1>1, <1>2, StreamGrows
<1>7. Knows(g1, s1, v, e.t)
  <2>1. g1 = Samples!OnEvent(Samples!Pruned(e), e, Samples!venue)
    BY <1>2 DEF Samples!Primary
  <2> QED BY <1>1, <1>2, <1>6, <2>1, EngineStillKnows
<1>8. take => RowTells(row, s1, v)
  <2> SUFFICES ASSUME take PROVE RowTells(row, s1, v)
    OBVIOUS
  <2>1. Samples!Takes(e)
    BY <1>3
  <2> QED BY <1>1, <1>2, <1>3, <1>6, <2>1, SampleTells
<1>9. RowsTell(s, v, p, w) /\ TouchesTold(s, v)
  BY <1>2 DEF FeatureInv
<1>10. \A j \in Waiting(p) : IsRow(p.rows[j])
  BY <1>2 DEF SampleInv, RowsInv, QueueInv
<1>11. \A j \in Waiting(p) : RowTells(Samples!Resolved(p.rows[j], done, outs), s1, v)
  <2> SUFFICES ASSUME NEW j \in Waiting(p) PROVE RowTells(Samples!Resolved(p.rows[j], done, outs), s1, v)
    OBVIOUS
  <2>1. PICK r, r1 : r = p.rows[j] /\ r1 = Samples!Resolved(r, done, outs)
    OBVIOUS
  <2>2. RowTells(r, s, v) /\ IsRow(r)
    BY <1>9, <1>10, <2>1 DEF RowsTell
  <2>3. r1.at = r.at
    BY <2>1, <2>2, ResolvedTells
  <2>4. RowTells(r1, s1, v)
    BY <1>6, <2>2, <2>3, RowIsPast
  <2> QED BY <2>1, <2>4
<1>12. \A i \in 1..Len(w1) : RowTells(w1[i], s1, v)
  <2> SUFFICES ASSUME NEW i \in 1..Len(w1) PROVE RowTells(w1[i], s1, v)
    OBVIOUS
  <2>1. CASE \E j \in 1..Len(w) : w1[i] = w[j]
    <3>1. PICK r : r = w1[i]
      OBVIOUS
    <3>2. RowTells(r, s, v)
      BY <1>9, <2>1, <3>1 DEF RowsTell
    <3>3. RowTells(r, s1, v)
      BY <1>6, <3>2, RowIsPast
    <3> QED BY <3>1, <3>3
  <2>2. CASE RowMove(w1[i], p, done, outs, take, row)
    BY <1>8, <1>11, <2>2 DEF RowMove
  <2> QED BY <1>4, <2>1, <2>2 DEF FileMove
<1>13. \A i \in Waiting(q) : RowTells(q.rows[i], s1, v)
  BY <1>4, <1>8, <1>11 DEF QueueMove
<1>14. TouchesTold(s1, v)
  BY <1>2, <1>6, <1>9, TouchesStay
<1>15. RowsTell(s1, v, q, w1)
  BY <1>12, <1>13 DEF RowsTell
<1> QED BY <1>2, <1>5, <1>6, <1>7, <1>14, <1>15 DEF FeatureInv

(* A book of the reference venue moves nothing the columns are made of.    *)
LEMMA ReferenceKeepsFeatures ==
    ASSUME PartsAssumption, SampleInv, LabelInv, FeatureInv, NEW e, Samples!IsEvent(e), e.k = "ref",
           e.t >= Samples!Now, Samples!Reference(e), day' = day, stream' = Append(stream, e)
    PROVE  FeatureInv'
<1>1. StreamInv /\ EngineInv(eng)
  BY DEF SampleInv, LabelInv
<1>2. PICK s, v, p, w, s1, g, g1, t : /\ s = stream /\ v = Samples!venue /\ p = queued /\ w = file /\ s1 = stream'
                                      /\ g = eng /\ g1 = eng' /\ t = Samples!Now
  OBVIOUS
<1>3. queued' = p /\ file' = w /\ Samples!venue' = v
  BY <1>2 DEF Samples!Reference, Samples!venue
<1>4. Grown(s, e, s1) /\ Samples!Now' = e.t
  BY <1>1, <1>2, StreamGrows
<1>5. t \in Int /\ t <= e.t /\ Typed(s) /\ Knows(g, s, v, t) /\ EngineInv(g)
  <2>1. Samples!Now \in Nat /\ e.t \in Nat /\ Typed(stream)
    BY <1>1, NowIsTime, EventTypes, StreamIsTimed
  <2> QED BY <1>1, <1>2, <2>1 DEF FeatureInv
<1>6. g1.win = g.win /\ g1.prev = g.prev /\ g1.mid = g.mid /\ g1.price = g.price /\ g1.sign = g.sign
  <2>1. PICK c : g1 = [g EXCEPT !.cross = c] \/ g1 = g
    BY <1>2 DEF Samples!Reference
  <2> QED BY <1>5, <2>1 DEF EngineInv, IsEngine
<1>7. EngineMove(g, e, v, g1)
  <2>1. e.k # "book" /\ e.k # "trade" /\ ~ShowsMid(e, v) /\ ~Flows(g, e)
    BY DEF ShowsMid, Flows
  <2> QED BY <1>6, <2>1 DEF EngineMove, Gains
<1>8. Knows(g1, s1, v, e.t)
  BY <1>4, <1>5, <1>7, EventIsKnown
<1>9. RowsTell(s, v, p, w) /\ TouchesTold(s, v)
  BY <1>2 DEF FeatureInv
<1>10. ASSUME NEW r, RowTells(r, s, v) PROVE RowTells(r, s1, v)
  BY <1>4, <1>10, RowIsPast
<1>11. RowsTell(s1, v, p, w)
  BY <1>9, <1>10 DEF RowsTell
<1>12. TouchesTold(s1, v)
  <2>1. e.k = "bbo" => v.bbo
    OBVIOUS
  <2> QED BY <1>4, <1>9, <2>1, TouchesStay
<1> QED BY <1>2, <1>3, <1>4, <1>8, <1>11, <1>12 DEF FeatureInv

(* At the end of the day the rows keep their columns.                      *)
LEMMA FinishKeepsFeatures ==
    ASSUME PartsAssumption, SampleInv, FeatureInv, Samples!Finish
    PROVE  FeatureInv'
<1>1. MaxPending \in Nat
  BY DEF PartsAssumption, Samples!StreamBounds
<1>2. PICK s, v, p, w, g, t : /\ s = stream /\ v = Samples!venue /\ p = queued /\ w = file
                              /\ g = eng /\ t = Samples!Now
  OBVIOUS
<1>3. PICK q, w1 : q = queued' /\ w1 = file'
  OBVIOUS
<1>4. stream' = s /\ eng' = g /\ closed' = TRUE /\ Samples!Now' = t /\ Samples!venue' = v
  BY <1>2 DEF Samples!Finish, Samples!Now, Samples!venue
<1>5. /\ SampleInv'
      /\ \A i \in 1..Len(w1) : (\E j \in 1..Len(w) : w1[i] = w[j]) \/ \E j \in Waiting(p) : w1[i] = p.rows[j]
  BY <1>1, <1>2, <1>3, FinishKeepsRows
<1>6. Waiting(q) = {}
  <2>1. SampleInv' => (closed' => Waiting(queued') = {})
    BY DEF SampleInv
  <2> QED BY <1>3, <1>4, <1>5, <2>1
<1>7. Knows(g, s, v, t) /\ RowsTell(s, v, p, w) /\ TouchesTold(s, v)
  BY <1>2 DEF FeatureInv
<1>8. RowsTell(s, v, q, w1)
  <2>1. \A i \in 1..Len(w1) : RowTells(w1[i], s, v)
    BY <1>5, <1>7 DEF RowsTell
  <2> QED BY <1>6, <2>1 DEF RowsTell
<1> QED BY <1>3, <1>4, <1>7, <1>8 DEF FeatureInv

(* Whatever a day of samples does next, its rows tell the stream.          *)
LEMMA StepKeepsFeatures ==
    ASSUME PartsAssumption, SampleInv, LabelInv, FeatureInv, [Samples!Next]_(Samples!vars)
    PROVE  FeatureInv'
<1>0. Steps \subseteq Nat /\ \A d \in Days : \A x \in d.events : Samples!IsEvent(x) /\ (x.k = "bbo" => d.venue.bbo)
  BY DEF PartsAssumption, Samples!StreamBounds
<1>1. CASE UNCHANGED Samples!vars
  BY <1>1 DEF Samples!vars, FeatureInv, Samples!Now, Samples!venue
<1>2. CASE Samples!Finish
  BY <1>2, FinishKeepsFeatures
<1>3. ASSUME NEW p \in day.events, NEW d \in Steps, Samples!Read([p EXCEPT !.t = Samples!Now + d])
      PROVE  FeatureInv'
  <2>1. PICK e : e = [p EXCEPT !.t = Samples!Now + d]
    OBVIOUS
  <2>2. Samples!IsEvent(e) /\ e.t >= Samples!Now /\ (e.k = "bbo" => Samples!venue.bbo)
    <3>1. Samples!Now \in Nat
      BY NowIsTime DEF SampleInv
    <3>2. PICK n \in Nat : n = Samples!Now + d /\ n >= Samples!Now
      BY <1>0, <3>1
    <3>3. Samples!IsEvent(p) /\ (p.k = "bbo" => day.venue.bbo)
      BY <1>0 DEF SampleInv
    <3>4. e = [p EXCEPT !.t = n]
      BY <2>1, <3>2
    <3>5. e.k = p.k
      BY <3>3, <3>4 DEF Samples!IsEvent
    <3>6. Samples!IsEvent(e) /\ e.t = n
      BY <3>2, <3>3, <3>4, EventMoves
    <3> QED BY <3>2, <3>3, <3>5, <3>6 DEF Samples!venue
  <2>3. stream' = Append(stream, e) /\ day' = day /\ closed' = closed /\ ~closed
    BY <1>3, <2>1 DEF Samples!Read
  <2>4. StreamInv'
    BY <2>2, <2>3, ReadKeepsOrder DEF SampleInv
  <2>5. CASE e.k = "ref"
    <3>1. Samples!Reference(e)
      BY <1>3, <2>1, <2>5 DEF Samples!Read
    <3> QED BY <2>2, <2>3, <2>5, <3>1, ReferenceKeepsFeatures
  <2>6. CASE e.k # "ref"
    <3>1. Samples!Primary(e)
      BY <1>3, <2>1, <2>6 DEF Samples!Read
    <3> QED BY <2>2, <2>3, <2>4, <2>6, <3>1, PrimaryKeepsFeatures
  <2> QED BY <2>5, <2>6
<1> QED BY <1>1, <1>2, <1>3 DEF Samples!Next

(* A day starts with an engine that has nothing to know.                   *)
LEMMA StartsKnowing == ASSUME PartsAssumption, SampleInv, Samples!Init PROVE FeatureInv
<1>1. /\ stream = <<>> /\ file = <<>> /\ queued = Samples!NewPending /\ eng = Samples!NewEngine
  BY DEF Samples!Init
<1>2. Waiting(queued) = {} /\ Len(file) = 0 /\ Len(stream) = 0 /\ Samples!Now = 0
  <2>1. queued.order = <<>> /\ queued.next = 1
    BY <1>1 DEF Samples!NewPending
  <2> QED BY <1>1, <2>1 DEF Waiting, Samples!Now
<1>3. PICK v, g : v = Samples!venue /\ g = eng
  OBVIOUS
<1>4. Knows(g, <<>>, v, 0)
  BY <1>1, <1>3, NothingIsKnown
<1>5. RowsTell(stream, v, queued, file) /\ TouchesTold(stream, v)
  BY <1>2 DEF RowsTell, TouchesTold
<1> QED BY <1>1, <1>2, <1>3, <1>4, <1>5 DEF FeatureInv

(* The specification's own reading of the stream is that of the histories. *)
SameReading(j, s, v) ==
    /\ Samples!MidEvent(j) <=> ShowsMid(s[j], v)
    /\ Samples!Previous(j, Samples!MidEvent) = IF MidsBefore(s, v, j) = {} THEN 0 ELSE Samples!LastAt(MidsBefore(s, v, j))
    /\ Samples!Previous(j, Samples!IsBook) = IF BooksBefore(s, j) = {} THEN 0 ELSE Samples!LastAt(BooksBefore(s, j))
    /\ Samples!Before(j, {"trade"}) = TradesBefore(s, j)
    /\ Samples!OwnSign(j) = OwnOf(s, v, j)

(* It is, at every event.                                                  *)
LEMMA ReadsTheSame ==
    ASSUME Typed(stream), NEW v, v = Samples!venue, v.bbo \in BOOLEAN, TouchesTold(stream, v), NEW s, s = stream,
           NEW j \in 1..Len(stream)
    PROVE  SameReading(j, s, v)
<1>1. PICK n \in Nat : n = Len(s) /\ \A i \in 1..n : Samples!IsEvent(s[i])
  BY DEF Typed
<1>2. \A i \in 1..n : Samples!MidEvent(i) <=> ShowsMid(s[i], v)
  BY <1>1 DEF Samples!MidEvent, ShowsMid, TouchesTold
<1>3. \A i \in 1..(j - 1) : i \in 1..n
  BY <1>1
<1>4. {i \in 1..(j - 1) : Samples!MidEvent(i)} = MidsBefore(s, v, j)
  BY <1>2, <1>3 DEF MidsBefore
<1>5. Samples!Previous(j, Samples!MidEvent) = IF MidsBefore(s, v, j) = {} THEN 0 ELSE Samples!LastAt(MidsBefore(s, v, j))
  BY <1>4 DEF Samples!Previous
<1>6. {i \in 1..(j - 1) : Samples!IsBook(i)} = BooksBefore(s, j)
  BY DEF BooksBefore, Samples!IsBook
<1>7. Samples!Previous(j, Samples!IsBook) = IF BooksBefore(s, j) = {} THEN 0 ELSE Samples!LastAt(BooksBefore(s, j))
  BY <1>6 DEF Samples!Previous
<1>8. Samples!Before(j, {"trade"}) = TradesBefore(s, j)
  BY DEF Samples!Before, TradesBefore
<1>9. Samples!OwnSign(j) = OwnOf(s, v, j)
  <2>1. PICK T, was : T = TradesBefore(s, j) /\ was = s[Samples!LastAt(T)].price
    OBVIOUS
  <2>2. Samples!OwnSign(j) =
          CASE v.flagged /\ s[j].side = "buy" -> 1
            [] v.flagged /\ s[j].side = "sell" -> -1
            [] OTHER -> IF T = {} \/ s[j].price = was THEN 0 ELSE IF s[j].price > was THEN 1 ELSE -1
    BY <1>8, <2>1 DEF Samples!OwnSign
  <2>3. T # {} => LastPrice(s, j) = was
    BY <2>1 DEF LastPrice
  <2>4. OwnOf(s, v, j) =
          CASE v.flagged /\ s[j].side = "buy" -> 1
            [] v.flagged /\ s[j].side = "sell" -> -1
            [] OTHER -> IF T = {} \/ s[j].price = was THEN 0 ELSE IF s[j].price > was THEN 1 ELSE -1
    BY <2>1, <2>3 DEF OwnOf
  <2> QED BY <2>2, <2>4
<1> QED BY <1>1, <1>2, <1>5, <1>7, <1>8, <1>9 DEF SameReading

(* So is the sign of a trade.                                              *)
LEMMA SignReadsTheSame ==
    ASSUME Typed(stream), NEW v, v = Samples!venue, v.bbo \in BOOLEAN, TouchesTold(stream, v), NEW s, s = stream,
           NEW j \in 1..Len(stream)
    PROVE  Samples!SignAt(j) = LastSign(s, v, j + 1)
<1>1. PICK n \in Nat : n = Len(s)
  BY DEF Typed
<1>2. j \in 1..n /\ j + 1 - 1 = j
  BY <1>1
<1>3. Samples!Before(j + 1, {"trade"}) = TradesBefore(s, j + 1)
  BY DEF Samples!Before, TradesBefore
<1>4. \A i \in TradesBefore(s, j + 1) : i \in 1..n
  <2>1. \A i \in 1..j : i \in 1..n
    BY <1>2
  <2> QED BY <1>2, <2>1 DEF TradesBefore
<1>5. \A i \in 1..n : Samples!OwnSign(i) = OwnOf(s, v, i)
  <2> SUFFICES ASSUME NEW i \in 1..n PROVE Samples!OwnSign(i) = OwnOf(s, v, i)
    OBVIOUS
  <2>1. SameReading(i, s, v)
    BY <1>1, ReadsTheSame
  <2> QED BY <2>1 DEF SameReading
<1>6. PICK J : J = TellsBefore(s, v, j + 1)
  OBVIOUS
<1>7. {i \in Samples!Before(j + 1, {"trade"}) : Samples!OwnSign(i) # 0} = J /\ J \subseteq 1..n
  BY <1>3, <1>4, <1>5, <1>6 DEF TellsBefore
<1>8. Samples!SignAt(j) = IF J = {} THEN 0 ELSE Samples!OwnSign(Samples!LastAt(J))
  BY <1>7 DEF Samples!SignAt
<1>9. J # {} => Samples!OwnSign(Samples!LastAt(J)) = OwnOf(s, v, Samples!LastAt(J))
  <2> SUFFICES ASSUME J # {} PROVE Samples!OwnSign(Samples!LastAt(J)) = OwnOf(s, v, Samples!LastAt(J))
    OBVIOUS
  <2>1. Samples!LastAt(J) \in J
    BY <1>7, LastIsOne
  <2> QED BY <1>5, <1>7, <2>1
<1> QED BY <1>6, <1>8, <1>9 DEF LastSign

(* There is a mid, or a book, to change from exactly when one was shown.   *)
ShownBefore(s, v, j) ==
    /\ MidsBefore(s, v, j) # {} => /\ Samples!LastAt(MidsBefore(s, v, j)) # 0 /\ LastMid(s, v, j) # 0
                                   /\ LastMid(s, v, j) = Samples!Mid(s[Samples!LastAt(MidsBefore(s, v, j))].b)
    /\ MidsBefore(s, v, j) = {} => LastMid(s, v, j) = 0
    /\ BooksBefore(s, j) # {} => /\ Samples!LastAt(BooksBefore(s, j)) # 0 /\ LastBook(s, j) # None
                                 /\ LastBook(s, j) = s[Samples!LastAt(BooksBefore(s, j))].b
    /\ BooksBefore(s, j) = {} => LastBook(s, j) = None

(* That is what the places say.                                            *)
LEMMA PlacesSay ==
    ASSUME PartsAssumption, NEW s, Typed(s), NEW v, NEW j \in 1..Len(s)
    PROVE  ShownBefore(s, v, j)
<1>1. PICK n \in Nat : n = Len(s) /\ \A i \in 1..n : Samples!IsEvent(s[i])
  BY DEF Typed
<1>2. PICK m \in Nat : m = j - 1 /\ 1..m \subseteq 1..n
  <2>1. j \in Nat \ {0} /\ j <= n
    BY <1>1
  <2>2. j - 1 \in Nat /\ 1..(j - 1) \subseteq 1..n
    BY <2>1
  <2> QED BY <2>2
<1>3. PICK M, B : M = MidsBefore(s, v, j) /\ B = BooksBefore(s, j)
  OBVIOUS
<1>4. M \subseteq 1..m /\ (\A i \in M : ShowsMid(s[i], v)) /\ B \subseteq 1..m /\ \A i \in B : s[i].k = "book"
  BY <1>2, <1>3 DEF MidsBefore, BooksBefore
<1>5. ASSUME M # {} PROVE Samples!LastAt(M) # 0 /\ Samples!Mid(s[Samples!LastAt(M)].b) # 0
  <2>1. PICK i : i = Samples!LastAt(M) /\ i \in M /\ i \in 1..m
    BY <1>4, <1>5, LastIsOne
  <2>2. PICK x : x = s[i] /\ Samples!IsEvent(x) /\ ShowsMid(x, v)
    BY <1>1, <1>2, <1>4, <2>1
  <2>3. x.k # "trade" /\ Samples!HasMid(x.b)
    BY <2>2 DEF ShowsMid
  <2>4. Samples!Mid(x.b) # 0
    BY <2>2, <2>3, EventTypes, BookTypes
  <2>5. i # 0
    BY <2>1
  <2> QED BY <2>1, <2>2, <2>4, <2>5
<1>6. ASSUME B # {} PROVE Samples!LastAt(B) # 0 /\ s[Samples!LastAt(B)].b # None
  <2>1. PICK i : i = Samples!LastAt(B) /\ i \in B /\ i \in 1..m
    BY <1>4, <1>6, LastIsOne
  <2>2. PICK x : x = s[i] /\ Samples!IsEvent(x) /\ x.k = "book"
    BY <1>1, <1>2, <1>4, <2>1
  <2>3. x.b \in Samples!BookState
    BY <2>2, EventTypes
  <2>4. None \notin Samples!BookState
    BY DEF PartsAssumption, Samples!StreamBounds
  <2>5. i # 0
    BY <2>1
  <2> QED BY <2>1, <2>2, <2>3, <2>4, <2>5
<1>7. LastMid(s, v, j) = IF M = {} THEN 0 ELSE Samples!Mid(s[Samples!LastAt(M)].b)
  BY <1>3 DEF LastMid
<1>8. LastBook(s, j) = IF B = {} THEN None ELSE s[Samples!LastAt(B)].b
  BY <1>3 DEF LastBook
<1> QED BY <1>3, <1>5, <1>6, <1>7, <1>8 DEF ShownBefore

(* What a place of the stream gives the columns, read by the specification *)
(* and by the histories.                                                   *)
Moves(j) == Samples!MidEvent(j) /\ Samples!Previous(j, Samples!MidEvent) # 0
MoveOf(j) == Samples!Mid(stream[j].b) - Samples!Mid(stream[Samples!Previous(j, Samples!MidEvent)].b)
Quotes(j) ==
    /\ Samples!IsBook(j) /\ Samples!Previous(j, Samples!IsBook) # 0
    /\ Samples!Quoted(stream[j].b) /\ Samples!Quoted(stream[Samples!Previous(j, Samples!IsBook)].b)
QuoteOf(j) == Samples!OfiBest(stream[Samples!Previous(j, Samples!IsBook)].b, stream[j].b)
PlaceTells(j, s, v) ==
    /\ (Moves(j) <=> Enters("ret", s, v, j)) /\ (Moves(j) <=> Enters("r2", s, v, j))
    /\ (Quotes(j) <=> Enters("ofi", s, v, j))
    /\ Moves(j) => Worth("ret", s, v, j) = MoveOf(j) /\ Worth("r2", s, v, j) = MoveOf(j) * MoveOf(j)
    /\ Quotes(j) => Worth("ofi", s, v, j) = QuoteOf(j)
    /\ Worth("signed", s, v, j) = Samples!SignAt(j) * stream[j].qty /\ Worth("count", s, v, j) = 1
    /\ (Enters("signed", s, v, j) <=> stream[j].k = "trade") /\ (Enters("count", s, v, j) <=> stream[j].k = "trade")

(* They read it the same.                                                  *)
LEMMA PlacesTell ==
    ASSUME PartsAssumption, Typed(stream), NEW v, v = Samples!venue, v.bbo \in BOOLEAN, TouchesTold(stream, v),
           NEW s, s = stream, NEW j \in 1..Len(stream)
    PROVE  PlaceTells(j, s, v)
<1>1. SameReading(j, s, v) /\ ShownBefore(s, v, j)
  BY ReadsTheSame, PlacesSay
<1>2. PICK M, B, pm, pb : /\ M = MidsBefore(s, v, j) /\ B = BooksBefore(s, j)
                          /\ pm = Samples!Previous(j, Samples!MidEvent) /\ pb = Samples!Previous(j, Samples!IsBook)
  OBVIOUS
<1>3. pm = (IF M = {} THEN 0 ELSE Samples!LastAt(M)) /\ pb = (IF B = {} THEN 0 ELSE Samples!LastAt(B))
  BY <1>1, <1>2 DEF SameReading
<1>4. pm # 0 <=> LastMid(s, v, j) # 0
  BY <1>1, <1>2, <1>3 DEF ShownBefore
<1>5. pm # 0 => LastMid(s, v, j) = Samples!Mid(s[pm].b)
  BY <1>1, <1>2, <1>3 DEF ShownBefore
<1>6. pb # 0 <=> LastBook(s, j) # None
  BY <1>1, <1>2, <1>3 DEF ShownBefore
<1>7. pb # 0 => LastBook(s, j) = s[pb].b
  BY <1>1, <1>2, <1>3 DEF ShownBefore
<1>8. Samples!MidEvent(j) <=> ShowsMid(s[j], v)
  BY <1>1 DEF SameReading
<1>9. Moves(j) <=> ShowsMid(s[j], v) /\ LastMid(s, v, j) # 0
  BY <1>2, <1>4, <1>8 DEF Moves
<1>10. Moves(j) => MoveOf(j) = Change(s, v, j)
  BY <1>2, <1>4, <1>5, <1>9 DEF MoveOf, Change
<1>11. Quotes(j) <=> /\ s[j].k = "book" /\ LastBook(s, j) # None
                     /\ Samples!Quoted(LastBook(s, j)) /\ Samples!Quoted(s[j].b)
  BY <1>2, <1>6, <1>7 DEF Quotes, Samples!IsBook
<1>12. Quotes(j) => QuoteOf(j) = Samples!OfiBest(LastBook(s, j), s[j].b)
  BY <1>2, <1>6, <1>7, <1>11 DEF QuoteOf
<1>13. Samples!SignAt(j) = LastSign(s, v, j + 1)
  BY SignReadsTheSame
<1>14. (Moves(j) <=> Enters("ret", s, v, j)) /\ (Moves(j) <=> Enters("r2", s, v, j))
  BY <1>9 DEF Enters
<1>15. Quotes(j) <=> Enters("ofi", s, v, j)
  BY <1>11 DEF Enters
<1>16. (Enters("signed", s, v, j) <=> stream[j].k = "trade") /\ (Enters("count", s, v, j) <=> stream[j].k = "trade")
  BY DEF Enters
<1>17. /\ Worth("ret", s, v, j) = Change(s, v, j) /\ Worth("r2", s, v, j) = Change(s, v, j) * Change(s, v, j)
       /\ Worth("ofi", s, v, j) = Samples!OfiBest(LastBook(s, j), s[j].b)
       /\ Worth("signed", s, v, j) = LastSign(s, v, j + 1) * s[j].qty /\ Worth("count", s, v, j) = 1
  BY DEF Worth
<1> QED BY <1>10, <1>12, <1>13, <1>14, <1>15, <1>16, <1>17 DEF PlaceTells

(* The places within a row's window, as the specification collects them.   *)
Within(r, w, J) == {j \in J : j < r.at /\ stream[j].t > r.ts - w}
TradesOf(r, w) == Within(r, w, Samples!Before(r.at, {"trade"}))
MovesOf(r, w) == Within(r, w, {j \in Samples!Positions : Moves(j)})
QuotesOf(r, w) == Within(r, w, {j \in Samples!Positions : Quotes(j)})
FromPlaces(r, w, s, v) ==
    /\ TradesOf(r, w) = Span("signed", s, v, r.at, r.ts - w) /\ TradesOf(r, w) = Span("count", s, v, r.at, r.ts - w)
    /\ MovesOf(r, w) = Span("ret", s, v, r.at, r.ts - w) /\ MovesOf(r, w) = Span("r2", s, v, r.at, r.ts - w)
    /\ QuotesOf(r, w) = Span("ofi", s, v, r.at, r.ts - w)

(* They are the spans of the columns.                                      *)
LEMMA PlacesAreSpans ==
    ASSUME Len(stream) \in Nat, NEW s, s = stream, NEW v, \A j \in 1..Len(stream) : PlaceTells(j, s, v),
           NEW r, r.at = Len(stream), NEW w
    PROVE  FromPlaces(r, w, s, v)
<1>0. PICK n \in Nat : n = Len(s) /\ r.at = n
  OBVIOUS
<1>1. PICK cut : n = Len(s) /\ r.at = n /\ s = stream /\ cut = r.ts - w
  BY <1>0
<1>2. \A j \in 1..n : PlaceTells(j, s, v)
  BY <1>1
<1>3. ASSUME NEW c \in Column PROVE Span(c, s, v, r.at, r.ts - w) = {j \in 1..n : Enters(c, s, v, j) /\ j < n /\ s[j].t > cut}
  BY <1>1 DEF Span, Entered
<1>4. TradesOf(r, w) = {j \in 1..n : s[j].k = "trade" /\ j < n /\ s[j].t > cut}
  <2>1. Samples!Before(r.at, {"trade"}) = {j \in 1..(n - 1) : s[j].k = "trade"}
    BY <1>1 DEF Samples!Before
  <2>2. \A j : j \in 1..(n - 1) <=> j \in 1..n /\ j < n
    BY <1>1
  <2> QED BY <1>1, <2>1, <2>2 DEF TradesOf, Within
<1>5. MovesOf(r, w) = {j \in 1..n : Moves(j) /\ j < n /\ s[j].t > cut}
  BY <1>1 DEF MovesOf, Within, Samples!Positions
<1>6. QuotesOf(r, w) = {j \in 1..n : Quotes(j) /\ j < n /\ s[j].t > cut}
  BY <1>1 DEF QuotesOf, Within, Samples!Positions
<1>7. {"ofi", "signed", "count", "ret", "r2"} \subseteq Column
  BY DEF Column
<1>8. ASSUME NEW j \in 1..n
      PROVE  /\ (Moves(j) <=> Enters("ret", s, v, j)) /\ (Moves(j) <=> Enters("r2", s, v, j))
             /\ (Quotes(j) <=> Enters("ofi", s, v, j))
             /\ (Enters("signed", s, v, j) <=> s[j].k = "trade") /\ (Enters("count", s, v, j) <=> s[j].k = "trade")
  BY <1>2 DEF PlaceTells
<1>9. TradesOf(r, w) = Span("signed", s, v, r.at, r.ts - w) /\ TradesOf(r, w) = Span("count", s, v, r.at, r.ts - w)
  BY <1>3, <1>4, <1>7, <1>8
<1>10. MovesOf(r, w) = Span("ret", s, v, r.at, r.ts - w) /\ MovesOf(r, w) = Span("r2", s, v, r.at, r.ts - w)
  BY <1>3, <1>5, <1>7, <1>8
<1>11. QuotesOf(r, w) = Span("ofi", s, v, r.at, r.ts - w)
  BY <1>3, <1>6, <1>7, <1>8
<1> QED BY <1>9, <1>10, <1>11 DEF FromPlaces

(* A sum over a span, of what the specification reads there.               *)
LEMMA SpanSum ==
    ASSUME NEW s, Len(s) \in Nat, NEW v, NEW c, NEW S, NEW k, NEW cut, S = Span(c, s, v, k, cut),
           NEW G, DOMAIN G = S, \A j \in S : G[j] = Worth(c, s, v, j)
    PROVE  Samples!Sum(G) = SumOver(Worths(c, s, v), Span(c, s, v, k, cut))
<1>1. S \subseteq 1..Len(s) /\ IsFiniteSet(S)
  <2>1. S \subseteq 1..Len(s)
    BY DEF Span, Entered
  <2>2. 1 \in Int /\ Len(s) \in Int
    OBVIOUS
  <2> QED BY <2>1, <2>2, FS_Interval, FS_Subset
<1>2. PICK F : F = Worths(c, s, v)
  OBVIOUS
<1>3. \A j \in S : G[j] = F[j]
  BY <1>1, <1>2 DEF Worths
<1>4. SumOver(G, S) = SumOver(F, S)
  BY <1>1, <1>3, SumAgrees
<1> QED BY <1>2, <1>4, StreamSum

(* What a row must tell of one width.                                      *)
TellsWidth(r, w) ==
    /\ r.feats.signed[w] = Samples!Sum([j \in TradesOf(r, w) |-> Samples!SignAt(j) * stream[j].qty])
    /\ r.feats.count[w] = Samples!Cardinality(TradesOf(r, w))
    /\ r.feats.ret[w] = Samples!Sum([j \in MovesOf(r, w) |-> MoveOf(j)])
    /\ r.feats.r2[w] = Samples!Sum([j \in MovesOf(r, w) |-> MoveOf(j) * MoveOf(j)])
    /\ Samples!venue.depth => r.feats.ofi[w] = Samples!Sum([j \in QuotesOf(r, w) |-> QuoteOf(j)])
    /\ ~Samples!venue.depth => r.feats.ofi = None /\ r.feats.deep = None

(* The newest row tells it.                                                *)
LEMMA NewestTells ==
    ASSUME PartsAssumption, Typed(stream), NEW v, v = Samples!venue, v.bbo \in BOOLEAN, TouchesTold(stream, v),
           NEW r, RowTells(r, stream, v), r.at = Len(stream), NEW w \in Widths
    PROVE  TellsWidth(r, w)
<1>1. PICK s : s = stream
  OBVIOUS
<1>2. Len(s) \in Nat /\ Len(stream) \in Nat
  BY <1>1 DEF Typed
<1>3. \A j \in 1..Len(s) : PlaceTells(j, s, v)
  BY <1>1, PlacesTell
<1>4. FromPlaces(r, w, s, v)
  BY <1>1, <1>2, <1>3, PlacesAreSpans
<1>5. ColumnsTell(r.feats, r, s, v)
  BY <1>1 DEF RowTells
<1>6. PICK T, M, Q : T = TradesOf(r, w) /\ M = MovesOf(r, w) /\ Q = QuotesOf(r, w)
  OBVIOUS
<1>7. PICK k, cut : k = r.at /\ cut = r.ts - w
  OBVIOUS
<1>8. /\ T = Span("signed", s, v, k, cut) /\ T = Span("count", s, v, k, cut)
      /\ M = Span("ret", s, v, k, cut) /\ M = Span("r2", s, v, k, cut) /\ Q = Span("ofi", s, v, k, cut)
  BY <1>4, <1>6, <1>7 DEF FromPlaces
<1>9. \A c \in Column : TotalOf(c, s, v, r, w) = SumOver(Worths(c, s, v), Span(c, s, v, k, cut))
  BY <1>7 DEF TotalOf
<1>10. /\ r.feats.signed[w] = TotalOf("signed", s, v, r, w) /\ r.feats.count[w] = TotalOf("count", s, v, r, w)
       /\ r.feats.ret[w] = TotalOf("ret", s, v, r, w) /\ r.feats.r2[w] = TotalOf("r2", s, v, r, w)
       /\ v.depth => r.feats.ofi[w] = TotalOf("ofi", s, v, r, w)
       /\ ~v.depth => r.feats.ofi = None /\ r.feats.deep = None
  <2>1. \A c \in Column \ {"ofi"} : r.feats[c][w] = TotalOf(c, s, v, r, w)
    BY <1>5 DEF ColumnsTell
  <2>2. {"signed", "count", "ret", "r2"} \subseteq Column \ {"ofi"}
    BY DEF Column
  <2>3. /\ v.depth => r.feats.ofi[w] = TotalOf("ofi", s, v, r, w)
        /\ ~v.depth => r.feats.ofi = None /\ r.feats.deep = None
    BY <1>5 DEF ColumnsTell
  <2> QED BY <2>1, <2>2, <2>3
<1>11. \A c \in {"signed", "count", "ret", "r2", "ofi"} : c \in Column
  BY DEF Column
<1>12. /\ T \subseteq 1..Len(s) /\ M \subseteq 1..Len(s) /\ Q \subseteq 1..Len(s)
       /\ (\A j \in M : Moves(j)) /\ \A j \in Q : Quotes(j)
  <2>1. T \subseteq 1..Len(s) /\ M \subseteq 1..Len(s) /\ Q \subseteq 1..Len(s)
    BY <1>8 DEF Span, Entered
  <2>2. (\A j \in M : Moves(j)) /\ \A j \in Q : Quotes(j)
    BY <1>6 DEF MovesOf, QuotesOf, Within
  <2> QED BY <2>1, <2>2
<1>13. r.feats.signed[w] = Samples!Sum([j \in T |-> Samples!SignAt(j) * stream[j].qty])
  <2>1. PICK G : G = [j \in T |-> Samples!SignAt(j) * stream[j].qty]
    OBVIOUS
  <2>2. DOMAIN G = T /\ \A j \in T : G[j] = Worth("signed", s, v, j)
    BY <1>3, <1>12, <2>1 DEF PlaceTells
  <2>3. Samples!Sum(G) = SumOver(Worths("signed", s, v), Span("signed", s, v, k, cut))
    BY <1>2, <1>8, <2>2, SpanSum
  <2> QED BY <1>9, <1>10, <1>11, <2>1, <2>3
<1>14. r.feats.count[w] = Samples!Cardinality(T)
  <2>1. PICK F : F = Worths("count", s, v)
    OBVIOUS
  <2>2. \A j \in T : F[j] = 1
    BY <1>3, <1>12, <2>1 DEF PlaceTells, Worths
  <2>3. IsFiniteSet(T)
    <3>1. 1 \in Int /\ Len(s) \in Int
      BY <1>2
    <3> QED BY <1>12, <3>1, FS_Interval, FS_Subset
  <2>4. SumOver(F, T) = Cardinality(T)
    BY <2>2, <2>3, SumOfOnes
  <2> QED BY <1>8, <1>9, <1>10, <1>11, <2>1, <2>4, SampleSizes
<1>15. r.feats.ret[w] = Samples!Sum([j \in M |-> MoveOf(j)])
  <2>1. PICK G : G = [j \in M |-> MoveOf(j)]
    OBVIOUS
  <2>2. DOMAIN G = M /\ \A j \in M : G[j] = Worth("ret", s, v, j)
    BY <1>3, <1>12, <2>1 DEF PlaceTells
  <2>3. Samples!Sum(G) = SumOver(Worths("ret", s, v), Span("ret", s, v, k, cut))
    BY <1>2, <1>8, <2>2, SpanSum
  <2> QED BY <1>9, <1>10, <1>11, <2>1, <2>3
<1>16. r.feats.r2[w] = Samples!Sum([j \in M |-> MoveOf(j) * MoveOf(j)])
  <2>1. PICK G : G = [j \in M |-> MoveOf(j) * MoveOf(j)]
    OBVIOUS
  <2>2. DOMAIN G = M /\ \A j \in M : G[j] = Worth("r2", s, v, j)
    BY <1>3, <1>12, <2>1 DEF PlaceTells
  <2>3. Samples!Sum(G) = SumOver(Worths("r2", s, v), Span("r2", s, v, k, cut))
    BY <1>2, <1>8, <2>2, SpanSum
  <2> QED BY <1>9, <1>10, <1>11, <2>1, <2>3
<1>17. v.depth => r.feats.ofi[w] = Samples!Sum([j \in Q |-> QuoteOf(j)])
  <2>1. PICK G : G = [j \in Q |-> QuoteOf(j)]
    OBVIOUS
  <2>2. DOMAIN G = Q /\ \A j \in Q : G[j] = Worth("ofi", s, v, j)
    BY <1>3, <1>12, <2>1 DEF PlaceTells
  <2>3. Samples!Sum(G) = SumOver(Worths("ofi", s, v), Span("ofi", s, v, k, cut))
    BY <1>2, <1>8, <2>2, SpanSum
  <2> QED BY <1>9, <1>10, <1>11, <2>1, <2>3
<1> QED BY <1>6, <1>10, <1>13, <1>14, <1>15, <1>16, <1>17 DEF TellsWidth

(* In that state the newest rows match the history.                        *)
LEMMA KeptFeaturesMatch ==
    ASSUME PartsAssumption, SampleInv, FeatureInv
    PROVE  Samples!FeaturesMatchHistory
<1>1. PICK v : v = Samples!venue
  OBVIOUS
<1>2. v.bbo \in BOOLEAN /\ TouchesTold(stream, v) /\ Typed(stream) /\ RowsTell(stream, v, queued, file)
  BY <1>1, VenueTypes, StreamIsTimed DEF SampleInv, FeatureInv
<1>3. DOMAIN queued.rows = Waiting(queued)
  BY DEF SampleInv, RowsInv, QueueInv
<1>4. ASSUME NEW r \in Samples!NewRows PROVE RowTells(r, stream, v) /\ r.at = Len(stream)
  BY <1>2, <1>3 DEF Samples!NewRows, Samples!RowSet, RowsTell
<1>5. ASSUME NEW r \in Samples!NewRows, NEW w \in Widths PROVE TellsWidth(r, w)
  BY <1>1, <1>2, <1>4, NewestTells
<1> QED BY ONLY <1>5 DEF Samples!FeaturesMatchHistory, TellsWidth, TradesOf, MovesOf, QuotesOf, Within, Moves, Quotes, MoveOf, QuoteOf

(* Every rolling column of a sample is the sum over exactly the events of  *)
(* its window that precede the sampled one, however the windows were kept. *)
THEOREM FeaturesAreTheHistorys == FeedSpec => []FeaturesMatchHistory
<1> DEFINE Inv == part = "samples" => SampleInv /\ LabelInv /\ FeatureInv
<1>1. FeedInit => Inv
  BY PartsAssumption, StartsWithoutRows, StartsLabelled, StartsKnowing DEF FeedInit
<1>2. Inv /\ [FeedNext]_feedVars => Inv'
  <2> SUFFICES ASSUME Inv, [FeedNext]_feedVars, part' = "samples" PROVE SampleInv' /\ LabelInv' /\ FeatureInv'
    OBVIOUS
  <2>1. part = "samples" /\ [Samples!Next]_(Samples!vars)
    BY DEF FeedNext, feedVars, sampleVars, Samples!vars
  <2> QED BY <2>1, PartsAssumption, StepKeepsRows, StepKeepsLabels, StepKeepsFeatures
<1>3. Inv => FeaturesMatchHistory
  BY PartsAssumption, KeptFeaturesMatch DEF FeaturesMatchHistory
<1> QED BY <1>1, <1>2, <1>3, PTL DEF FeedSpec
=============================================================================
