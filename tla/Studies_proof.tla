---------------------------- MODULE Studies_proof -----------------------------
(***************************************************************************)
(* Theorems about the offline studies: a panel prediction reads nothing    *)
(* unpublished, the pairs backtest charges every trade both sides, no fold *)
(* is scored on what it trained on, a launch's past does not move, and the *)
(* runs of negative funding that are reported carry all of it.             *)
(***************************************************************************)
EXTENDS MCStudies, DataLemmas

-----------------------------------------------------------------------------
(* The panel's variables have their types, and no observation is of a day  *)
(* that has not come.                                                      *)
MediumInv ==
    /\ class \in PanelClasses /\ horizon \in WeeksAhead /\ day \in Nat
    /\ seen \in [Medium!Sources -> SUBSET (1..day)]

(* A metric whose values rest on no observation later than their own day.  *)
LooksBack(m) ==
    /\ DOMAIN m \subseteq 1..day
    /\ \A d \in DOMAIN m : \A o \in m[d] : o[2] \in Int /\ o[2] <= d

(* The newest day at or before a cutoff is one.                            *)
LEMMA NewestIsUsable ==
    ASSUME day \in Nat, NEW m, LooksBack(m), NEW c, Medium!UpTo(m, c) # {}
    PROVE  /\ Medium!Max(Medium!UpTo(m, c)) \in DOMAIN m
           /\ Medium!Max(Medium!UpTo(m, c)) <= c
<1> DEFINE u == Medium!UpTo(m, c)
<1>1. u \in SUBSET (1..day) /\ u # {} /\ \A d \in u : d \in DOMAIN m /\ d <= c
  BY DEF LooksBack, Medium!UpTo
<1>2. Medium!Max(u) = Max(u)
  BY DEF Medium!Max, Max
<1> HIDE DEF u
<1>3. Max(u) \in u
  BY <1>1, MaxIsOne
<1> QED BY <1>1, <1>2, <1>3 DEF u

(* What was the newest usable value at a decision was out by then.         *)
LEMMA LatestIsOut ==
    ASSUME day \in Nat, NEW m, LooksBack(m), NEW t \in Int, NEW lag \in Nat
    PROVE  \A o \in Medium!LatestUsable(m, t, lag) \ Medium!None : o[2] \in Int /\ o[2] + lag <= t
<1> SUFFICES ASSUME NEW o \in Medium!LatestUsable(m, t, lag) \ Medium!None
             PROVE  o[2] \in Int /\ o[2] + lag <= t
  OBVIOUS
<1> DEFINE u == Medium!UpTo(m, t - lag)
<1>1. CASE u = {}
  BY <1>1 DEF Medium!LatestUsable
<1>2. CASE u # {}
  <2>1. o \in m[Medium!Max(u)]
    BY <1>2 DEF Medium!LatestUsable
  <2>2. Medium!Max(u) \in DOMAIN m /\ Medium!Max(u) <= t - lag
    BY <1>2, NewestIsUsable
  <2>3. Medium!Max(u) \in Nat
    BY <2>2 DEF LooksBack
  <2> HIDE DEF u
  <2>4. o[2] \in Int /\ o[2] <= Medium!Max(u)
    BY <2>1, <2>2 DEF LooksBack
  <2> QED BY <2>2, <2>3, <2>4
<1> QED BY <1>1, <1>2

(* The source series themselves look back.                                 *)
LEMMA RawLooksBack ==
    ASSUME MediumInv, NEW s \in Medium!Sources
    PROVE  LooksBack(Medium!Raw(s))
<1>1. seen[s] \subseteq 1..day
  BY DEF MediumInv
<1> QED BY <1>1 DEF Medium!Raw, LooksBack

(* A change since an older observation looks back.                         *)
LEMMA ChangeLooksBack ==
    ASSUME day \in Nat, NEW m, LooksBack(m), NEW days \in Nat
    PROVE  LooksBack(Medium!Change(m, days))
<1> DEFINE r == Medium!Change(m, days)
<1>1. DOMAIN r \subseteq DOMAIN m
  BY DEF Medium!Change
<1>2. ASSUME NEW d \in DOMAIN r, NEW o \in r[d] PROVE o[2] \in Int /\ o[2] <= d
  <2> DEFINE n == Medium!Max(Medium!UpTo(m, d - days))
  <2>1. Medium!UpTo(m, d - days) # {} /\ o \in m[d] \cup m[n] /\ d \in Nat /\ d \in DOMAIN m
    BY <1>1, <1>2 DEF Medium!Change, LooksBack
  <2>2. n \in DOMAIN m /\ n <= d - days
    BY <2>1, NewestIsUsable
  <2> HIDE DEF n
  <2>3. n \in Nat /\ n <= d
    BY <2>1, <2>2 DEF LooksBack
  <2>4. o[2] \in Int /\ (o[2] <= d \/ o[2] <= n)
    BY <2>1, <2>2 DEF LooksBack
  <2> QED BY <2>1, <2>3, <2>4
<1> QED BY <1>1, <1>2 DEF LooksBack

(* Everything a trailing window holds is as old as its last day.           *)
LEMMA WindowLooksBack ==
    ASSUME day \in Nat, NEW m, LooksBack(m), NEW last \in Int, NEW days
    PROVE  \A o \in Medium!OriginsOf(m, Medium!WindowEnding(m, last, days)) :
              o[2] \in Int /\ o[2] <= last
<1> SUFFICES ASSUME NEW o \in Medium!OriginsOf(m, Medium!WindowEnding(m, last, days))
             PROVE  o[2] \in Int /\ o[2] <= last
  OBVIOUS
<1>1. PICK d \in Medium!WindowEnding(m, last, days) : o \in m[d]
  BY DEF Medium!OriginsOf
<1>2. d \in DOMAIN m /\ d <= last /\ d \in Nat
  BY <1>1 DEF Medium!WindowEnding, LooksBack
<1>3. o[2] \in Int /\ o[2] <= d
  BY <1>1, <1>2 DEF LooksBack
<1> QED BY <1>2, <1>3

(* A value against the window before it, and a trailing sum or mean.       *)
LEMMA WindowsLookBack ==
    ASSUME day \in Nat, NEW m, LooksBack(m), NEW days, NEW least
    PROVE  /\ LooksBack(Medium!AgainstPast(m, days, least))
           /\ LooksBack(Medium!RollingSum(m, days))
           /\ LooksBack(Medium!RollingMean(m, days))
<1>0. DOMAIN m \subseteq Nat
  BY DEF LooksBack
<1>1. LooksBack(Medium!AgainstPast(m, days, least))
  <2> DEFINE r == Medium!AgainstPast(m, days, least)
             w(d) == Medium!OriginsOf(m, Medium!WindowEnding(m, d - 1, days))
  <2>1. DOMAIN r \subseteq DOMAIN m /\ \A d \in DOMAIN r : r[d] = m[d] \cup w(d)
    BY DEF Medium!AgainstPast
  <2>2. ASSUME NEW d \in DOMAIN m, NEW o \in w(d) PROVE o[2] \in Int /\ o[2] <= d
    <3>1. d \in Int /\ d - 1 \in Int
      BY <1>0
    <3>2. o[2] \in Int /\ o[2] <= d - 1
      BY <2>2, <3>1, WindowLooksBack
    <3> QED BY <3>1, <3>2
  <2> HIDE DEF r, w
  <2>3. LooksBack(r)
    BY <2>1, <2>2 DEF LooksBack
  <2> QED BY <2>3 DEF r
<1>2. \A d \in DOMAIN m : \A o \in Medium!OriginsOf(m, Medium!WindowEnding(m, d, days)) :
         o[2] \in Int /\ o[2] <= d
  BY <1>0, WindowLooksBack
<1>3. LooksBack(Medium!RollingSum(m, days))
  BY <1>2 DEF LooksBack, Medium!RollingSum
<1>4. LooksBack(Medium!RollingMean(m, days))
  BY <1>2 DEF LooksBack, Medium!RollingMean
<1> QED BY <1>1, <1>3, <1>4

(* The netflow class: both directions, over the newest market cap.         *)
LEMMA NetflowLooksBack ==
    ASSUME MediumInv, NEW m \in Medium!NetflowClass
    PROVE  LooksBack(m)
<1> USE PartsAssumption DEF Medium!PanelAssumption
<1> DEFINE both == seen["flow_in"] \cap seen["flow_out"]
           two == [d \in both |-> Medium!Raw("flow_in")[d] \cup Medium!Raw("flow_out")[d]]
           flow == Medium!RollingSum(two, ShortSpan)
           cap(d) == Medium!LatestUsable(Medium!Raw("level"), d, 0)
           scaled == [d \in {e \in both : cap(e) # Medium!None} |-> flow[d] \cup cap(d)]
<1>1. day \in Nat /\ both \subseteq 1..day
  BY DEF MediumInv, Medium!Sources
<1>2. LooksBack(Medium!Raw("level")) /\ LooksBack(Medium!Raw("flow_in")) /\ LooksBack(Medium!Raw("flow_out"))
  BY RawLooksBack DEF Medium!Sources
<1>3. LooksBack(two)
  <2>1. both \subseteq DOMAIN Medium!Raw("flow_in") /\ both \subseteq DOMAIN Medium!Raw("flow_out")
    BY DEF Medium!Raw
  <2>2. \A d \in both : \A o \in Medium!Raw("flow_in")[d] \cup Medium!Raw("flow_out")[d] :
           o[2] \in Int /\ o[2] <= d
    BY <1>2, <2>1 DEF LooksBack
  <2> HIDE DEF both
  <2> QED BY <1>1, <2>2 DEF LooksBack
<1>4. LooksBack(flow) /\ DOMAIN flow = both
  <2>1. LooksBack(flow)
    BY <1>1, <1>3, WindowsLookBack
  <2> QED BY <2>1 DEF Medium!RollingSum
<1>5. \A d \in both : cap(d) # Medium!None => \A o \in cap(d) : o[2] \in Int /\ o[2] <= d
  <2> SUFFICES ASSUME NEW d \in both, cap(d) # Medium!None, NEW o \in cap(d)
               PROVE  o[2] \in Int /\ o[2] <= d
    OBVIOUS
  <2> DEFINE raw == Medium!Raw("level")
             u == Medium!UpTo(raw, d - 0)
  <2>1. u # {} /\ o \in raw[Medium!Max(u)]
    BY DEF Medium!LatestUsable
  <2>2. Medium!Max(u) \in DOMAIN raw /\ Medium!Max(u) <= d - 0
    BY <1>1, <1>2, <2>1, NewestIsUsable
  <2>3. Medium!Max(u) \in Nat /\ d \in Nat
    BY <1>1, <1>2, <2>2 DEF LooksBack
  <2> HIDE DEF u, raw
  <2>4. o[2] \in Int /\ o[2] <= Medium!Max(u)
    BY <1>2, <2>1, <2>2 DEF LooksBack, raw
  <2> QED BY <2>2, <2>3, <2>4
<1>6. LooksBack(scaled)
  <2> HIDE DEF both, flow, cap
  <2> QED BY <1>1, <1>4, <1>5 DEF LooksBack
<1>7. LooksBack(Medium!Change(Medium!Raw("level"), LongSpan))
  BY <1>1, <1>2, ChangeLooksBack
<1>8. m = scaled \/ m = Medium!Change(Medium!Raw("level"), LongSpan)
  BY DEF Medium!NetflowClass
<1> HIDE DEF scaled
<1> QED BY <1>6, <1>7, <1>8

(* So does every feature of every class.                                   *)
LEMMA FeaturesLookBack ==
    ASSUME MediumInv, NEW k \in {"A", "B", "C", "D"}, NEW m \in Medium!Features(k)
    PROVE  LooksBack(m)
<1> USE PartsAssumption DEF Medium!PanelAssumption
<1> DEFINE raw == Medium!Raw("level")
<1>1. day \in Nat /\ LooksBack(raw)
  BY RawLooksBack DEF Medium!Sources, MediumInv
<1> HIDE DEF raw
<1>2. \A r : LooksBack(r) => /\ LooksBack(Medium!Change(r, ShortSpan))
                             /\ LooksBack(Medium!Change(r, LongSpan))
                             /\ LooksBack(Medium!AgainstPast(r, PastSpan, MinWindow))
                             /\ LooksBack(Medium!RollingSum(r, ShortSpan))
                             /\ LooksBack(Medium!RollingMean(r, ShortSpan))
  BY <1>1, ChangeLooksBack, WindowsLookBack
<1>3. CASE k = "A"
  <2>1. \/ m = Medium!Change(raw, ShortSpan) \/ m = Medium!Change(raw, LongSpan)
        \/ m = Medium!AgainstPast(Medium!Change(raw, ShortSpan), PastSpan, MinWindow)
    BY <1>3 DEF Medium!Features, Medium!StablecoinClass, raw
  <2> QED BY <1>1, <1>2, <2>1
<1>4. CASE k = "B"
  BY <1>4, NetflowLooksBack DEF Medium!Features
<1>5. CASE k = "C"
  <2>1. \/ m = Medium!RollingSum(raw, ShortSpan)
        \/ m = Medium!AgainstPast(Medium!RollingSum(raw, ShortSpan), PastSpan, MinWindow)
        \/ m = Medium!Change(Medium!RollingSum(raw, ShortSpan), LongSpan)
    BY <1>5 DEF Medium!Features, Medium!FundingClass, raw
  <2> QED BY <1>1, <1>2, <2>1
<1>6. CASE k = "D"
  <2>1. \/ m = Medium!RollingMean(raw, ShortSpan)
        \/ m = Medium!AgainstPast(Medium!RollingMean(raw, ShortSpan), PastSpan, MinWindow)
    BY <1>6 DEF Medium!Features, Medium!BasisClass, raw
  <2> QED BY <1>1, <1>2, <2>1
<1> QED BY <1>3, <1>4, <1>5, <1>6

(* Rows read what was out, labels resolved a horizon before they trained.  *)
LEMMA PanelIsPointInTime ==
    ASSUME MediumInv PROVE Medium!NothingUnpublished
<1> USE PartsAssumption DEF Medium!PanelAssumption
<1> SUFFICES ASSUME NEW t \in Medium!Weeks
             PROVE  /\ \A s \in Medium!TrainingRows(t) \cup {t}, k \in Medium!Parts :
                          \A m \in Medium!Features(k) : Medium!OwnLag(k, Medium!DayOf(s), m)
                    /\ \A o \in Medium!TrainedOn(t) :
                          o[2] + Medium!DayOf(horizon) <= Medium!DayOf(t)
  BY DEF Medium!NothingUnpublished
<1>1. Medium!Weeks \subseteq Nat /\ WeekDays \in Nat /\ horizon \in Nat
  BY DEF Medium!Weeks, MediumInv
<1>2. Medium!TrainingRows(t) \subseteq Medium!Weeks
  BY DEF Medium!TrainingRows, Medium!TrainIndices
<1>3. ASSUME NEW s \in Medium!TrainingRows(t) \cup {t}, NEW k \in Medium!Parts,
             NEW m \in Medium!Features(k)
      PROVE  Medium!OwnLag(k, Medium!DayOf(s), m)
  <2>1. k \in {"A", "B", "C", "D"} /\ Lags[k] \in Nat
    BY DEF Medium!Parts, MediumInv
  <2>2. LooksBack(m) /\ day \in Nat
    BY <2>1, FeaturesLookBack DEF MediumInv
  <2>3. Medium!DayOf(s) \in Int
    <3>1. s \in Nat
      BY <1>1, <1>2
    <3> QED BY <1>1, <3>1 DEF Medium!DayOf
  <2> QED BY <2>1, <2>2, <2>3, LatestIsOut DEF Medium!OwnLag
<1>4. ASSUME NEW o \in Medium!TrainedOn(t)
      PROVE  o[2] + Medium!DayOf(horizon) <= Medium!DayOf(t)
  <2>1. PICK s \in Medium!TrainingRows(t) : o \in Medium!Label(s)
    BY DEF Medium!TrainedOn
  <2>2. s \in Nat /\ t \in Nat /\ s + 2 * horizon <= t
    BY <1>1, <1>2, <2>1 DEF Medium!TrainingRows, Medium!TrainIndices
  <2>3. o[2] = s * WeekDays \/ o[2] = (s + horizon) * WeekDays
    BY <2>1 DEF Medium!Label, Medium!DayOf
  <2>4. (s + 2 * horizon) * WeekDays <= t * WeekDays
    BY ONLY <1>1, <2>2
  <2>5. /\ (s + 2 * horizon) * WeekDays = s * WeekDays + 2 * (horizon * WeekDays)
        /\ (s + horizon) * WeekDays = s * WeekDays + horizon * WeekDays
        /\ horizon * WeekDays \in Nat /\ s * WeekDays \in Nat /\ t * WeekDays \in Nat
    BY ONLY <1>1, <2>2
  <2> QED BY <2>3, <2>4, <2>5 DEF Medium!DayOf
<1> QED BY <1>3, <1>4

(* The panel's own step keeps the invariant.                               *)
LEMMA MediumStep ==
    ASSUME MediumInv, Medium!Next PROVE MediumInv'
<1>1. day' = day + 1 /\ class' = class /\ horizon' = horizon
  BY DEF Medium!Next, Medium!NextDay
<1>2. PICK S : seen' = [s \in Medium!Sources |-> seen[s] \cup IF s \in S THEN {day + 1} ELSE {}]
  BY DEF Medium!Next, Medium!NextDay
<1>3. day' \in Nat /\ 1..day \subseteq 1..day' /\ day + 1 \in 1..day'
  BY <1>1 DEF MediumInv
<1>4. seen' \in [Medium!Sources -> SUBSET (1..day')]
  BY <1>2, <1>3 DEF MediumInv
<1> QED BY <1>1, <1>3, <1>4 DEF MediumInv
-----------------------------------------------------------------------------
(* The open position's age bounds every run of open bars that ends now, and *)
(* the turns so far are accounted for.                                      *)
PairsInv ==
    /\ start \in Starts /\ held \in 0..(MaxHold - 1)
    /\ Len(z) \in Nat /\ z \in [1..Len(z) -> ZValues \cup {NaN}]
    /\ Len(pos) = Len(z) /\ pos \in [1..Len(z) -> {-1, 0, 1}]
    /\ \A i \in 1..Len(pos) : (\A k \in i..Len(pos) : pos[k] # 0) => Len(pos) - i <= held
    /\ Pairs!TradesAreBounded
    /\ Pairs!TurnsMatchTrades

(* One bar: a position is kept, closed or opened out of nothing, and one    *)
(* that is kept has not been held for MaxHold bars.                         *)
LEMMA OneBar ==
    ASSUME PairsInv, NEW zi, NEW s, s = Pairs!Step(Pairs!Current, held, zi)
    PROVE  /\ s.pos \in {-1, 0, 1} /\ s.held \in 0..(MaxHold - 1)
           /\ Pairs!Current # 0 /\ s.pos # 0 => s.pos = Pairs!Current /\ s.held = held + 1
           /\ Pairs!Current \in {-1, 0, 1}
           /\ Pairs!Current = IF Len(pos) = 0 THEN 0 ELSE pos[Len(pos)]
<1> USE PartsAssumption DEF Pairs!PairAssumption
<1>1. Pairs!Current = (IF Len(pos) = 0 THEN 0 ELSE pos[Len(pos)]) /\ Pairs!Current \in {-1, 0, 1}
  BY DEF PairsInv, Pairs!Current
<1>2. MaxHold \in Nat /\ MaxHold >= 1 /\ held \in Nat /\ held < MaxHold
  BY DEF PairsInv
<1> HIDE PartsAssumption
<1>3. Pairs!SignOf(zi) \in {-1, 0, 1}
  BY DEF Pairs!SignOf
<1>4. CASE s = [pos |-> 0, held |-> 0]
  BY <1>1, <1>2, <1>4
<1>5. CASE Pairs!Current = 0 /\ s = [pos |-> Pairs!SignOf(zi), held |-> 0]
  BY <1>1, <1>2, <1>3, <1>5
<1>6. CASE s = [pos |-> Pairs!Current, held |-> held + 1] /\ held + 1 < MaxHold
  BY <1>1, <1>2, <1>6
<1>7. \/ s = [pos |-> 0, held |-> 0]
      \/ Pairs!Current = 0 /\ s = [pos |-> Pairs!SignOf(zi), held |-> 0]
      \/ s = [pos |-> Pairs!Current, held |-> held + 1] /\ held + 1 < MaxHold
  BY <1>2 DEF Pairs!Step
<1> QED BY <1>4, <1>5, <1>6, <1>7

(* The turns of the score are the sum of each bar's turn.                   *)
LEMMA TurnsAreSum ==
    /\ Pairs!Turns = SumOver(Pairs!Turn, Pairs!ScoredBars)
    /\ Pairs!Turns' = SumOver(Pairs!Turn', Pairs!ScoredBars')
BY DEF Pairs!Turns, Pairs!MapThenSumSet, Pairs!MapThenFoldSet, Pick, SumTable, SumOver

(* What a bar adds to the score is the bar before it.                       *)
LEMMA ScoreGrows ==
    ASSUME PairsInv, Pairs!Next, NEW n, n = Len(z), n >= start
    PROVE  /\ Pairs!Turns' = Pairs!Turns + (IF pos[n] > Pairs!Before(n) THEN pos[n] - Pairs!Before(n)
                                                                      ELSE Pairs!Before(n) - pos[n])
           /\ Pairs!Opened' = Pairs!Opened + (IF pos[n] # 0 /\ Pairs!Before(n) = 0 THEN 1 ELSE 0)
           /\ Pairs!Turns \in Int /\ Pairs!Opened \in Nat
<1> USE PartsAssumption DEF Pairs!PairAssumption
<1>0. PICK st : st = start
  OBVIOUS
<1> DEFINE old == st..(n - 1)
           new == st..n
<1>1. n \in Nat /\ st \in Nat /\ st >= 1 /\ n >= st /\ start = st /\ start' = st
  BY <1>0 DEF PairsInv, Pairs!Next, Pairs!Bar
<1>2. /\ Len(z') = n + 1
      /\ \A i \in 1..n : pos'[i] = pos[i] /\ pos[i] \in {-1, 0, 1}
  <2>0. PICK zi \in ZValues \cup {NaN} : \E s :
         /\ s = Pairs!Step(Pairs!Current, held, zi)
         /\ z' = Append(z, zi) /\ pos' = Append(pos, s.pos)
    BY DEF Pairs!Next, Pairs!Bar
  <2>1. PICK s : /\ s = Pairs!Step(Pairs!Current, held, zi)
                 /\ z' = Append(z, zi) /\ pos' = Append(pos, s.pos)
    BY <2>0
  <2>2. s.pos \in {-1, 0, 1}
    BY <2>1, OneBar
  <2>3. z \in [1..n -> ZValues \cup {NaN}] /\ pos \in [1..n -> {-1, 0, 1}]
    BY DEF PairsInv
  <2>4. Append(z, zi) \in [1..n + 1 -> ZValues \cup {NaN}]
    BY <1>1, <2>3, Appending
  <2>5. \A i \in 1..n : Append(pos, s.pos)[i] = pos[i]
    BY <1>1, <2>2, <2>3, Appending
  <2>6. \A i \in 1..n : pos[i] \in {-1, 0, 1}
    BY <2>3
  <2>7. Len(z') = n + 1
    BY <1>1, <2>1, <2>4
  <2> QED BY <2>1, <2>5, <2>6, <2>7
<1> HIDE PartsAssumption
<1>5. \A i \in 1..n : Pairs!Before(i)' = Pairs!Before(i) /\ Pairs!Before(i) \in {-1, 0, 1}
  BY <1>1, <1>2 DEF Pairs!Before
<1>6. /\ Pairs!ScoredBars = old /\ Pairs!ScoredBars' = new /\ new = old \cup {n}
      /\ n \notin old /\ old = new \ {n} /\ old \subseteq 1..n /\ new \subseteq 1..n
  BY <1>1, <1>2 DEF Pairs!ScoredBars
<1>7. IsFiniteSet(old) /\ IsFiniteSet(new)
  BY <1>1, FS_Interval
<1> HIDE DEF old, new
<1>8. Pairs!Turns' = Pairs!Turns + (IF pos[n] > Pairs!Before(n) THEN pos[n] - Pairs!Before(n)
                                                            ELSE Pairs!Before(n) - pos[n])
      /\ Pairs!Turns \in Int
  <2> DEFINE turn(i) == IF pos[i] > Pairs!Before(i) THEN pos[i] - Pairs!Before(i) ELSE Pairs!Before(i) - pos[i]
  <2>1. PICK F : F = [i \in old |-> turn(i)]
    OBVIOUS
  <2>2. PICK G : G = [i \in new |-> turn(i)]
    OBVIOUS
  <2>3. Pairs!Turn = F
    BY <1>6, <2>1 DEF Pairs!Turn
  <2>4. Pairs!Turn' = G
    <3>1. \A i \in new : pos'[i] = pos[i] /\ Pairs!Before(i)' = Pairs!Before(i)
      BY <1>2, <1>5, <1>6
    <3> QED BY <1>6, <2>2, <3>1 DEF Pairs!Turn
  <2>5. \A i \in new : turn(i) \in Int
    BY <1>2, <1>5, <1>6
  <2>6. n \in new
    BY <1>6
  <2> HIDE DEF turn
  <2>7. /\ \A i \in new : G[i] \in Int
        /\ \A i \in old : F[i] = G[i]
        /\ \A i \in old : F[i] \in Int
        /\ G[n] = turn(n) /\ turn(n) \in Int
    BY <1>6, <2>1, <2>2, <2>5, <2>6
  <2>8. SumOver(G, new) = G[n] + SumOver(G, new \ {n})
    BY <1>7, <2>6, <2>7, SumRemove
  <2>9. SumOver(F, old) = SumOver(G, old)
    BY <1>7, <2>7, SumAgrees
  <2>10. SumOver(F, old) \in Int
    BY <1>7, <2>7, SumType
  <2>11. Pairs!Turns = SumOver(F, old) /\ Pairs!Turns' = SumOver(G, new)
    BY <1>6, <2>3, <2>4, TurnsAreSum
  <2>12. new \ {n} = old
    BY <1>6
  <2>13. Pairs!Turns' = Pairs!Turns + turn(n) /\ Pairs!Turns \in Int
    <3>1. PICK x, y, t : x = SumOver(F, old) /\ y = SumOver(G, new) /\ t = turn(n)
      OBVIOUS
    <3>2. y = t + x /\ x \in Int /\ t \in Int
      BY <2>7, <2>8, <2>9, <2>10, <2>12, <3>1
    <3> QED BY <2>11, <3>1, <3>2
  <2> QED BY <2>13 DEF turn
<1>9. /\ Pairs!Opened' = Pairs!Opened + (IF pos[n] # 0 /\ Pairs!Before(n) = 0 THEN 1 ELSE 0)
      /\ Pairs!Opened \in Nat
  <2>1. PICK A : A = {i \in old : pos[i] # 0 /\ Pairs!Before(i) = 0}
    OBVIOUS
  <2>2. PICK B : B = {i \in new : pos[i] # 0 /\ Pairs!Before(i) = 0}
    OBVIOUS
  <2>3. Pairs!Opened = Cardinality(A)
    BY <1>6, <2>1 DEF Pairs!Opened, Pairs!Cardinality, Cardinality, Pairs!IsFiniteSet, IsFiniteSet
  <2>4. Pairs!Opened' = Cardinality(B)
    <3>1. \A i \in new : pos'[i] = pos[i] /\ Pairs!Before(i)' = Pairs!Before(i)
      BY <1>2, <1>5, <1>6
    <3>2. B = {i \in Pairs!ScoredBars' : pos'[i] # 0 /\ Pairs!Before(i)' = 0}
      BY <1>6, <2>2, <3>1
    <3> QED BY <3>2 DEF Pairs!Opened, Pairs!Cardinality, Cardinality, Pairs!IsFiniteSet, IsFiniteSet
  <2>5. B = (IF pos[n] # 0 /\ Pairs!Before(n) = 0 THEN A \cup {n} ELSE A) /\ n \notin A /\ A \subseteq old
    BY <1>6, <2>1, <2>2
  <2>6. IsFiniteSet(A)
    BY <1>7, <2>5, FS_Subset
  <2>7. Cardinality(A) \in Nat /\ Cardinality(A \cup {n}) = Cardinality(A) + 1
    BY <2>5, <2>6, FS_CardinalityType, FS_AddElement
  <2> QED BY <2>3, <2>4, <2>5, <2>7
<1> QED BY <1>8, <1>9

(* At the first scored bar nothing is charged yet.                          *)
LEMMA ScoreStarts ==
    ASSUME PairsInv, Len(z) <= start
    PROVE  Pairs!Turns = 0 /\ Pairs!Opened = 0
<1> USE PartsAssumption DEF Pairs!PairAssumption
<1>1. Pairs!ScoredBars = {}
  BY DEF PairsInv, Pairs!ScoredBars
<1>2. Pairs!Turns = 0
  BY <1>1, TurnsAreSum, SumOfNothing
<1>3. {i \in Pairs!ScoredBars : pos[i] # 0 /\ Pairs!Before(i) = 0} = {}
  BY <1>1
<1>4. Pairs!Opened = Cardinality({})
  BY <1>3 DEF Pairs!Opened, Pairs!Cardinality, Cardinality, Pairs!IsFiniteSet, IsFiniteSet
<1> QED BY <1>2, <1>4, FS_EmptySet

(* One bar keeps the invariant.                                             *)
LEMMA PairsStep ==
    ASSUME PairsInv, Pairs!Next PROVE PairsInv'
<1> USE PartsAssumption DEF Pairs!PairAssumption
<1>0. PICK n, st : n = Len(z) /\ st = start
  OBVIOUS
<1>1. n \in Nat /\ st \in Starts /\ st \in Nat /\ st >= 1 /\ start' = st /\ MaxHold \in Nat /\ MaxHold >= 1
  BY <1>0 DEF PairsInv, Pairs!Next, Pairs!Bar
<1>b. PICK zi \in ZValues \cup {NaN} : \E s :
         /\ s = Pairs!Step(Pairs!Current, held, zi)
         /\ z' = Append(z, zi) /\ pos' = Append(pos, s.pos) /\ held' = s.held
  BY DEF Pairs!Next, Pairs!Bar
<1>2. PICK s : /\ s = Pairs!Step(Pairs!Current, held, zi)
               /\ z' = Append(z, zi) /\ pos' = Append(pos, s.pos) /\ held' = s.held
  BY <1>b
<1>3. /\ z \in [1..n -> ZValues \cup {NaN}] /\ pos \in [1..n -> {-1, 0, 1}]
      /\ Len(pos) = n /\ held \in Nat /\ DOMAIN pos = 1..n
  BY <1>0, <1>1 DEF PairsInv
<1>4. /\ s.pos \in {-1, 0, 1} /\ s.held \in 0..(MaxHold - 1)
      /\ Pairs!Current # 0 /\ s.pos # 0 => s.pos = Pairs!Current /\ s.held = held + 1
      /\ n > 0 => Pairs!Current = pos[n]
  BY <1>2, <1>3, OneBar
<1> HIDE PartsAssumption
<1>5. /\ Len(z') = n + 1 /\ z' \in [1..n + 1 -> ZValues \cup {NaN}]
      /\ Len(pos') = n + 1 /\ pos' \in [1..n + 1 -> {-1, 0, 1}] /\ DOMAIN pos' = 1..n + 1
  <2>1. z' \in [1..n + 1 -> ZValues \cup {NaN}]
    BY <1>1, <1>2, <1>3, Appending
  <2>2. pos' \in [1..n + 1 -> {-1, 0, 1}]
    BY <1>1, <1>2, <1>3, <1>4, Appending
  <2> QED BY <1>1, <2>1, <2>2
<1>6. pos'[n + 1] = s.pos /\ \A i \in 1..n : pos'[i] = pos[i]
  BY <1>1, <1>2, <1>3, <1>4, Appending
<1>7. \A i \in 1..n + 1 : Pairs!Before(i)' = Pairs!Before(i)
  BY <1>1, <1>6 DEF Pairs!Before
<1>8. \A i \in 1..n + 1 : (\A k \in i..n + 1 : pos'[k] # 0) => n + 1 - i <= held'
  <2> SUFFICES ASSUME NEW i \in 1..n + 1, \A k \in i..n + 1 : pos'[k] # 0
               PROVE  n + 1 - i <= held'
    OBVIOUS
  <2>1. CASE i = n + 1
    BY <1>1, <1>2, <1>4, <2>1
  <2>2. CASE i \in 1..n
    <3>1. \A k \in i..n : pos[k] # 0
      BY <1>1, <1>6, <2>2
    <3>2. n - i <= held
      BY <1>1, <1>3, <2>2, <3>1 DEF PairsInv
    <3>3. s.pos # 0 /\ n > 0 /\ pos[n] # 0
      BY <1>1, <1>6, <2>2, <3>1
    <3>4. held' = held + 1
      BY <1>2, <1>4, <3>3
    <3> QED BY ONLY <1>1, <1>3, <2>2, <3>2, <3>4
  <2> QED BY <1>1, <2>1, <2>2
<1>9. \A i \in 1..n + 1 : pos'[i] * Pairs!Before(i)' >= 0
  <2>1. \A i \in 1..n : pos[i] * Pairs!Before(i) >= 0
    BY <1>3 DEF PairsInv, Pairs!TradesAreBounded
  <2>2. pos'[n + 1] * Pairs!Before(n + 1) >= 0
    <3>1. CASE n = 0
      BY <1>4, <1>6, <3>1 DEF Pairs!Before
    <3>2. CASE n > 0
      <4>1. Pairs!Before(n + 1) = pos[n] /\ pos[n] \in {-1, 0, 1} /\ Pairs!Current = pos[n]
        BY <1>1, <1>3, <1>4, <3>2 DEF Pairs!Before
      <4>2. pos[n] = 0 \/ s.pos = 0 \/ s.pos = pos[n]
        BY <1>4, <4>1
      <4>3. pos'[n + 1] = s.pos /\ s.pos \in {-1, 0, 1}
        BY <1>4, <1>6
      <4> QED BY ONLY <4>1, <4>2, <4>3
    <3> QED BY <1>1, <3>1, <3>2
  <2>3. \A i \in 1..n + 1 : i \in 1..n \/ i = n + 1
    BY <1>1
  <2>4. \A i \in 1..n : i \in 1..n + 1
    BY <1>1
  <2> QED BY <1>6, <1>7, <2>1, <2>2, <2>3, <2>4
<1>10. \A i, j \in 1..n + 1 : (\A k \in i..j : pos'[k] # 0) => j - i < MaxHold
  <2> SUFFICES ASSUME NEW i \in 1..n + 1, NEW j \in 1..n + 1, \A k \in i..j : pos'[k] # 0
               PROVE  j - i < MaxHold
    OBVIOUS
  <2>1. CASE j = n + 1
    <3>1. n + 1 - i <= held'
      BY <1>8, <2>1
    <3> QED BY <1>1, <1>2, <1>4, <2>1, <3>1
  <2>2. CASE j \in 1..n /\ i \in 1..n
    <3>1. \A k \in i..j : pos[k] # 0
      BY <1>1, <1>6, <2>2
    <3> QED BY <1>3, <2>2, <3>1 DEF PairsInv, Pairs!TradesAreBounded, Pairs!Open
  <2>3. CASE j \in 1..n /\ i = n + 1
    BY <1>1, <2>3
  <2> QED BY <1>1, <2>1, <2>2, <2>3
<1>11. n + 1 > st => Pairs!Turns' = 2 * Pairs!Opened' - (IF pos'[n] # 0 THEN 1 ELSE 0)
                                                + (IF Pairs!Before(st)' # 0 THEN 1 ELSE 0)
  <2> SUFFICES ASSUME n + 1 > st
               PROVE  Pairs!Turns' = 2 * Pairs!Opened' - (IF pos'[n] # 0 THEN 1 ELSE 0)
                                                     + (IF Pairs!Before(st)' # 0 THEN 1 ELSE 0)
    OBVIOUS
  <2>1. n >= st /\ st \in 1..n /\ n \in 1..n /\ n \in 1..n + 1 /\ st \in 1..n + 1
    BY <1>1
  <2>2. PICK bn, bs : bn = Pairs!Before(n) /\ bs = Pairs!Before(st)
    OBVIOUS
  <2>3. /\ Pairs!Turns' = Pairs!Turns + (IF pos[n] > bn THEN pos[n] - bn ELSE bn - pos[n])
        /\ Pairs!Opened' = Pairs!Opened + (IF pos[n] # 0 /\ bn = 0 THEN 1 ELSE 0)
        /\ Pairs!Turns \in Int /\ Pairs!Opened \in Nat
    <3>1. n >= start
      BY <1>0, <2>1
    <3> QED BY <1>0, <2>2, <3>1, ScoreGrows
  <2>4. pos'[n] = pos[n] /\ pos[n] \in {-1, 0, 1} /\ Pairs!Before(st)' = bs
    BY <1>3, <1>6, <1>7, <2>1, <2>2
  <2>5. bn \in {-1, 0, 1}
    BY <1>1, <1>3, <2>1, <2>2 DEF Pairs!Before
  <2>6. pos[n] * bn >= 0
    BY <1>3, <2>1, <2>2 DEF PairsInv, Pairs!TradesAreBounded
  <2>7. pos[n] = 0 \/ bn = 0 \/ pos[n] = bn
    BY ONLY <2>4, <2>5, <2>6
  <2>8. CASE n = st
    <3>1. Pairs!Turns = 0 /\ Pairs!Opened = 0
      BY <1>0, <1>1, <2>8, ScoreStarts
    <3>2. bs = bn
      BY <2>2, <2>8
    <3> QED BY ONLY <2>3, <2>4, <2>5, <2>7, <3>1, <3>2
  <2>9. CASE n > st
    <3>1. bn = pos[n - 1]
      BY <1>1, <2>2, <2>9 DEF Pairs!Before
    <3>2. Pairs!Turns = 2 * Pairs!Opened - (IF pos[n - 1] # 0 THEN 1 ELSE 0)
                                         + (IF bs # 0 THEN 1 ELSE 0)
      BY <1>0, <2>2, <2>9 DEF PairsInv, Pairs!TurnsMatchTrades, Pairs!RunPair
    <3> QED BY ONLY <2>3, <2>4, <2>5, <2>7, <3>1, <3>2
  <2> QED BY <1>1, <2>1, <2>8, <2>9
<1>12. held' \in 0..(MaxHold - 1) /\ n + 1 \in Nat
  BY <1>1, <1>2, <1>4
<1>13. Pairs!TradesAreBounded'
  BY <1>5, <1>9, <1>10 DEF Pairs!TradesAreBounded, Pairs!Open
<1>14. Pairs!TurnsMatchTrades'
  <2>1. Len(z') - 1 = n /\ start' = st
    BY <1>1, <1>5
  <2> QED BY <1>1, <1>5, <1>11, <2>1 DEF Pairs!TurnsMatchTrades, Pairs!RunPair
<1>15. (\A i \in 1..Len(pos) : (\A k \in i..Len(pos) : pos[k] # 0) => Len(pos) - i <= held)'
  <2>1. Len(pos') = n + 1
    BY <1>5
  <2>2. PICK m : m = Len(pos')
    OBVIOUS
  <2>3. m = n + 1
    BY <2>1, <2>2
  <2>4. \A i \in 1..m : (\A k \in i..m : pos'[k] # 0) => m - i <= held'
    <3> SUFFICES ASSUME NEW i \in 1..m, \A k \in i..m : pos'[k] # 0 PROVE m - i <= held'
      OBVIOUS
    <3>1. i \in 1..n + 1 /\ \A k \in i..n + 1 : pos'[k] # 0
      BY <2>3
    <3>2. n + 1 - i <= held'
      BY <1>8, <3>1
    <3>3. n \in Nat /\ i \in Int /\ held' \in Int
      BY <1>1, <1>12, <2>3
    <3> QED BY ONLY <2>3, <3>2, <3>3
  <2> QED BY ONLY <2>2, <2>4
<1> QED
  BY <1>1, <1>5, <1>12, <1>13, <1>14, <1>15 DEF PairsInv
-----------------------------------------------------------------------------
(* Rows have their types; a time never runs back along a sequence of them. *)
Row == [ts : Nat, valid : BOOLEAN, resolved : BOOLEAN, up : BOOLEAN]
Rows(s, n) == n \in Nat /\ Len(s) = n /\ s \in [1..n -> Row]
Sorted(s, n) == \A i, j \in 1..n : i <= j => s[i].ts <= s[j].ts

(* A prediction comes from the model of one fold that has run, on that     *)
(* fold's test rows.                                                       *)
FromItsFold(i) == \E k \in 1..(fold - 1) : i \in Folds!Test(k) /\ model[i] = Folds!Train(k)
FoldsInv ==
    /\ split \in FoldPlans
    /\ Rows(rows, Len(rows)) /\ Sorted(rows, Len(rows))
    /\ stage \in {"writing", "folding", "done"}
    /\ fold \in Nat /\ fold >= 1
    /\ stage = "writing" => fold = 1
    /\ stage # "writing" =>
          /\ Rows(data, Len(data)) /\ Len(data) > 0 /\ Sorted(data, Len(data))
          /\ \A i \in 1..Len(data) : model[i] # Folds!None => FromItsFold(i)
          /\ fold > 1 => Folds!HasFold(fold - 1)
    /\ stage = "done" => ~Folds!HasFold(fold)

(* As many equal parts as were asked for fit into the whole.               *)
LEMMA QuotientFits ==
    ASSUME NEW n \in Nat, NEW s \in Nat, s >= 1
    PROVE  n \div s \in Nat /\ s * (n \div s) <= n
<1>1. n \div s \in Nat
  OBVIOUS
<1>2. s * (n \div s) <= n
  OBVIOUS
<1> QED BY <1>1, <1>2

(* The part counts as the library does.                                    *)
LEMMA SameCardinality == \A S : Folds!Cardinality(S) = Cardinality(S)
BY DEF Folds!Cardinality, Cardinality, Folds!IsFiniteSet, IsFiniteSet

(* The rows of some places, in order, are as many rows and sorted.         *)
LEMMA InOrderSorted ==
    ASSUME NEW n, Rows(rows, n), Sorted(rows, n), NEW S, S \subseteq 1..n, NEW c, c = Cardinality(S)
    PROVE  /\ Rows(Folds!InOrder(S), c) /\ Sorted(Folds!InOrder(S), c)
           /\ c = Folds!Cardinality(S)
<1> DEFINE upto(i) == {j \in S : j <= i}
           rank(i) == Cardinality(upto(i))
           at(k) == CHOOSE i \in S : rank(i) = k
           place == [i \in S |-> rank(i)]
<1>1. n \in Nat /\ S \subseteq Nat
  BY DEF Rows
<1>2. IsFiniteSet(S) /\ c \in Nat
  <2>1. IsFiniteSet(1..n)
    BY <1>1, FS_Interval
  <2>2. IsFiniteSet(S)
    BY <2>1, FS_Subset
  <2> QED BY <2>2, FS_CardinalityType
<1>3. ASSUME NEW i \in S PROVE IsFiniteSet(upto(i)) /\ rank(i) \in 1..c
  <2>1. upto(i) \subseteq S /\ i \in upto(i)
    BY <1>1
  <2> HIDE DEF upto
  <2>2. IsFiniteSet(upto(i)) /\ Cardinality(upto(i)) \in Nat /\ Cardinality(upto(i)) <= c
    BY <1>2, <2>1, FS_Subset, FS_CardinalityType
  <2>3. Cardinality(upto(i)) # 0
    BY <2>1, <2>2, FS_EmptySet
  <2> QED BY <1>2, <2>2, <2>3
<1>4. ASSUME NEW i \in S, NEW j \in S, i < j PROVE rank(i) < rank(j)
  <2>0. i \in Nat /\ j \in Nat
    BY <1>1
  <2>a. j \in upto(j) /\ j \notin upto(i)
    BY <1>4, <2>0
  <2>b. \A x \in S : x \in Nat
    BY <1>1
  <2>c. upto(i) \subseteq upto(j)
    <3> SUFFICES ASSUME NEW x \in S, x <= i PROVE x <= j
      OBVIOUS
    <3> QED BY <1>4, <2>0, <2>b
  <2>1. upto(i) \subseteq upto(j) /\ j \in upto(j) /\ j \notin upto(i)
    BY <2>a, <2>c
  <2>2. IsFiniteSet(upto(i)) /\ IsFiniteSet(upto(j)) /\ rank(i) \in Nat /\ rank(j) \in Nat
    BY <1>3
  <2> HIDE DEF upto
  <2>3. rank(i) <= rank(j) /\ (rank(i) = rank(j) => upto(i) = upto(j))
    BY <2>1, <2>2, FS_Subset
  <2> QED BY <2>1, <2>2, <2>3
<1>5. \A i, j \in S : rank(i) = rank(j) => i = j
  <2> SUFFICES ASSUME NEW i \in S, NEW j \in S, i # j PROVE rank(i) # rank(j)
    OBVIOUS
  <2>1. i < j \/ j < i
    BY <1>1
  <2>2. rank(i) \in Nat /\ rank(j) \in Nat
    BY <1>3
  <2> HIDE DEF rank
  <2> QED BY <1>4, <2>1, <2>2
<1> HIDE DEF rank
<1>6. place \in Injection(S, 1..c)
  <2>1. place \in [S -> 1..c]
    BY <1>3
  <2> QED BY <1>5, <2>1 DEF Injection, IsInjective
<1>7. \A k \in 1..c : \E i \in S : rank(i) = k
  <2>1. IsFiniteSet(1..c) /\ Cardinality(1..c) = c
    BY <1>2, FS_Interval
  <2>2. place \in Surjection(S, 1..c)
    BY <1>2, <1>6, <2>1, FS_Injection
  <2> QED BY <2>2 DEF Surjection
<1>8. \A k \in 1..c : at(k) \in S /\ rank(at(k)) = k
  BY <1>7
<1> HIDE DEF at
<1>9. Folds!InOrder(S) = [k \in 1..c |-> rows[at(k)]] /\ c = Folds!Cardinality(S)
  <2>1. Folds!InOrder(S) = [k \in 1..Cardinality(S) |-> rows[at(k)]]
    BY DEF Folds!InOrder, at, rank, Folds!Cardinality, Cardinality, Folds!IsFiniteSet, IsFiniteSet
  <2> QED BY <2>1, SameCardinality
<1>10. PICK s : s = [k \in 1..c |-> rows[at(k)]]
  OBVIOUS
<1>11. \A k \in 1..c : s[k] = rows[at(k)] /\ at(k) \in 1..n
  BY <1>8, <1>10
<1>12. s \in [1..c -> Row]
  <2>1. \A k \in 1..c : s[k] \in Row
    BY <1>11 DEF Rows
  <2> QED BY <1>10, <2>1
<1>13. Rows(s, c)
  BY <1>2, <1>12 DEF Rows
<1>14. ASSUME NEW k \in 1..c, NEW l \in 1..c, k <= l PROVE s[k].ts <= s[l].ts
  <2>1. at(k) \in S /\ at(l) \in S /\ rank(at(k)) = k /\ rank(at(l)) = l /\ at(k) \in Nat /\ at(l) \in Nat
    BY <1>1, <1>8
  <2>2. at(k) <= at(l)
    <3>1. SUFFICES ASSUME at(l) < at(k) PROVE FALSE
      BY <2>1
    <3>2. rank(at(l)) < rank(at(k))
      BY <1>4, <2>1, <3>1
    <3> QED BY <1>14, <2>1, <3>2
  <2> QED BY <1>11, <2>2 DEF Sorted
<1> QED BY <1>9, <1>10, <1>13, <1>14 DEF Sorted

(* What the purge, or the walk forward, leaves to train on is apart in     *)
(* time from every row of the test.                                        *)
LEMMA TrainedApart ==
    ASSUME FoldsInv, stage # "writing", NEW k \in Nat, k >= 1,
           split.kind = "kfold" => k <= split.splits,
           NEW i \in Folds!Indices, i \in Folds!Test(k), NEW j \in Folds!Train(k)
    PROVE  /\ Folds!LabelWindow(i) \cap Folds!LabelWindow(j) = {}
           /\ Folds!Ts[j] > Folds!Ts[i] => Folds!Ts[j] > Folds!Ts[i] + split.horizon + split.embargo
<1> DEFINE n == Len(data)
           h == split.horizon
           e == split.embargo
<1>1. /\ h \in Nat /\ e \in Nat
      /\ split.kind = "kfold" => split.splits \in Nat /\ split.splits >= 1
      /\ split.kind # "kfold" => split.train \in Nat /\ split.test \in Nat
  BY PartsAssumption DEF Folds!SplitAssumption, FoldsInv
<1>2. /\ n \in Nat /\ Folds!Indices = 1..n /\ \A x \in 1..n : Folds!Ts[x] = data[x].ts /\ data[x].ts \in Nat
      /\ \A x, y \in 1..n : x <= y => Folds!Ts[x] <= Folds!Ts[y]
  BY DEF FoldsInv, Rows, Sorted, Row, Folds!Indices, Folds!Ts
<1>3. j \in 1..n /\ i \in 1..n
  BY <1>2 DEF Folds!Train, Folds!Purged, Folds!ForwardTrain
<1>4. PICK a, b : a = Folds!Ts[i] /\ b = Folds!Ts[j] /\ a \in Nat /\ b \in Nat
  BY <1>2, <1>3
<1>5. b + h < a \/ b > a + h + e
  <2>1. CASE split.kind = "kfold"
    <3> DEFINE lo == (k - 1) * Folds!FoldSize + 1
               hi == IF k = split.splits THEN n ELSE k * Folds!FoldSize
    <3>1. i \in lo..hi /\ j \in Folds!Purged(k)
      BY <2>1 DEF Folds!Test, Folds!Train, Folds!TestBlock
    <3>2. Folds!FoldSize \in Nat /\ split.splits * Folds!FoldSize <= n
      BY <1>1, <1>2, <2>1, QuotientFits DEF Folds!FoldSize
    <3>3. lo \in Nat /\ lo >= 1 /\ hi \in Nat /\ hi <= n
      <4>1. (k - 1) * Folds!FoldSize \in Nat /\ k * Folds!FoldSize \in Nat
        BY <3>2
      <4>2. k <= split.splits /\ split.splits \in Nat
        BY <1>1, <2>1
      <4>3. k * Folds!FoldSize <= split.splits * Folds!FoldSize
        BY ONLY <3>2, <4>2, k \in Nat
      <4> QED BY <1>2, <3>2, <4>1, <4>2, <4>3
    <3>4. lo \in 1..n /\ hi \in 1..n /\ lo <= i /\ i <= hi
      BY <1>2, <1>3, <3>1, <3>3
    <3>5. Folds!TestBlock(k) = lo..hi
      BY DEF Folds!TestBlock
    <3> HIDE DEF lo, hi
    <3>6. Folds!Min(lo..hi) = lo /\ Folds!Max(lo..hi) = hi
      <4>1. lo \in lo..hi /\ \A x \in lo..hi : lo <= x
        BY <1>2, <3>4
      <4>2. hi \in lo..hi /\ \A x \in lo..hi : hi >= x
        BY <1>2, <3>4
      <4>3. \A x \in lo..hi : x \in Int
        OBVIOUS
      <4>4. Folds!Min(lo..hi) \in lo..hi /\ \A y \in lo..hi : Folds!Min(lo..hi) <= y
        BY <4>1 DEF Folds!Min
      <4>5. Folds!Max(lo..hi) \in lo..hi /\ \A y \in lo..hi : Folds!Max(lo..hi) >= y
        BY <4>2 DEF Folds!Max
      <4> QED BY <4>1, <4>2, <4>3, <4>4, <4>5
    <3>7. b + h < Folds!Ts[lo] \/ b > Folds!Ts[hi] + h + e
      BY <1>4, <3>1, <3>5, <3>6 DEF Folds!Purged
    <3>8. Folds!Ts[lo] <= a /\ a <= Folds!Ts[hi] /\ Folds!Ts[lo] \in Nat /\ Folds!Ts[hi] \in Nat
      BY <1>2, <1>3, <1>4, <3>4
    <3> QED BY <1>1, <1>4, <3>7, <3>8
  <2>2. CASE split.kind # "kfold"
    <3>1. b + h < Folds!TrainEnd(k) /\ Folds!TrainEnd(k) <= a
      BY <1>4, <2>2 DEF Folds!Test, Folds!Train, Folds!ForwardTest, Folds!ForwardTrain
    <3>2. Folds!TrainEnd(k) \in Int
      <4>1. Folds!Ts[1] \in Nat /\ split.train \in Nat /\ split.test \in Nat
        BY <1>1, <1>2, <1>3, <2>2
      <4>2. (k - 1) * split.test \in Int
        BY <4>1
      <4> QED BY <4>1, <4>2 DEF Folds!TrainEnd, Folds!WindowStart
    <3> QED BY <1>1, <1>4, <3>1, <3>2
  <2> QED BY <2>1, <2>2
<1>6. Folds!LabelWindow(i) = a..(a + h) /\ Folds!LabelWindow(j) = b..(b + h)
  BY <1>4 DEF Folds!LabelWindow
<1>7. (a..(a + h)) \cap (b..(b + h)) = {}
  BY <1>1, <1>4, <1>5
<1> QED BY <1>1, <1>4, <1>5, <1>6, <1>7

(* The folds that have run are folds the plan has.                         *)
LEMMA FoldsThatRan ==
    ASSUME FoldsInv, stage # "writing", split.kind = "kfold"
    PROVE  /\ fold <= split.splits + 1
           /\ stage = "done" => fold = split.splits + 1
<1>1. split.splits \in Nat /\ split.splits >= 1 /\ fold \in Nat /\ fold >= 1
  BY PartsAssumption DEF Folds!SplitAssumption, FoldsInv
<1>2. fold > 1 => fold - 1 <= split.splits
  BY DEF FoldsInv, Folds!HasFold
<1>3. stage = "done" => ~(fold <= split.splits)
  BY DEF FoldsInv, Folds!HasFold
<1> QED BY <1>1, <1>2, <1>3

(* The k-fold blocks do not overlap and leave nothing out.                 *)
LEMMA BlocksCover ==
    ASSUME FoldsInv, stage # "writing", split.kind = "kfold", NEW i \in 1..Len(data)
    PROVE  /\ \A k, l \in 1..split.splits : i \in Folds!TestBlock(k) /\ i \in Folds!TestBlock(l) => k = l
           /\ \E k \in 1..split.splits : i \in Folds!TestBlock(k)
<1>1. PICK n, m, f : n = Len(data) /\ m = split.splits /\ f = Folds!FoldSize
  OBVIOUS
<1>2. n \in Nat /\ m \in Nat /\ m >= 1 /\ f \in Nat /\ i \in 1..n
  <2>1. n \in Nat /\ m \in Nat /\ m >= 1
    BY <1>1, PartsAssumption DEF Folds!SplitAssumption, FoldsInv, Rows
  <2> QED BY <1>1, <2>1, QuotientFits DEF Folds!FoldSize
<1>3. \A k \in 1..m : i \in Folds!TestBlock(k) <=> (k - 1) * f + 1 <= i /\ (k = m \/ i <= k * f)
  BY <1>1, <1>2 DEF Folds!TestBlock
<1>4. ASSUME NEW k \in 1..m, NEW l \in 1..m, k < l,
             i \in Folds!TestBlock(k), i \in Folds!TestBlock(l)
      PROVE  FALSE
  <2>1. i <= k * f /\ (l - 1) * f + 1 <= i
    BY <1>2, <1>3, <1>4
  <2>2. k <= l - 1 /\ k \in Nat /\ l - 1 \in Nat
    BY <1>2, <1>4
  <2>3. k * f <= (l - 1) * f /\ k * f \in Nat /\ (l - 1) * f \in Nat
    BY ONLY <1>2, <2>2
  <2> QED BY ONLY <1>2, <2>1, <2>3
<1>5. \A k, l \in 1..m : i \in Folds!TestBlock(k) /\ i \in Folds!TestBlock(l) => k = l
  <2> SUFFICES ASSUME NEW k \in 1..m, NEW l \in 1..m, k # l,
                      i \in Folds!TestBlock(k), i \in Folds!TestBlock(l)
               PROVE  FALSE
    OBVIOUS
  <2>1. k < l \/ l < k
    OBVIOUS
  <2> QED BY <1>4, <2>1
<1>6. \E k \in 1..m : i \in Folds!TestBlock(k)
  <2> DEFINE ends == {k \in 1..m : k = m \/ i <= k * f}
  <2>1. m \in ends /\ ends \subseteq Nat
    BY <1>2
  <2> HIDE DEF ends
  <2>2. PICK k \in ends : \A l \in ends : k <= l
    BY <2>1, LeastExists
  <2>3. k \in 1..m /\ (k = m \/ i <= k * f)
    BY <2>2 DEF ends
  <2>4. CASE k = 1
    <3>1. (k - 1) * f + 1 <= i
      BY <1>2, <2>4
    <3> QED BY <1>3, <2>3, <3>1
  <2>5. CASE k > 1
    <3>1. k - 1 \in 1..m /\ ~(k <= k - 1)
      BY <1>2, <2>3, <2>5
    <3>2. k - 1 \notin ends
      BY <2>2, <3>1
    <3>3. ~(i <= (k - 1) * f)
      BY <3>1, <3>2 DEF ends
    <3>4. (k - 1) * f \in Nat
      BY <1>2, <3>1
    <3>5. (k - 1) * f + 1 <= i
      BY <1>2, <3>3, <3>4
    <3> QED BY <1>3, <2>3, <3>5
  <2> QED BY <1>2, <2>3, <2>4, <2>5
<1> QED BY <1>1, <1>5, <1>6

(* The walk-forward windows follow each other without a gap or an overlap. *)
LEMMA WindowsFollow ==
    ASSUME FoldsInv, stage # "writing", split.kind # "kfold", NEW i \in 1..Len(data)
    PROVE  /\ \A k, l \in 1..(fold - 1) : i \in Folds!ForwardTest(k) /\ i \in Folds!ForwardTest(l) => k = l
           /\ stage = "done" /\ Folds!Ts[i] >= Folds!TrainEnd(1) /\ Folds!Ts[i] < Folds!Ts[Len(data)] =>
                 \E k \in 1..(fold - 1) : i \in Folds!ForwardTest(k)
<1>1. PICK n, w, t : n = Len(data) /\ w = split.test /\ t = Folds!Ts[i]
  OBVIOUS
<1>2. PICK e, last : e = Folds!Ts[1] + split.train /\ last = Folds!Ts[n]
  OBVIOUS
<1>3. n \in Nat /\ w \in Nat /\ w >= 1 /\ t \in Nat /\ e \in Nat /\ i \in 1..n /\ last \in Nat
  <2>1. n \in Nat /\ n > 0 /\ \A x \in 1..n : Folds!Ts[x] \in Nat
    BY <1>1 DEF FoldsInv, Rows, Row, Folds!Ts
  <2>2. w \in Nat /\ w >= 1 /\ split.train \in Nat
    BY <1>1, PartsAssumption DEF Folds!SplitAssumption, FoldsInv
  <2>3. 1 \in 1..n /\ n \in 1..n
    BY <2>1
  <2> QED BY <1>1, <1>2, <2>1, <2>2, <2>3
<1>4. \A k \in Nat : Folds!TrainEnd(k) = e + (k - 1) * w
  <2> SUFFICES ASSUME NEW k \in Nat PROVE Folds!TrainEnd(k) = e + (k - 1) * w
    OBVIOUS
  <2>1. Folds!TrainEnd(k) = Folds!Ts[1] + (k - 1) * w + split.train
    BY <1>1 DEF Folds!TrainEnd, Folds!WindowStart
  <2>2. split.train \in Nat /\ Folds!Ts[1] \in Nat /\ (k - 1) * w \in Int
    <3>1. n \in Nat /\ n > 0 /\ \A x \in 1..n : Folds!Ts[x] \in Nat
      BY <1>1 DEF FoldsInv, Rows, Row, Folds!Ts
    <3>2. 1 \in 1..n /\ split.train \in Nat
      BY <3>1, PartsAssumption DEF Folds!SplitAssumption, FoldsInv
    <3> QED BY <1>3, <3>1, <3>2
  <2> QED BY <1>2, <2>1, <2>2
<1>5. \A k \in Nat : i \in Folds!ForwardTest(k) <=> e + (k - 1) * w <= t /\ t < e + k * w
  <2> SUFFICES ASSUME NEW k \in Nat
               PROVE  i \in Folds!ForwardTest(k) <=> e + (k - 1) * w <= t /\ t < e + k * w
    OBVIOUS
  <2>1. i \in Folds!Indices
    BY <1>1, <1>3 DEF Folds!Indices, FoldsInv, Rows
  <2>2. i \in Folds!ForwardTest(k) <=> e + (k - 1) * w <= t /\ t < e + (k - 1) * w + w
    BY <1>1, <1>4, <2>1 DEF Folds!ForwardTest
  <2>3. (k - 1) * w + w = k * w /\ (k - 1) * w \in Int /\ k * w \in Int
    BY ONLY <1>3, k \in Nat
  <2> QED BY <1>3, <2>2, <2>3
<1>6. \A k, l \in Nat : k < l => k * w <= (l - 1) * w
  <2> SUFFICES ASSUME NEW k \in Nat, NEW l \in Nat, k < l PROVE k * w <= (l - 1) * w
    OBVIOUS
  <2>1. k <= l - 1 /\ l - 1 \in Nat
    OBVIOUS
  <2> QED BY ONLY <1>3, <2>1, k \in Nat
<1>7. ASSUME NEW k \in Nat, NEW l \in Nat, k < l, i \in Folds!ForwardTest(k), i \in Folds!ForwardTest(l)
      PROVE  FALSE
  <2>1. t < e + k * w /\ e + (l - 1) * w <= t /\ k * w <= (l - 1) * w
    BY <1>5, <1>6, <1>7
  <2>2. k * w \in Int /\ (l - 1) * w \in Int
    BY <1>3
  <2> QED BY ONLY <1>3, <2>1, <2>2
<1>8. \A k, l \in 1..(fold - 1) : i \in Folds!ForwardTest(k) /\ i \in Folds!ForwardTest(l) => k = l
  <2> SUFFICES ASSUME NEW k \in 1..(fold - 1), NEW l \in 1..(fold - 1), k # l,
                      i \in Folds!ForwardTest(k), i \in Folds!ForwardTest(l)
               PROVE  FALSE
    OBVIOUS
  <2>1. k \in Nat /\ l \in Nat /\ (k < l \/ l < k)
    OBVIOUS
  <2> QED BY <1>7, <2>1
<1>9. ASSUME stage = "done", t >= e, t < last
      PROVE  \E k \in 1..(fold - 1) : i \in Folds!ForwardTest(k)
  <2> DEFINE ends == {k \in Nat : t < e + k * w}
  <2>1. t + 1 \in ends /\ ends \subseteq Nat
    <3>1. (t + 1) * w >= t + 1 /\ (t + 1) * w \in Nat
      BY ONLY <1>3
    <3> QED BY <1>3, <3>1
  <2> HIDE DEF ends
  <2>2. PICK k \in ends : \A l \in ends : k <= l
    BY <2>1, LeastExists
  <2>3. k \in Nat /\ t < e + k * w
    BY <2>2 DEF ends
  <2>4. k >= 1
    <3>1. 0 * w = 0
      BY <1>3
    <3> QED BY <1>3, <1>9, <2>3, <3>1
  <2>5. k - 1 \in Nat /\ ~(k <= k - 1)
    BY <2>3, <2>4
  <2>6. ~(t < e + (k - 1) * w)
    BY <2>2, <2>5 DEF ends
  <2>7. e + (k - 1) * w <= t
    <3>1. (k - 1) * w \in Nat
      BY <1>3, <2>5
    <3> QED BY <1>3, <2>6, <3>1
  <2>8. i \in Folds!ForwardTest(k)
    BY <1>5, <2>3, <2>7
  <2>9. fold \in Nat /\ fold >= 1 /\ ~(e + (fold - 1) * w < last)
    BY <1>1, <1>2, <1>4, <1>9 DEF FoldsInv, Folds!HasFold
  <2>10. ~(k >= fold)
    <3> SUFFICES ASSUME k >= fold PROVE FALSE
      OBVIOUS
    <3>1. fold - 1 <= k - 1 /\ fold - 1 \in Nat
      BY <2>3, <2>9
    <3>2. (fold - 1) * w <= (k - 1) * w /\ (fold - 1) * w \in Nat /\ (k - 1) * w \in Nat
      BY ONLY <1>3, <2>5, <3>1
    <3> QED BY ONLY <1>3, <1>9, <2>7, <2>9, <3>2
  <2> QED BY <2>3, <2>4, <2>8, <2>9, <2>10
<1>10. Folds!TrainEnd(1) = e
  BY <1>3, <1>4
<1> QED BY <1>1, <1>2, <1>8, <1>9, <1>10

(* So the folds are apart and their tests partition the rows.              *)
LEMMA FoldsApart ==
    ASSUME FoldsInv PROVE Folds!NoSharedOutcome /\ Folds!BlocksPartition
<1>1. ASSUME stage # "writing", NEW i \in Folds!Indices, model[i] # Folds!None, NEW j \in model[i]
      PROVE  /\ Folds!LabelWindow(i) \cap Folds!LabelWindow(j) = {}
             /\ Folds!Ts[j] > Folds!Ts[i] => Folds!Ts[j] > Folds!Ts[i] + split.horizon + split.embargo
  <2>1. Folds!Indices = 1..Len(data)
    BY <1>1 DEF FoldsInv, Rows, Folds!Indices
  <2>2. PICK k \in 1..(fold - 1) : i \in Folds!Test(k) /\ model[i] = Folds!Train(k)
    BY <1>1, <2>1 DEF FoldsInv, FromItsFold
  <2>3. fold \in Nat /\ k \in Nat /\ k >= 1 /\ k <= fold - 1
    BY <2>2 DEF FoldsInv
  <2>4. split.kind = "kfold" => k <= split.splits
    <3>1. ASSUME split.kind = "kfold" PROVE fold <= split.splits + 1 /\ split.splits \in Nat
      BY <1>1, <3>1, FoldsThatRan, PartsAssumption DEF Folds!SplitAssumption, FoldsInv
    <3> QED BY <2>3, <3>1
  <2> QED BY <1>1, <2>2, <2>3, <2>4, TrainedApart
<1>2. Folds!NoSharedOutcome
  BY <1>1 DEF Folds!NoSharedOutcome
<1>3. ASSUME stage = "done", NEW i \in Folds!Indices,
             NEW ran, ran = 1..(fold - 1), NEW tested, tested = {k \in ran : i \in Folds!Test(k)}
      PROVE  /\ Folds!Cardinality(tested) <= 1
             /\ split.kind = "kfold" => tested # {}
             /\ (split.kind = "forward" /\ Folds!Ts[i] >= Folds!TrainEnd(1) /\ Folds!Ts[i] < Folds!Ts[Len(data)])
                   => tested # {}
  <2>1. i \in 1..Len(data) /\ stage # "writing"
    BY <1>3 DEF FoldsInv, Rows, Folds!Indices
  <2>2. \A k, l \in tested : k = l
    <3>1. CASE split.kind = "kfold"
      <4>1. ran = 1..split.splits
        <5>1. fold = split.splits + 1 /\ split.splits \in Nat
          BY <1>3, <2>1, <3>1, FoldsThatRan, PartsAssumption DEF Folds!SplitAssumption, FoldsInv
        <5> QED BY <1>3, <5>1
      <4> QED BY <1>3, <2>1, <3>1, <4>1, BlocksCover DEF Folds!Test
    <3>2. CASE split.kind # "kfold"
      BY <1>3, <2>1, <3>2, WindowsFollow DEF Folds!Test
    <3> QED BY <3>1, <3>2
  <2>3. Folds!Cardinality(tested) <= 1
    <3>1. tested = {} \/ \E x : tested = {x}
      BY <2>2
    <3>2. CASE tested = {}
      BY <3>2, SameCardinality, FS_EmptySet
    <3>3. ASSUME NEW x, tested = {x} PROVE Folds!Cardinality(tested) <= 1
      <4>1. Cardinality(tested) = 1
        BY <3>3, FS_Singleton
      <4> QED BY <4>1, SameCardinality
    <3> QED BY <3>1, <3>2, <3>3
  <2>4. split.kind = "kfold" => tested # {}
    <3> SUFFICES ASSUME split.kind = "kfold" PROVE tested # {}
      OBVIOUS
    <3>1. ran = 1..split.splits
      <4>1. fold = split.splits + 1 /\ split.splits \in Nat
        BY <1>3, <2>1, FoldsThatRan, PartsAssumption DEF Folds!SplitAssumption, FoldsInv
      <4> QED BY <1>3, <4>1
    <3> QED BY <1>3, <2>1, <3>1, BlocksCover DEF Folds!Test
  <2>5. (split.kind = "forward" /\ Folds!Ts[i] >= Folds!TrainEnd(1) /\ Folds!Ts[i] < Folds!Ts[Len(data)])
          => tested # {}
    BY <1>3, <2>1, WindowsFollow DEF Folds!Test
  <2> QED BY <2>3, <2>4, <2>5
<1>4. Folds!BlocksPartition
  BY <1>3 DEF Folds!BlocksPartition
<1> QED BY <1>2, <1>4

(* What a fold trains on and tests depends on the plan and the rows only.  *)
LEMMA FoldsKeep ==
    ASSUME UNCHANGED <<split, data>>, NEW k
    PROVE  /\ Folds!Test(k)' = Folds!Test(k) /\ Folds!Train(k)' = Folds!Train(k)
           /\ Folds!HasFold(k)' = Folds!HasFold(k)
<1>1. Folds!Test(k)' = Folds!Test(k)
  BY DEF Folds!Test, Folds!TestBlock, Folds!FoldSize, Folds!ForwardTest, Folds!Indices,
         Folds!TrainEnd, Folds!WindowStart, Folds!Ts
<1>2. Folds!Train(k)' = Folds!Train(k)
  BY DEF Folds!Train, Folds!Purged, Folds!TestBlock, Folds!FoldSize, Folds!ForwardTrain, Folds!Indices,
         Folds!TrainEnd, Folds!WindowStart, Folds!Ts
<1>3. Folds!HasFold(k)' = Folds!HasFold(k)
  BY DEF Folds!HasFold, Folds!TrainEnd, Folds!WindowStart, Folds!Ts
<1> QED BY <1>1, <1>2, <1>3

(* Every step of the evaluation keeps the invariant.                       *)
LEMMA FoldsStep ==
    ASSUME FoldsInv, Folds!Next PROVE FoldsInv'
<1>1. ASSUME NEW d \in RowGaps, NEW valid \in BOOLEAN, NEW resolved \in BOOLEAN, NEW up \in BOOLEAN,
             Folds!WriteRow(d, valid, resolved, up)
      PROVE  FoldsInv'
  <2>1. PICK n : n = Len(rows)
    OBVIOUS
  <2>2. n \in Nat /\ rows \in [1..n -> Row] /\ d \in Nat /\ Sorted(rows, n)
    BY <2>1, PartsAssumption DEF FoldsInv, Rows, Folds!SplitAssumption
  <2>3. PICK last : last = IF rows = <<>> THEN 0 ELSE Folds!Last(rows).ts
    OBVIOUS
  <2>4. last \in Nat /\ \A i \in 1..n : rows[i].ts <= last
    <3>1. CASE n = 0
      <4>1. rows = <<>>
        BY <2>2, <3>1
      <4> QED BY <2>2, <2>3, <3>1, <4>1
    <3>2. CASE n > 0
      <4>1. rows # <<>> /\ n \in 1..n /\ rows[n] \in Row
        BY <2>1, <2>2, <3>2
      <4>2. last = rows[n].ts
        BY <2>1, <2>3, <4>1 DEF Folds!Last
      <4>3. \A i \in 1..n : i <= n
        BY <2>2
      <4> QED BY <2>2, <4>1, <4>2, <4>3 DEF Row, Sorted
    <3> QED BY <2>2, <3>1, <3>2
  <2>5. PICK r : r = [ts |-> d + last, valid |-> valid, resolved |-> resolved, up |-> up]
    OBVIOUS
  <2>6. /\ r \in Row /\ r.ts >= last /\ r.ts \in Nat
    BY <2>2, <2>4, <2>5 DEF Row
  <2>7. rows' = Append(rows, r) /\ UNCHANGED <<split, data, stage, fold, model>> /\ stage = "writing"
    BY <1>1, <2>3, <2>5 DEF Folds!WriteRow
  <2>8. rows' \in [1..n + 1 -> Row]
    BY <2>2, <2>6, <2>7, Appending
  <2>9. rows'[n + 1] = r /\ \A i \in 1..n : rows'[i] = rows[i]
    BY <2>2, <2>6, <2>7, Appending
  <2>10. Rows(rows', n + 1) /\ Len(rows') = n + 1
    BY <2>2, <2>8 DEF Rows
  <2>11. Sorted(rows', n + 1)
    <3> SUFFICES ASSUME NEW i \in 1..n + 1, NEW j \in 1..n + 1, i <= j
                 PROVE  rows'[i].ts <= rows'[j].ts
      BY DEF Sorted
    <3>1. CASE j \in 1..n
      <4>1. i \in 1..n
        BY <2>2, <3>1
      <4> QED BY <2>2, <2>9, <3>1, <4>1 DEF Sorted
    <3>2. CASE j = n + 1 /\ i \in 1..n
      <4>1. rows[i].ts <= last /\ rows[i].ts \in Nat
        BY <2>2, <2>4, <3>2 DEF Row
      <4> QED BY <2>4, <2>6, <2>9, <3>2, <4>1
    <3>3. CASE j = n + 1 /\ i = n + 1
      BY <2>6, <2>9, <3>3
    <3> QED BY <2>2, <3>1, <3>2, <3>3
  <2> QED BY <2>7, <2>10, <2>11 DEF FoldsInv
<1>2. CASE Folds!StartFolds
  <2>1. /\ stage = "writing" /\ stage' = "folding" /\ fold' = fold /\ fold = 1
        /\ data' = Folds!InOrder(Folds!Usable) /\ UNCHANGED <<split, rows>>
        /\ model' = [i \in DOMAIN data' |-> Folds!None]
        /\ Folds!Cardinality(Folds!Usable) >= MinUsable
    BY <1>2 DEF Folds!StartFolds, FoldsInv
  <2>2. PICK S, n, c : S = Folds!Usable /\ n = Len(rows) /\ c = Cardinality(S)
    OBVIOUS
  <2>3. Rows(rows, n) /\ Sorted(rows, n) /\ S \subseteq 1..n
    <3>1. Rows(rows, n) /\ Sorted(rows, n)
      BY <2>2 DEF FoldsInv
    <3> QED BY <2>2, <3>1 DEF Folds!Usable, Folds!Loaded, Rows
  <2>4. Rows(data', c) /\ Sorted(data', c) /\ c = Folds!Cardinality(S)
    BY <2>1, <2>2, <2>3, InOrderSorted
  <2>5. Len(data') = c /\ c \in Nat /\ c > 0 /\ DOMAIN data' = 1..c
    <3>1. MinUsable \in Nat /\ MinUsable >= 1
      BY PartsAssumption DEF Folds!SplitAssumption
    <3> QED BY <2>1, <2>2, <2>4, <3>1 DEF Rows
  <2>6. \A i \in 1..c : model'[i] = Folds!None
    BY <2>1, <2>5
  <2>7. (\A i \in 1..Len(data) : model[i] # Folds!None => FromItsFold(i))'
    BY <2>5, <2>6 DEF Folds!None
  <2> QED BY <2>1, <2>4, <2>5, <2>7 DEF FoldsInv
<1>3. CASE Folds!RunFold
  <2>1. /\ stage = "folding" /\ Folds!HasFold(fold) /\ fold' = fold + 1
        /\ UNCHANGED <<split, rows, data, stage>>
        /\ \/ model' = [i \in Folds!Indices |-> IF i \in Folds!Test(fold) THEN Folds!Train(fold) ELSE model[i]]
           \/ model' = model
    BY <1>3 DEF Folds!RunFold
  <2>2. PICK f : f = fold
    OBVIOUS
  <2>3. f \in Nat /\ f >= 1 /\ fold' = f + 1 /\ Folds!HasFold(f)
    BY <2>1, <2>2 DEF FoldsInv
  <2>4. \A k : /\ Folds!Test(k)' = Folds!Test(k) /\ Folds!Train(k)' = Folds!Train(k)
               /\ Folds!HasFold(k)' = Folds!HasFold(k)
    BY <2>1, FoldsKeep
  <2>5. Folds!Indices = 1..Len(data)
    BY <2>1 DEF FoldsInv, Rows, Folds!Indices
  <2>6. ASSUME NEW i \in 1..Len(data), model'[i] # Folds!None PROVE FromItsFold(i)'
    <3>1. \/ i \in Folds!Test(f) /\ model'[i] = Folds!Train(f)
          \/ model'[i] = model[i]
      BY <2>1, <2>2, <2>5
    <3>2. CASE i \in Folds!Test(f) /\ model'[i] = Folds!Train(f)
      <4>1. f \in 1..(fold' - 1)
        BY <2>3
      <4>2. i \in Folds!Test(f)' /\ model'[i] = Folds!Train(f)'
        BY <2>4, <3>2
      <4> QED BY <4>1, <4>2 DEF FromItsFold
    <3>3. CASE model'[i] = model[i]
      <4>1. PICK k \in 1..(fold - 1) : i \in Folds!Test(k) /\ model[i] = Folds!Train(k)
        BY <2>1, <2>6, <3>3 DEF FoldsInv, FromItsFold
      <4>2. k \in 1..(fold' - 1)
        BY <2>2, <2>3, <4>1
      <4>3. i \in Folds!Test(k)' /\ model'[i] = Folds!Train(k)'
        BY <2>4, <3>3, <4>1
      <4> QED BY <4>2, <4>3 DEF FromItsFold
    <3> QED BY <3>1, <3>2, <3>3
  <2>7. (\A i \in 1..Len(data) : model[i] # Folds!None => FromItsFold(i))'
    BY <2>1, <2>6 DEF Folds!None
  <2>8. Folds!HasFold(fold - 1)'
    <3>1. fold' - 1 = f
      BY <2>3
    <3>2. Folds!HasFold(f)'
      BY <2>3, <2>4
    <3> QED BY <3>1, <3>2 DEF Folds!HasFold, Folds!TrainEnd, Folds!WindowStart
  <2> QED BY <2>1, <2>3, <2>7, <2>8 DEF FoldsInv
<1>4. CASE Folds!Score
  <2>1. /\ stage = "folding" /\ ~Folds!HasFold(fold) /\ stage' = "done"
        /\ UNCHANGED <<split, rows, data, fold, model>>
    BY <1>4 DEF Folds!Score
  <2>2. \A k : /\ Folds!Test(k)' = Folds!Test(k) /\ Folds!Train(k)' = Folds!Train(k)
               /\ Folds!HasFold(k)' = Folds!HasFold(k)
    BY <2>1, FoldsKeep
  <2>3. ~Folds!HasFold(fold)' /\ (fold > 1 => Folds!HasFold(fold - 1))'
    BY <2>1 DEF FoldsInv, Folds!HasFold, Folds!TrainEnd, Folds!WindowStart, Folds!Ts
  <2>4. (\A i \in 1..Len(data) : model[i] # Folds!None => FromItsFold(i))'
    <3>1. \A i : FromItsFold(i)' <=> FromItsFold(i)
      BY <2>1, <2>2 DEF FromItsFold
    <3> QED BY <2>1, <3>1 DEF FoldsInv, Folds!None
  <2> QED BY <2>1, <2>3, <2>4 DEF FoldsInv
<1> QED BY <1>1, <1>2, <1>3, <1>4 DEF Folds!Next
-----------------------------------------------------------------------------
(* The chain records of a token have their types.                          *)
KindNames == {"mint_to", "sell", "transfer", "revoke_authority"}
Tx == [ts : Nat, kind : KindNames, wallet : Launch!Wallets, source : Launch!Wallets, amount : Nat]
Sig == [ts : Nat, err : BOOLEAN]
LaunchInv ==
    /\ now \in Nat
    /\ Len(txs) \in Nat /\ txs \in [1..Len(txs) -> Tx]
    /\ Len(sigs) \in Nat /\ sigs \in [1..Len(sigs) -> Sig]

(* One more transaction, or one more signature, of now.                    *)
NewTx(r) == r \in Tx /\ r.ts = now /\ txs' = Append(txs, r)
NewSig(g) == g \in Sig /\ g.ts = now /\ sigs' = Append(sigs, g)

(* What a step of the chain can do: nothing a feature reads, one more      *)
(* transaction or signature of now, or the label event.                    *)
LEMMA LaunchMoves ==
    ASSUME LaunchInv, [Launch!Next]_(Launch!vars)
    PROVE  /\ now' \in Nat
           /\ txs' = txs \/ \E r : NewTx(r)
           /\ sigs' = sigs \/ \E g : NewSig(g)
           /\ label' = label \/ (label = Nothing /\ label' = now)
<1>1. now \in Nat /\ Amounts \subseteq Nat
  BY PartsAssumption DEF LaunchInv, Launch!LaunchAssumption
<1>2. CASE UNCHANGED Launch!vars
  BY <1>1, <1>2 DEF Launch!vars
<1>3. CASE Launch!Tick
  BY <1>1, <1>3 DEF Launch!Tick
<1>4. ASSUME NEW kind \in KindNames, NEW w \in Launch!Wallets, NEW from \in Launch!Wallets,
             NEW n \in Nat, Launch!Transact(kind, w, from, n)
      PROVE  /\ \E r : NewTx(r)
             /\ UNCHANGED <<now, sigs, label>>
  <2> DEFINE r == [ts |-> now, kind |-> kind, wallet |-> w, source |-> from, amount |-> n]
  <2>1. r \in Tx /\ r.ts = now /\ txs' = Append(txs, r)
    BY <1>1, <1>4 DEF Launch!Transact, Tx
  <2> HIDE DEF r
  <2>2. NewTx(r)
    BY <2>1 DEF NewTx
  <2> QED BY <1>4, <2>2 DEF Launch!Transact
<1>5. ASSUME NEW w \in Launch!Wallets, NEW n \in Amounts,
             \/ Launch!Transact("mint_to", w, w, n)
             \/ Launch!Transact("sell", w, w, n)
             \/ \E from \in Launch!Wallets \ {w} : Launch!Transact("transfer", w, from, n)
      PROVE  /\ \E r : NewTx(r)
             /\ UNCHANGED <<now, sigs, label>>
  <2>1. n \in Nat
    BY <1>1
  <2>2. CASE Launch!Transact("mint_to", w, w, n)
    BY <1>4, <2>1, <2>2 DEF KindNames
  <2>3. CASE Launch!Transact("sell", w, w, n)
    BY <1>4, <2>1, <2>3 DEF KindNames
  <2>4. CASE \E from \in Launch!Wallets \ {w} : Launch!Transact("transfer", w, from, n)
    BY <1>4, <2>1, <2>4 DEF KindNames
  <2> QED BY <1>5, <2>2, <2>3, <2>4
<1>6. CASE Launch!Transact("revoke_authority", Dev, Dev, 0)
  <2>1. Dev \in Launch!Wallets
    BY DEF Launch!Wallets
  <2>2. /\ \E r : NewTx(r)
        /\ UNCHANGED <<now, sigs, label>>
    BY <1>4, <1>6, <2>1 DEF KindNames
  <2> QED BY <1>1, <2>2
<1>7. ASSUME NEW err \in BOOLEAN, Launch!Sign(err)
      PROVE  /\ \E g : NewSig(g)
             /\ UNCHANGED <<now, txs, label>>
  <2> DEFINE g == [ts |-> now, err |-> err]
  <2>1. NewSig(g)
    BY <1>1, <1>7 DEF Launch!Sign, Sig, NewSig
  <2> HIDE DEF g
  <2> QED BY <1>7, <2>1 DEF Launch!Sign
<1>8. CASE Launch!LabelEvent
  BY <1>1, <1>8 DEF Launch!LabelEvent
<1>9. CASE Launch!PriorRug
  BY <1>1, <1>9 DEF Launch!PriorRug
<1> QED BY <1>1, <1>2, <1>3, <1>5, <1>6, <1>7, <1>8, <1>9 DEF Launch!Next

(* A new record leaves the earlier ones where they are.                    *)
LEMMA RecordsStay ==
    ASSUME LaunchInv, NEW r, NewTx(r), NEW n, n = Len(txs)
    PROVE  /\ n \in Nat /\ Len(txs') = n + 1 /\ txs' \in [1..n + 1 -> Tx] /\ txs'[n + 1] = r
           /\ DOMAIN txs = 1..n /\ DOMAIN txs' = 1..n + 1
           /\ \A i \in 1..n : txs'[i] = txs[i] /\ txs[i] \in Tx
<1>1. n \in Nat /\ txs \in [1..n -> Tx] /\ r \in Tx /\ txs' = Append(txs, r)
  BY DEF LaunchInv, NewTx
<1>2. txs' \in [1..n + 1 -> Tx] /\ txs'[n + 1] = r
  <2>1. Append(txs, r) \in [1..n + 1 -> Tx]
    BY <1>1, Appending
  <2>2. Append(txs, r)[n + 1] = r
    BY <1>1, Appending
  <2> QED BY <1>1, <2>1, <2>2
<1>3. \A i \in 1..n : txs'[i] = txs[i]
  BY <1>1, Appending
<1>4. \A i \in 1..n : txs[i] \in Tx
  BY <1>1
<1>5. Len(txs') = n + 1 /\ DOMAIN txs = 1..n /\ DOMAIN txs' = 1..n + 1
  BY <1>1, <1>2
<1> QED BY <1>1, <1>2, <1>3, <1>4, <1>5

(* Every step keeps the records' types.                                    *)
LEMMA LaunchStep ==
    ASSUME LaunchInv, [Launch!Next]_(Launch!vars) PROVE LaunchInv'
<1>1. now' \in Nat
  BY LaunchMoves
<1>2. Len(txs') \in Nat /\ txs' \in [1..Len(txs') -> Tx]
  <2>1. CASE txs' = txs
    BY <2>1 DEF LaunchInv
  <2>2. ASSUME NEW r, NewTx(r) PROVE Len(txs') \in Nat /\ txs' \in [1..Len(txs') -> Tx]
    <3>1. PICK n : n = Len(txs)
      OBVIOUS
    <3>2. n \in Nat /\ Len(txs') = n + 1 /\ txs' \in [1..n + 1 -> Tx]
      BY <2>2, <3>1, RecordsStay
    <3> QED BY <3>2
  <2> QED BY <2>1, <2>2, LaunchMoves
<1>3. Len(sigs') \in Nat /\ sigs' \in [1..Len(sigs') -> Sig]
  <2>1. CASE sigs' = sigs
    BY <2>1 DEF LaunchInv
  <2>2. ASSUME NEW g, NewSig(g) PROVE Len(sigs') \in Nat /\ sigs' \in [1..Len(sigs') -> Sig]
    <3>1. PICK n : n = Len(sigs)
      OBVIOUS
    <3>2. n \in Nat /\ sigs \in [1..n -> Sig] /\ g \in Sig /\ sigs' = Append(sigs, g)
      BY <2>2, <3>1 DEF LaunchInv, NewSig
    <3>3. sigs' \in [1..n + 1 -> Sig]
      BY <3>2, Appending
    <3>4. Len(sigs') = n + 1 /\ n + 1 \in Nat
      BY <3>2, <3>3
    <3> QED BY <3>3, <3>4
  <2> QED BY <2>1, <2>2, LaunchMoves
<1> QED BY <1>1, <1>2, <1>3 DEF LaunchInv

(* The model's sum is the one the lemmas are about.                        *)
LEMMA LaunchSums == \A f, S : Launch!SumOf(f, S) = SumOver(f, S)
<1> TAKE f, S
<1> QED BY DEF Launch!SumOf, Launch!MapThenSumSet, Launch!MapThenFoldSet, Pick, SumTable, SumOver

(* The amount of earlier records is unmoved by a new one, and with the new *)
(* one it is so much more.                                                 *)
LEMMA AmountsStay ==
    ASSUME LaunchInv, NEW r, NewTx(r), NEW n, n = Len(txs), NEW S, S \subseteq 1..n
    PROVE  /\ Launch!Amount(S)' = Launch!Amount(S) /\ Launch!Amount(S) \in Nat
           /\ Launch!Amount(S \cup {n + 1})' = Launch!Amount(S) + r.amount
           /\ r.amount \in Nat
<1>1. /\ n \in Nat /\ Len(txs') = n + 1 /\ txs' \in [1..n + 1 -> Tx] /\ txs'[n + 1] = r
      /\ DOMAIN txs = 1..n /\ DOMAIN txs' = 1..n + 1
      /\ \A i \in 1..n : txs'[i] = txs[i] /\ txs[i] \in Tx
  BY RecordsStay
<1>2. PICK F : F = [i \in DOMAIN txs |-> txs[i].amount]
  OBVIOUS
<1>3. PICK G : G = [i \in DOMAIN txs' |-> txs'[i].amount]
  OBVIOUS
<1>4. /\ \A T : Launch!Amount(T) = SumOver(F, T)
      /\ \A T : Launch!Amount(T)' = SumOver(G, T)
  BY <1>2, <1>3, LaunchSums DEF Launch!Amount
<1>5. /\ \A i \in 1..n : F[i] = G[i] /\ F[i] \in Nat
      /\ G[n + 1] = r.amount /\ r.amount \in Nat
  BY <1>1, <1>2, <1>3 DEF Tx, NewTx
<1>6. IsFiniteSet(S) /\ IsFiniteSet(S \cup {n + 1})
  <2>1. IsFiniteSet(1..n)
    BY <1>1, FS_Interval
  <2>2. IsFiniteSet(S)
    BY <2>1, FS_Subset
  <2> QED BY <2>2, FS_AddElement
<1>7. \A i \in S : F[i] = G[i] /\ F[i] \in Nat /\ F[i] \in Int /\ G[i] \in Int
  BY <1>5
<1>8. SumOver(F, S) = SumOver(G, S)
  BY <1>6, <1>7, SumAgrees
<1>9. SumOver(F, S) \in Nat
  BY <1>6, <1>7, SumType
<1>10. SumOver(G, S \cup {n + 1}) = r.amount + SumOver(G, S)
  <2>1. PICK T : T = S \cup {n + 1}
    OBVIOUS
  <2>2. \A i \in T : G[i] \in Int
    BY <1>5, <1>7, <2>1
  <2>3. T \ {n + 1} = S /\ n + 1 \in T /\ IsFiniteSet(T)
    BY <1>1, <1>6, <2>1
  <2>4. SumOver(G, T) = G[n + 1] + SumOver(G, T \ {n + 1})
    BY <2>2, <2>3, SumRemove
  <2> QED BY <1>5, <2>1, <2>3, <2>4
<1> QED BY <1>4, <1>5, <1>8, <1>9, <1>10

(* The records of a closed stretch are the same after a step.              *)
LEMMA KindsStay ==
    ASSUME LaunchInv, NEW r, NewTx(r), NEW kind, NEW a, NEW c \in Nat, c < now
    PROVE  /\ Launch!Kinds(kind, a, c)' = Launch!Kinds(kind, a, c)
           /\ Launch!Kinds(kind, a, c) \subseteq 1..Len(txs)
<1>1. PICK n : n = Len(txs)
  OBVIOUS
<1>2. /\ n \in Nat /\ txs'[n + 1] = r
      /\ DOMAIN txs = 1..n /\ DOMAIN txs' = 1..n + 1
      /\ \A i \in 1..n : txs'[i] = txs[i] /\ txs[i] \in Tx
  BY <1>1, RecordsStay
<1>3. ~(txs'[n + 1].ts <= c)
  BY <1>2 DEF NewTx, LaunchInv
<1>4. \A i \in 1..n + 1 : i \in 1..n \/ i = n + 1
  BY <1>2
<1>5. 1..n \subseteq 1..n + 1
  BY <1>2
<1> QED BY <1>1, <1>2, <1>3, <1>4, <1>5 DEF Launch!Kinds

(* So is what a wallet held in it, who the insiders were, and the balances. *)
LEMMA HoldingsStay ==
    ASSUME LaunchInv, txs' = txs \/ \E r : NewTx(r), NEW c \in Nat, c < now
    PROVE  /\ \A kind : Launch!Kinds(kind, 0, c)' = Launch!Kinds(kind, 0, c)
           /\ \A w : Launch!Holds(w, c)' = Launch!Holds(w, c)
           /\ Launch!BalancesAt(c)' = Launch!BalancesAt(c)
           /\ Launch!InsiderSet(c)' = Launch!InsiderSet(c)
<1>1. PICK n : n = Len(txs)
  OBVIOUS
<1>2. /\ n \in Nat /\ \A i \in 1..n : txs'[i] = txs[i]
  BY <1>1, RecordsStay DEF LaunchInv
<1>3. \A kind : /\ Launch!Kinds(kind, 0, c)' = Launch!Kinds(kind, 0, c)
                /\ Launch!Kinds(kind, 0, c) \subseteq 1..n
  <2>1. CASE txs' = txs
    <3>1. DOMAIN txs = 1..n
      BY <1>1 DEF LaunchInv
    <3> QED BY <2>1, <3>1 DEF Launch!Kinds
  <2>2. CASE \E r : NewTx(r)
    BY <1>1, <2>2, KindsStay
  <2> QED BY <2>1, <2>2
<1>a. \A S : S \subseteq 1..n => Launch!Amount(S)' = Launch!Amount(S)
  <2>1. CASE txs' = txs
    BY <2>1 DEF Launch!Amount
  <2>2. CASE \E r : NewTx(r)
    BY <1>1, <2>2, AmountsStay
  <2> QED BY <2>1, <2>2
<1>4. ASSUME NEW w PROVE Launch!Holds(w, c)' = Launch!Holds(w, c)
  <2>1. PICK a : a = {i \in Launch!Kinds("mint_to", 0, c) \cup Launch!Kinds("transfer", 0, c) : txs[i].wallet = w}
    OBVIOUS
  <2>2. PICK b : b = {i \in Launch!Kinds("transfer", 0, c) : txs[i].source = w}
    OBVIOUS
  <2>3. PICK d : d = {i \in Launch!Kinds("sell", 0, c) : txs[i].wallet = w}
    OBVIOUS
  <2>4. a \subseteq 1..n /\ b \subseteq 1..n /\ d \subseteq 1..n
    BY <1>3, <2>1, <2>2, <2>3
  <2>5. /\ a = {i \in Launch!Kinds("mint_to", 0, c)' \cup Launch!Kinds("transfer", 0, c)' : txs'[i].wallet = w}
        /\ b = {i \in Launch!Kinds("transfer", 0, c)' : txs'[i].source = w}
        /\ d = {i \in Launch!Kinds("sell", 0, c)' : txs'[i].wallet = w}
    BY <1>2, <1>3, <2>1, <2>2, <2>3
  <2>6. /\ Launch!Amount(a)' = Launch!Amount(a)
        /\ Launch!Amount(b)' = Launch!Amount(b)
        /\ Launch!Amount(d)' = Launch!Amount(d)
    BY <1>a, <2>4
  <2>7. Launch!Holds(w, c) = Launch!Amount(a) - Launch!Amount(b) - Launch!Amount(d)
    BY <2>1, <2>2, <2>3 DEF Launch!Holds
  <2>8. Launch!Holds(w, c)' = Launch!Amount(a)' - Launch!Amount(b)' - Launch!Amount(d)'
    BY <2>5 DEF Launch!Holds
  <2> QED BY <2>6, <2>7, <2>8
<1>5. Launch!BalancesAt(c)' = Launch!BalancesAt(c)
  BY <1>4 DEF Launch!BalancesAt
<1>6. Launch!InsiderSet(c)' = Launch!InsiderSet(c)
  <2> DEFINE in(w) == {i \in Launch!Kinds("transfer", 0, c) : txs[i].wallet = w}
  <2>1. ASSUME NEW w PROVE in(w)' = in(w) /\ in(w) \subseteq 1..n
    BY <1>2, <1>3
  <2>2. ASSUME NEW w, in(w) # {} PROVE txs'[Launch!Min(in(w))] = txs[Launch!Min(in(w))]
    <3>1. in(w) \subseteq Nat
      BY <1>2, <2>1
    <3>2. PICK s : s = in(w)
      OBVIOUS
    <3>3. \E x \in s : \A y \in s : x <= y
      BY <2>2, <3>1, <3>2, LeastExists
    <3>4. Launch!Min(s) \in s
      BY <3>3 DEF Launch!Min
    <3> QED BY <1>2, <2>1, <3>2, <3>4
  <2>3. /\ Launch!InsiderSet(c) = {Dev} \cup {w \in Launch!Wallets : in(w) # {} /\ txs[Launch!Min(in(w))].source = Dev}
        /\ Launch!InsiderSet(c)' = {Dev} \cup {w \in Launch!Wallets : in(w)' # {} /\ txs'[Launch!Min(in(w)')].source = Dev}
    BY DEF Launch!InsiderSet
  <2> HIDE DEF in
  <2> QED BY <2>1, <2>2, <2>3
<1> QED BY <1>3, <1>4, <1>5, <1>6

(* The first record of some earlier ones is where it was.                  *)
LEMMA FirstStays ==
    ASSUME LaunchInv, txs' = txs \/ \E r : NewTx(r), NEW S, S \subseteq 1..Len(txs), S # {}
    PROVE  txs'[Launch!Min(S)] = txs[Launch!Min(S)]
<1>1. \E x \in S : \A y \in S : x <= y
  <2>1. S \subseteq Nat
    BY DEF LaunchInv
  <2> QED BY <2>1, LeastExists
<1>2. Launch!Min(S) \in S
  BY <1>1 DEF Launch!Min
<1>3. CASE txs' = txs
  BY <1>3
<1>4. ASSUME NEW r, NewTx(r) PROVE txs'[Launch!Min(S)] = txs[Launch!Min(S)]
  <2>1. PICK n : n = Len(txs)
    OBVIOUS
  <2>2. \A i \in 1..n : txs'[i] = txs[i]
    BY <1>4, <2>1, RecordsStay
  <2> QED BY <1>2, <2>1, <2>2
<1> QED BY <1>3, <1>4

(* Whatever a step does, nothing up to a closed time moves.                *)
LEMMA ClosedPastStays ==
    ASSUME LaunchInv, [Launch!Next]_(Launch!vars), NEW c \in Nat, c < now
    PROVE  /\ Launch!BalancesAt(c)' = Launch!BalancesAt(c)
           /\ Launch!InsiderSet(c)' = Launch!InsiderSet(c)
           /\ \A w : Launch!Holds(w, c)' = Launch!Holds(w, c)
           /\ Launch!Leaks(c)' = Launch!Leaks(c)
           /\ \A kind : Launch!Kinds(kind, 0, c)' = Launch!Kinds(kind, 0, c)
<1>1. Launch!Leaks(c)' = Launch!Leaks(c)
  <2>1. now \in Nat /\ (label' = label \/ (label = Nothing /\ label' = now))
    BY LaunchMoves DEF LaunchInv
  <2> QED BY <2>1 DEF Launch!Leaks
<1> QED BY <1>1, LaunchMoves, HoldingsStay

(* Once the window has closed the holdings' features are settled.          *)
LEMMA HistoryIsSettled ==
    ASSUME LaunchInv, [Launch!Next]_(Launch!vars), now > OpenTime
    PROVE  Launch!HistoryFeatures' = Launch!HistoryFeatures
<1>1. OpenTime \in Nat /\ 0 < now /\ OpenTime < now /\ 0 \in Nat
  BY PartsAssumption DEF Launch!LaunchAssumption, LaunchInv
<1>2. /\ Launch!BalancesAt(OpenTime)' = Launch!BalancesAt(OpenTime)
      /\ Launch!BalancesAt(0)' = Launch!BalancesAt(0)
      /\ Launch!InsiderSet(OpenTime)' = Launch!InsiderSet(OpenTime)
      /\ Launch!Leaks(OpenTime)' = Launch!Leaks(OpenTime)
      /\ \A kind : Launch!Kinds(kind, 0, OpenTime)' = Launch!Kinds(kind, 0, OpenTime)
  BY <1>1, ClosedPastStays
<1>3. PICK S : S = {i \in Launch!Kinds("sell", 0, OpenTime) : txs[i].wallet = Dev}
  OBVIOUS
<1>4. txs' = txs \/ \E r : NewTx(r)
  BY LaunchMoves
<1>5. Launch!Kinds("sell", 0, OpenTime) \subseteq 1..Len(txs)
  <2>1. DOMAIN txs = 1..Len(txs)
    BY DEF LaunchInv
  <2> QED BY <2>1 DEF Launch!Kinds
<1>6. S = {i \in Launch!Kinds("sell", 0, OpenTime)' : txs'[i].wallet = Dev}
  <2>1. \A i \in 1..Len(txs) : txs'[i] = txs[i]
    BY <1>4, RecordsStay
  <2> QED BY <1>2, <1>3, <1>5, <2>1
<1>7. Launch!FirstTime(S)' = Launch!FirstTime(S)
  <2>1. S \subseteq 1..Len(txs)
    BY <1>3, <1>5
  <2>2. S # {} => txs'[Launch!Min(S)] = txs[Launch!Min(S)]
    BY <1>4, <2>1, FirstStays
  <2> QED BY <2>2 DEF Launch!FirstTime
<1> DEFINE Scored(leaks, first, last, sale, revokes, insiders) ==
             IF leaks THEN "refused" ELSE
             [allocation |-> IF DOMAIN first = {} THEN -1 ELSE
                             <<IF Dev \in DOMAIN first THEN first[Dev] ELSE 0, SumOver(first, DOMAIN first)>>,
              topHolder  |-> IF DOMAIN last = {} THEN -1 ELSE
                             <<Launch!Max(Launch!Range(last)), SumOver(last, DOMAIN last)>>,
              firstSell  |-> sale,
              revoked    |-> revokes # {},
              holders    |-> Launch!Cardinality(DOMAIN last),
              insiders   |-> Launch!Cardinality(insiders \ {Dev})]
<1>8. \A b : Launch!Total(b) = SumOver(b, DOMAIN b)
  BY LaunchSums DEF Launch!Total
<1>9. Launch!HistoryFeatures
    = Scored(Launch!Leaks(OpenTime), Launch!BalancesAt(0), Launch!BalancesAt(OpenTime),
          Launch!FirstTime(S), Launch!Kinds("revoke_authority", 0, OpenTime), Launch!InsiderSet(OpenTime))
  BY <1>3, <1>8 DEF Launch!HistoryFeatures, Launch!Undefined, Launch!Missing
<1>10. Launch!HistoryFeatures'
    = Scored(Launch!Leaks(OpenTime)', Launch!BalancesAt(0)', Launch!BalancesAt(OpenTime)',
          Launch!FirstTime(S)', Launch!Kinds("revoke_authority", 0, OpenTime)', Launch!InsiderSet(OpenTime)')
  BY <1>6, <1>8 DEF Launch!HistoryFeatures, Launch!Undefined, Launch!Missing
<1> HIDE DEF Scored
<1> QED BY <1>2, <1>7, <1>9, <1>10

(* And after its cutoff the activity's.                                    *)
LEMMA BehaviourIsSettled ==
    ASSUME LaunchInv, [Launch!Next]_(Launch!vars), now > ReadTime
    PROVE  Launch!BehaviourFeatures' = Launch!BehaviourFeatures
<1>1. ReadTime \in Nat /\ ReadTime < now /\ now \in Nat
  BY PartsAssumption DEF Launch!LaunchAssumption, LaunchInv
<1>2. Launch!Leaks(ReadTime)' = Launch!Leaks(ReadTime)
  BY <1>1, ClosedPastStays
<1>3. CASE sigs' = sigs
  BY <1>2, <1>3 DEF Launch!BehaviourFeatures
<1>4. ASSUME NEW g, NewSig(g)
      PROVE  Launch!BehaviourFeatures' = Launch!BehaviourFeatures
  <2>1. PICK n : n = Len(sigs)
    OBVIOUS
  <2>2. n \in Nat /\ sigs \in [1..n -> Sig] /\ g \in Sig /\ g.ts = now /\ sigs' = Append(sigs, g)
    BY <1>4, <2>1 DEF LaunchInv, NewSig
  <2>3. sigs' \in [1..n + 1 -> Sig]
    BY <2>2, Appending
  <2>4. sigs'[n + 1] = g
    BY <2>2, Appending
  <2>5. \A i \in 1..n : sigs'[i] = sigs[i]
    BY <2>2, Appending
  <2>6. PICK win : win = {i \in DOMAIN sigs : sigs[i].ts < ReadTime}
    OBVIOUS
  <2>7. DOMAIN sigs = 1..n /\ DOMAIN sigs' = 1..n + 1 /\ win \subseteq 1..n
    BY <2>2, <2>3, <2>6
  <2>8. win = {i \in DOMAIN sigs' : sigs'[i].ts < ReadTime}
    <3>1. ~(sigs'[n + 1].ts < ReadTime)
      BY <1>1, <2>2, <2>4
    <3>2. \A i \in 1..n + 1 : i \in 1..n \/ i = n + 1
      BY <2>2
    <3>3. 1..n \subseteq 1..n + 1
      BY <2>2
    <3> QED BY <2>5, <2>6, <2>7, <3>1, <3>2, <3>3
  <2>9. \A i \in win : sigs'[i] = sigs[i]
    BY <2>5, <2>7
  <2>10. {sigs'[i + 1].ts - sigs'[i].ts : i \in {k \in win : k + 1 \in win}}
       = {sigs[i + 1].ts - sigs[i].ts : i \in {k \in win : k + 1 \in win}}
    BY <2>9
  <2>11. /\ {i \in win : 3 * sigs'[i].ts > 2 * ReadTime} = {i \in win : 3 * sigs[i].ts > 2 * ReadTime}
         /\ {i \in win : 3 * sigs'[i].ts <= ReadTime} = {i \in win : 3 * sigs[i].ts <= ReadTime}
         /\ {i \in win : sigs'[i].err} = {i \in win : sigs[i].err}
    BY <2>9
  <2>12. win # {} => sigs'[Launch!Max(win)] = sigs[Launch!Max(win)]
    <3>1. Launch!Max(win) = Max(win)
      BY DEF Launch!Max, Max
    <3>2. win # {} => Max(win) \in win
      BY <2>2, <2>7, MaxIsOne
    <3> QED BY <2>9, <3>1, <3>2
  <2> QED BY <1>2, <2>6, <2>8, <2>10, <2>11, <2>12 DEF Launch!BehaviourFeatures
<1> QED BY <1>3, <1>4, LaunchMoves

(* What earlier records amount to is a natural number.                     *)
LEMMA AmountType ==
    ASSUME LaunchInv, NEW S, S \subseteq 1..Len(txs)
    PROVE  Launch!Amount(S) \in Nat
<1>1. PICK n : n = Len(txs)
  OBVIOUS
<1>2. n \in Nat /\ DOMAIN txs = 1..n /\ \A i \in 1..n : txs[i].amount \in Nat
  BY <1>1 DEF LaunchInv, Tx
<1>3. PICK F : F = [i \in DOMAIN txs |-> txs[i].amount]
  OBVIOUS
<1>4. Launch!Amount(S) = SumOver(F, S)
  BY <1>3, LaunchSums DEF Launch!Amount
<1>5. \A i \in S : F[i] \in Nat /\ F[i] \in Int
  BY <1>1, <1>2, <1>3
<1>6. IsFiniteSet(1..n)
  BY <1>2, FS_Interval
<1>7. IsFiniteSet(S)
  BY <1>1, <1>6, FS_Subset
<1> QED BY <1>4, <1>5, <1>7, SumType

(* What the insiders sold from the window's close to a horizon.            *)
Sales(h) == {i \in Launch!Kinds("sell", OpenTime + 1, h) : txs[i].wallet \in Launch!InsiderSet(OpenTime)}

(* Sales only grow, and after their horizon they do not.                   *)
LEMMA SalesGrow ==
    ASSUME LaunchInv, [Launch!Next]_(Launch!vars), now > OpenTime, NEW h \in Nat
    PROVE  /\ Launch!Amount(Sales(h)) \in Nat /\ Launch!Amount(Sales(h))' \in Nat
           /\ Launch!Amount(Sales(h))' >= Launch!Amount(Sales(h))
           /\ now > h => Launch!Amount(Sales(h))' = Launch!Amount(Sales(h))
<1>1. OpenTime \in Nat /\ OpenTime < now /\ now \in Nat
  BY PartsAssumption DEF Launch!LaunchAssumption, LaunchInv
<1>2. PICK n : n = Len(txs)
  OBVIOUS
<1>3. PICK insiders : insiders = Launch!InsiderSet(OpenTime)
  OBVIOUS
<1>4. Launch!InsiderSet(OpenTime)' = insiders
  BY <1>1, <1>3, ClosedPastStays
<1>5. PICK S : S = Sales(h)
  OBVIOUS
<1>6. n \in Nat /\ DOMAIN txs = 1..n
  BY <1>2 DEF LaunchInv
<1>7. S = {i \in 1..n : /\ txs[i].kind = "sell" /\ OpenTime + 1 <= txs[i].ts /\ txs[i].ts <= h
                        /\ txs[i].wallet \in insiders}
  BY <1>3, <1>5, <1>6 DEF Sales, Launch!Kinds
<1>8. Launch!Amount(S) \in Nat
  BY <1>2, <1>7, AmountType
<1>9. PICK T : T = Sales(h)'
  OBVIOUS
<1>10. Launch!Amount(Sales(h)) = Launch!Amount(S) /\ Launch!Amount(Sales(h))' = Launch!Amount(T)'
  BY <1>5, <1>9 DEF Launch!Amount
<1>11. CASE txs' = txs
  <2>1. T = S
    BY <1>4, <1>6, <1>7, <1>9, <1>11 DEF Sales, Launch!Kinds
  <2>2. Launch!Amount(S)' = Launch!Amount(S)
    BY <1>11 DEF Launch!Amount
  <2> QED BY <1>8, <1>10, <2>1, <2>2
<1>12. ASSUME NEW r, NewTx(r)
       PROVE  /\ Launch!Amount(T)' \in Nat /\ Launch!Amount(T)' >= Launch!Amount(S)
              /\ now > h => Launch!Amount(T)' = Launch!Amount(S)
  <2>1. /\ txs'[n + 1] = r /\ r.ts = now /\ DOMAIN txs' = 1..n + 1
        /\ \A i \in 1..n : txs'[i] = txs[i]
    BY <1>2, <1>12, RecordsStay DEF NewTx
  <2>2. T = {i \in 1..n + 1 : /\ txs'[i].kind = "sell" /\ OpenTime + 1 <= txs'[i].ts /\ txs'[i].ts <= h
                             /\ txs'[i].wallet \in insiders}
    BY <1>4, <1>9, <2>1 DEF Sales, Launch!Kinds
  <2>3. 1..n + 1 = (1..n) \cup {n + 1}
    BY <1>6
  <2>4. T = S \/ T = S \cup {n + 1}
    <3>1. T \subseteq S \cup {n + 1} /\ S \subseteq T
      BY <1>7, <2>1, <2>2, <2>3
    <3> QED BY <3>1
  <2>5. now > h => T = S
    <3>1. now > h => n + 1 \notin T
      BY <1>1, <2>1, <2>2
    <3>2. n + 1 \notin S
      BY <1>6, <1>7
    <3> QED BY <2>4, <3>1, <3>2
  <2>6. S \subseteq 1..n
    BY <1>7
  <2>7. /\ Launch!Amount(S)' = Launch!Amount(S)
        /\ Launch!Amount(S \cup {n + 1})' = Launch!Amount(S) + r.amount
        /\ r.amount \in Nat
    BY <1>2, <1>12, <2>6, AmountsStay
  <2>8. CASE T = S
    BY <1>8, <2>7, <2>8
  <2>9. CASE T = S \cup {n + 1} /\ ~(now > h)
    <3>1. Launch!Amount(T)' = Launch!Amount(S) + r.amount
      BY <2>7, <2>9
    <3> QED BY <1>8, <2>7, <2>9, <3>1
  <2> QED BY <2>4, <2>5, <2>8, <2>9
<1> QED BY <1>8, <1>10, <1>11, <1>12, LaunchMoves

(* What the insiders held when the window closed is a fixed number.        *)
LEMMA StakeIsSettled ==
    ASSUME LaunchInv, [Launch!Next]_(Launch!vars), now > OpenTime,
           NEW stake, stake = [w \in Launch!InsiderSet(OpenTime) |->
                                 IF Launch!Holds(w, OpenTime) > 0 THEN Launch!Holds(w, OpenTime) ELSE 0],
           NEW insiders, insiders = Launch!InsiderSet(OpenTime)
    PROVE  /\ stake = [w \in Launch!InsiderSet(OpenTime)' |->
                          IF Launch!Holds(w, OpenTime)' > 0 THEN Launch!Holds(w, OpenTime)' ELSE 0]
           /\ insiders = Launch!InsiderSet(OpenTime)'
           /\ SumOver(stake, insiders) \in Nat
<1>1. OpenTime \in Nat /\ OpenTime < now /\ IsFiniteSet(Traders)
  BY PartsAssumption DEF Launch!LaunchAssumption, LaunchInv, Launch!IsFiniteSet, IsFiniteSet
<1>2. /\ Launch!InsiderSet(OpenTime)' = Launch!InsiderSet(OpenTime)
      /\ \A w : Launch!Holds(w, OpenTime)' = Launch!Holds(w, OpenTime)
  BY <1>1, ClosedPastStays
<1>3. IsFiniteSet(insiders)
  <2>1. IsFiniteSet(Launch!Wallets)
    <3>1. Launch!Wallets = Traders \cup {Dev}
      BY DEF Launch!Wallets
    <3> QED BY <1>1, <3>1, FS_AddElement
  <2>2. insiders \subseteq Launch!Wallets
    BY DEF Launch!InsiderSet, Launch!Wallets
  <2> QED BY <2>1, <2>2, FS_Subset
<1>4. \A w : Launch!Holds(w, OpenTime) \in Int
  <2> TAKE w
  <2>1. DOMAIN txs = 1..Len(txs)
    BY DEF LaunchInv
  <2>2. PICK a, b, d :
          /\ a = {i \in Launch!Kinds("mint_to", 0, OpenTime) \cup Launch!Kinds("transfer", 0, OpenTime) : txs[i].wallet = w}
          /\ b = {i \in Launch!Kinds("transfer", 0, OpenTime) : txs[i].source = w}
          /\ d = {i \in Launch!Kinds("sell", 0, OpenTime) : txs[i].wallet = w}
    OBVIOUS
  <2>3. a \subseteq 1..Len(txs) /\ b \subseteq 1..Len(txs) /\ d \subseteq 1..Len(txs)
    BY <2>1, <2>2 DEF Launch!Kinds
  <2>4. Launch!Amount(a) \in Nat /\ Launch!Amount(b) \in Nat /\ Launch!Amount(d) \in Nat
    BY <2>3, AmountType
  <2>5. Launch!Holds(w, OpenTime) = Launch!Amount(a) - Launch!Amount(b) - Launch!Amount(d)
    BY <2>2 DEF Launch!Holds
  <2> QED BY <2>4, <2>5
<1>5. \A w \in insiders : stake[w] \in Nat /\ stake[w] \in Int
  BY <1>4
<1>6. SumOver(stake, insiders) \in Nat
  BY <1>3, <1>5, SumType
<1> QED BY <1>2, <1>6

(* After the window the verdict only worsens, after the slow horizon it    *)
(* stands.                                                                 *)
LEMMA LabelOnlyWorsens ==
    ASSUME LaunchInv, [Launch!Next]_(Launch!vars), now > OpenTime
    PROVE  /\ Launch!Severity(Launch!Label') >= Launch!Severity(Launch!Label)
           /\ now > SlowTime => Launch!Label' = Launch!Label
<1>1. PICK insiders : insiders = Launch!InsiderSet(OpenTime)
  OBVIOUS
<1>2. PICK stake : stake = [w \in Launch!InsiderSet(OpenTime) |->
                              IF Launch!Holds(w, OpenTime) > 0 THEN Launch!Holds(w, OpenTime) ELSE 0]
  OBVIOUS
<1>3. PICK stock : stock = SumOver(stake, insiders)
  OBVIOUS
<1>4. /\ stake = [w \in Launch!InsiderSet(OpenTime)' |->
                     IF Launch!Holds(w, OpenTime)' > 0 THEN Launch!Holds(w, OpenTime)' ELSE 0]
      /\ insiders = Launch!InsiderSet(OpenTime)' /\ stock \in Nat
  BY <1>1, <1>2, <1>3, StakeIsSettled
<1>5. /\ SoftTime \in Nat /\ SlowTime \in Nat /\ SoftTime <= SlowTime /\ now \in Nat
      /\ Share[1] \in Nat /\ Share[2] \in Nat
  BY PartsAssumption DEF Launch!LaunchAssumption, LaunchInv
<1> DEFINE Verdict(soft, slow) ==
             IF stock > 0 /\ Share[2] * soft >= Share[1] * stock THEN "soft_rug"
             ELSE IF stock > 0 /\ Share[2] * slow >= Share[1] * stock THEN "slow_rug" ELSE "honest_candidate"
<1>6. PICK soft, slow : soft = Launch!Amount(Sales(SoftTime)) /\ slow = Launch!Amount(Sales(SlowTime))
  OBVIOUS
<1>7. PICK soft1, slow1 : soft1 = Launch!Amount(Sales(SoftTime))' /\ slow1 = Launch!Amount(Sales(SlowTime))'
  OBVIOUS
<1>8. Launch!Label = Verdict(soft, slow)
  BY <1>1, <1>2, <1>3, <1>6, LaunchSums DEF Launch!Label, Sales
<1>9. Launch!Label' = Verdict(soft1, slow1)
  BY <1>3, <1>4, <1>7, LaunchSums DEF Launch!Label, Sales
<1>10. /\ soft \in Nat /\ soft1 \in Nat /\ soft1 >= soft /\ (now > SoftTime => soft1 = soft)
       /\ slow \in Nat /\ slow1 \in Nat /\ slow1 >= slow /\ (now > SlowTime => slow1 = slow)
  BY <1>5, <1>6, <1>7, SalesGrow
<1>11. \A x, y, m \in Nat : x <= y => m * x <= m * y
  OBVIOUS
<1>12. Share[2] * soft1 >= Share[2] * soft /\ Share[2] * slow1 >= Share[2] * slow
  BY <1>5, <1>10, <1>11
<1>13. /\ Share[2] * soft \in Nat /\ Share[2] * soft1 \in Nat /\ Share[2] * slow \in Nat
       /\ Share[2] * slow1 \in Nat /\ Share[1] * stock \in Nat
  BY <1>4, <1>5, <1>10
<1>14. Launch!Severity(Verdict(soft1, slow1)) >= Launch!Severity(Verdict(soft, slow))
  <2>1. PICK p, p1, q, q1, k : /\ p = Share[2] * soft /\ p1 = Share[2] * soft1
                               /\ q = Share[2] * slow /\ q1 = Share[2] * slow1 /\ k = Share[1] * stock
    OBVIOUS
  <2>2. /\ p \in Nat /\ p1 \in Nat /\ q \in Nat /\ q1 \in Nat /\ k \in Nat /\ p1 >= p /\ q1 >= q
    BY <1>12, <1>13, <2>1
  <2>3. /\ Launch!Severity("soft_rug") = 2 /\ Launch!Severity("slow_rug") = 1
        /\ Launch!Severity("honest_candidate") = 0
    BY DEF Launch!Severity
  <2> QED BY <2>1, <2>2, <2>3
<1>15. now > SlowTime => soft1 = soft /\ slow1 = slow
  BY <1>5, <1>10
<1> HIDE DEF Verdict
<1> QED BY <1>8, <1>9, <1>14, <1>15
-----------------------------------------------------------------------------
(* The rows of a coin: one after the other in time.                        *)
FundingRow == [time : Nat, rate : Int]
InTime(s) == s \in Seq(FundingRow) /\ \A i, j \in DOMAIN s : i < j => s[i].time < s[j].time

(* The study's sums are those of the lemmas.                               *)
LEMMA StudySums ==
    /\ \A s : Carry!SumSeq(s) = SumOver(s, DOMAIN s)
    /\ \A S : Carry!Min(S) = Min(S) /\ Carry!Max(S) = Max(S)
<1>1. ASSUME NEW s PROVE Carry!SumSeq(s) = SumOver(s, DOMAIN s)
  BY DEF Carry!SumSeq, Carry!FoldSeq, Carry!FoldFunction, Carry!FoldFunctionOnSet, Carry!MapThenFoldSet,
         Pick, SumTable, SumOver
<1>2. ASSUME NEW S PROVE Carry!Min(S) = Min(S) /\ Carry!Max(S) = Max(S)
  BY DEF Carry!Min, Carry!Max, Min, Max
<1> QED BY <1>1, <1>2

(* The smaller of two numbers.                                             *)
LEMMA SmallerOf ==
    ASSUME NEW a \in Int, NEW b \in Int PROVE Min({a, b}) = IF a <= b THEN a ELSE b
<1> DEFINE m == IF a <= b THEN a ELSE b
<1>1. m \in {a, b} /\ \A y \in {a, b} : m <= y
  OBVIOUS
<1>2. \A x \in {a, b} : (\A y \in {a, b} : x <= y) => x = m
  OBVIOUS
<1> HIDE DEF m
<1>3. Min({a, b}) \in {a, b} /\ \A y \in {a, b} : Min({a, b}) <= y
  BY <1>1 DEF Min
<1> QED BY <1>2, <1>3 DEF m

(* Each row but the last is credited the time to the next, up to a bound.  *)
LEMMA SpansAre ==
    ASSUME Carry!FundingAssumption, NEW s, InTime(s), s # <<>>, NEW n, n = Len(s)
    PROVE  /\ n \in Nat \ {0} /\ DOMAIN s = 1..n /\ DOMAIN Carry!Intervals(s) = 1..n
           /\ \A i \in 1..n : Carry!Intervals(s)[i] \in Nat /\ s[i] \in FundingRow
           /\ \A i \in 1..(n - 1) :
                 LET gap == s[i + 1].time - s[i].time
                 IN  Carry!Intervals(s)[i] = IF gap <= CreditedMost THEN gap ELSE CreditedMost
<1>0. n \in Nat \ {0} /\ DOMAIN s = 1..n /\ CreditedMost \in Nat /\ CreditedFirst \in Nat
      /\ \A i \in 1..n : s[i] \in FundingRow /\ s[i].time \in Nat
  <2>1. CreditedMost \in Nat /\ CreditedFirst \in Nat
    BY DEF Carry!FundingAssumption
  <2>2. n \in Nat \ {0} /\ DOMAIN s = 1..n /\ \A i \in 1..n : s[i] \in FundingRow
    BY DEF InTime
  <2>3. \A i \in 1..n : s[i].time \in Nat
    BY <2>2 DEF FundingRow
  <2> QED BY <2>1, <2>2, <2>3
<1> DEFINE gap(i) == Carry!Min({s[i + 1].time - s[i].time, CreditedMost})
<1>1. ASSUME NEW i \in 1..(n - 1)
      PROVE  /\ gap(i) \in Nat
             /\ gap(i) = IF s[i + 1].time - s[i].time <= CreditedMost THEN s[i + 1].time - s[i].time ELSE CreditedMost
  <2>1. i \in 1..n /\ i + 1 \in 1..n /\ i < i + 1
    BY <1>0
  <2>2. s[i].time < s[i + 1].time /\ s[i].time \in Nat /\ s[i + 1].time \in Nat
    BY <1>0, <2>1 DEF InTime
  <2>3. PICK g \in Nat : g = s[i + 1].time - s[i].time
    BY <2>2
  <2>4. Min({g, CreditedMost}) = IF g <= CreditedMost THEN g ELSE CreditedMost
    BY <1>0, SmallerOf
  <2> QED BY <1>0, <2>3, <2>4, StudySums
<1> HIDE DEF gap
<1>2. CASE n = 1
  <2>1. Carry!Intervals(s) = <<CreditedFirst>>
    BY <1>2 DEF Carry!Intervals
  <2>2. 1..(n - 1) = {} /\ DOMAIN <<CreditedFirst>> = 1..n /\ \A i \in 1..n : <<CreditedFirst>>[i] = CreditedFirst
    BY <1>2
  <2> QED BY <1>0, <2>1, <2>2
<1>3. CASE n # 1
  <2>1. Carry!Intervals(s) = [i \in 1..n |-> gap(Carry!Min({i, n - 1}))]
    BY <1>0, <1>3 DEF Carry!Intervals, gap
  <2>2. ASSUME NEW i \in 1..n
        PROVE  /\ Carry!Min({i, n - 1}) = IF i <= n - 1 THEN i ELSE n - 1
               /\ Carry!Min({i, n - 1}) \in 1..(n - 1)
    <3>1. i \in Int /\ n - 1 \in Int
      BY <1>0
    <3>2. Min({i, n - 1}) = IF i <= n - 1 THEN i ELSE n - 1
      BY <3>1, SmallerOf
    <3>3. Carry!Min({i, n - 1}) = IF i <= n - 1 THEN i ELSE n - 1
      BY <3>2, StudySums
    <3>4. (IF i <= n - 1 THEN i ELSE n - 1) \in 1..(n - 1)
      BY <1>0, <1>3
    <3> QED BY <3>3, <3>4
  <2>3. \A i \in 1..n : Carry!Intervals(s)[i] = gap(Carry!Min({i, n - 1})) /\ gap(Carry!Min({i, n - 1})) \in Nat
    BY <1>1, <2>1, <2>2
  <2>4. ASSUME NEW i \in 1..(n - 1) PROVE Carry!Intervals(s)[i] = gap(i)
    <3>1. i \in 1..n /\ i <= n - 1
      BY <1>0
    <3> QED BY <2>2, <2>3, <3>1
  <2> QED BY <1>0, <1>1, <2>1, <2>3, <2>4
<1> QED BY <1>2, <1>3

(* What is added up of the rows: the time credited, the rates, and those   *)
(* of the negative rows.                                                   *)
Credits(s) == Carry!Intervals(s)
Paid(s) == [i \in DOMAIN s |-> s[i].rate]
CreditsBelow(s) == [i \in DOMAIN s |-> IF s[i].rate < 0 THEN Carry!Intervals(s)[i] ELSE 0]
PaidBelow(s) == [i \in DOMAIN s |-> IF s[i].rate < 0 THEN s[i].rate ELSE 0]

(* They are integers.                                                      *)
LEMMA AddendsType ==
    ASSUME Carry!FundingAssumption, NEW s, InTime(s), s # <<>>, NEW n, n = Len(s)
    PROVE  /\ n \in Nat \ {0} /\ DOMAIN s = 1..n
           /\ \A i \in 1..n : /\ Credits(s)[i] \in Nat /\ Credits(s)[i] \in Int
                              /\ s[i].rate \in Int /\ s[i].time \in Nat
                              /\ Paid(s)[i] = s[i].rate /\ Paid(s)[i] \in Int
                              /\ CreditsBelow(s)[i] = (IF s[i].rate < 0 THEN Credits(s)[i] ELSE 0)
                              /\ PaidBelow(s)[i] = (IF s[i].rate < 0 THEN Paid(s)[i] ELSE 0)
                              /\ CreditsBelow(s)[i] \in Nat /\ CreditsBelow(s)[i] \in Int
                              /\ PaidBelow(s)[i] \in Int
<1>1. /\ n \in Nat \ {0} /\ DOMAIN s = 1..n /\ DOMAIN Credits(s) = 1..n
      /\ \A i \in 1..n : Credits(s)[i] \in Nat /\ s[i] \in FundingRow
  BY SpansAre DEF Credits
<1>2. \A i \in 1..n : s[i].rate \in Int /\ s[i].time \in Nat
  BY <1>1 DEF FundingRow
<1>3. \A i \in 1..n : Paid(s)[i] = s[i].rate
  BY <1>1 DEF Paid
<1>4. \A i \in 1..n : CreditsBelow(s)[i] = (IF s[i].rate < 0 THEN Credits(s)[i] ELSE 0)
  BY <1>1 DEF CreditsBelow, Credits
<1>5. \A i \in 1..n : PaidBelow(s)[i] = (IF s[i].rate < 0 THEN Paid(s)[i] ELSE 0)
  BY <1>1, <1>3 DEF PaidBelow
<1> QED BY <1>1, <1>2, <1>3, <1>4, <1>5

(* What a run reports of the rows it holds.                                *)
LEMMA RunReports ==
    ASSUME Carry!FundingAssumption, NEW s, InTime(s), s # <<>>, NEW n, n = Len(s),
           NEW a \in 1..n, NEW b \in a..n, NEW t
    PROVE  Carry!Run(s, a, b, t) =
             [start |-> s[a].time, end |-> t,
              hours |-> SumTo(Credits(s), b) - SumTo(Credits(s), a - 1),
              cost |-> SumTo(Paid(s), b) - SumTo(Paid(s), a - 1)]
<1>1. /\ n \in Nat \ {0} /\ DOMAIN s = 1..n /\ DOMAIN Credits(s) = 1..n
      /\ \A i \in 1..n : Credits(s)[i] \in Nat
  BY SpansAre DEF Credits
<1>2. \A i \in 1..n : Credits(s)[i] \in Int /\ Paid(s)[i] \in Int /\ Paid(s)[i] = s[i].rate
  BY <1>1, AddendsType
<1>3. a \in 1..(n + 1) /\ b \in (a - 1)..n /\ a \in Int /\ b \in Int /\ a <= b
      /\ \A i \in 1..(b - a + 1) : a + i - 1 \in 1..n
  BY <1>1
<1>4. DOMAIN SubSeq(Credits(s), a, b) = 1..(b - a + 1)
      /\ \A i \in 1..(b - a + 1) : SubSeq(Credits(s), a, b)[i] = Credits(s)[a + i - 1]
  <2>1. Credits(s) \in Seq(Nat) /\ Len(Credits(s)) = n
    <3>1. Credits(s) \in [1..n -> Nat]
      <4>1. Credits(s) = [i \in 1..n |-> Credits(s)[i]]
        <5>1. Len(s) # 1 => Credits(s) = [i \in DOMAIN s |-> Carry!Intervals(s)[i]]
          BY DEF Credits, Carry!Intervals
        <5>2. Len(s) = 1 => Credits(s) = <<CreditedFirst>>
          BY DEF Credits, Carry!Intervals
        <5>3. <<CreditedFirst>> = [i \in 1..1 |-> CreditedFirst]
          OBVIOUS
        <5> QED BY <1>1, <5>1, <5>2, <5>3 DEF Credits
      <4> QED BY <1>1, <4>1
    <3> QED BY <1>1, <3>1, TableIsSeq
  <2>2. \A i \in a..b : Credits(s)[i] \in Nat
    BY <1>1, <1>3
  <2> QED BY <1>3, <2>1, SubSeqProperties
<1>5. Carry!SumSeq(SubSeq(Credits(s), a, b)) = SumTo(Credits(s), b) - SumTo(Credits(s), a - 1)
  BY <1>1, <1>2, <1>3, <1>4, SumOfPiece, StudySums
<1> DEFINE C == [i \in 1..(b - a + 1) |-> s[a + i - 1].rate]
<1>6. DOMAIN C = 1..(b - a + 1) /\ \A i \in 1..(b - a + 1) : C[i] = Paid(s)[a + i - 1]
  BY <1>2, <1>3
<1>7. Carry!SumSeq(C) = SumTo(Paid(s), b) - SumTo(Paid(s), a - 1)
  <2> HIDE DEF C
  <2> QED BY <1>1, <1>2, <1>3, <1>6, SumOfPiece, StudySums
<1> QED BY <1>5, <1>7 DEF Carry!Run, Credits

Reported == [start : Nat, end : Nat, hours : Int, cost : Int]
HoursOf(runs) == [i \in DOMAIN runs |-> runs[i].hours]
CostsOf(runs) == [i \in DOMAIN runs |-> runs[i].cost]

(* The runs are those of the first k rows: run i holds the rows A[i] to    *)
(* B[i], all of them negative, up to a row that is not; runs are apart,    *)
(* every negative row is in one, and together they add up.                 *)
RunsUpTo(s, runs, A, B, k) ==
    /\ runs \in Seq(Reported)
    /\ \A i \in 1..Len(runs) :
          /\ A[i] \in 1..k /\ B[i] \in A[i]..k
          /\ runs[i] = Carry!Run(s, A[i], B[i], runs[i].end)
          /\ \A j \in A[i]..B[i] : s[j].rate < 0
          /\ B[i] < k => s[B[i] + 1].rate >= 0 /\ runs[i].end = s[B[i] + 1].time
    /\ \A i \in 1..(Len(runs) - 1) : B[i] + 1 < A[i + 1]
    /\ \A j \in 1..k : s[j].rate < 0 => \E i \in 1..Len(runs) : A[i] <= j /\ j <= B[i]
    /\ SumOver(HoursOf(runs), DOMAIN HoursOf(runs)) = SumTo(CreditsBelow(s), k)
    /\ SumOver(CostsOf(runs), DOMAIN CostsOf(runs)) = SumTo(PaidBelow(s), k)

(* A row that is not negative is in no run.                                *)
LEMMA RunsSkip ==
    ASSUME Carry!FundingAssumption, NEW s, InTime(s), s # <<>>, NEW n, n = Len(s),
           NEW runs, NEW A, NEW B, NEW k \in 0..(n - 1), RunsUpTo(s, runs, A, B, k), s[k + 1].rate >= 0,
           \A i \in 1..Len(runs) : B[i] = k => runs[i].end = s[k + 1].time
    PROVE  RunsUpTo(s, runs, A, B, k + 1)
<1>0. n \in Nat \ {0} /\ k \in Nat /\ k + 1 \in 1..n /\ (k + 1) - 1 = k /\ \A i \in 1..n : s[i].rate \in Int
  <2>1. n \in Nat \ {0}
    BY AddendsType
  <2> QED BY <2>1, AddendsType
<1>1. ~(s[k + 1].rate < 0)
  BY <1>0
<1>2. SumTo(CreditsBelow(s), k + 1) = SumTo(CreditsBelow(s), k) /\ SumTo(PaidBelow(s), k + 1) = SumTo(PaidBelow(s), k)
  <2>1. /\ \A i \in 1..n : CreditsBelow(s)[i] \in Int /\ PaidBelow(s)[i] \in Int
        /\ CreditsBelow(s)[k + 1] = 0 /\ PaidBelow(s)[k + 1] = 0
    BY <1>0, <1>1, AddendsType
  <2>2. k \in 0..n
    BY <1>0
  <2>a. /\ \A i \in 1..n : SumTo(CreditsBelow(s), i) = SumTo(CreditsBelow(s), i - 1) + CreditsBelow(s)[i]
        /\ \A i \in 0..n : SumTo(CreditsBelow(s), i) \in Int
    BY <1>0, <2>1, SumToSteps
  <2>b. /\ \A i \in 1..n : SumTo(PaidBelow(s), i) = SumTo(PaidBelow(s), i - 1) + PaidBelow(s)[i]
        /\ \A i \in 0..n : SumTo(PaidBelow(s), i) \in Int
    BY <1>0, <2>1, SumToSteps
  <2>3. /\ SumTo(CreditsBelow(s), k + 1) = SumTo(CreditsBelow(s), k) + 0 /\ SumTo(CreditsBelow(s), k) \in Int
    BY <1>0, <2>1, <2>2, <2>a
  <2>4. /\ SumTo(PaidBelow(s), k + 1) = SumTo(PaidBelow(s), k) + 0 /\ SumTo(PaidBelow(s), k) \in Int
    BY <1>0, <2>1, <2>2, <2>b
  <2> QED BY <2>3, <2>4
<1>3. ASSUME NEW i \in 1..Len(runs)
      PROVE  /\ A[i] \in 1..(k + 1) /\ B[i] \in A[i]..(k + 1)
             /\ B[i] < k + 1 => s[B[i] + 1].rate >= 0 /\ runs[i].end = s[B[i] + 1].time
  <2>1. A[i] \in 1..k /\ B[i] \in A[i]..k /\ (B[i] < k => s[B[i] + 1].rate >= 0 /\ runs[i].end = s[B[i] + 1].time)
        /\ (B[i] = k => runs[i].end = s[k + 1].time)
    BY DEF RunsUpTo
  <2>2. CASE B[i] = k
    BY <1>0, <2>1, <2>2
  <2>3. CASE B[i] # k
    BY <1>0, <2>1, <2>3
  <2> QED BY <2>2, <2>3
<1>4. ASSUME NEW j \in 1..(k + 1), s[j].rate < 0 PROVE \E i \in 1..Len(runs) : A[i] <= j /\ j <= B[i]
  <2>1. j \in 1..k
    BY <1>0, <1>1, <1>4
  <2> QED BY <1>4, <2>1 DEF RunsUpTo
<1> QED BY <1>2, <1>3, <1>4 DEF RunsUpTo

(* A stretch of negative rows, f to k, that follows the runs.              *)
Closing(s, runs, A, B, f, k, t, q) ==
    /\ f \in 1..Len(s) /\ k \in f..Len(s) /\ RunsUpTo(s, runs, A, B, f - 1)
    /\ f = 1 \/ s[f - 1].rate >= 0
    /\ \A j \in f..k : s[j].rate < 0
    /\ t \in Nat /\ q = Append(runs, Carry!Run(s, f, k, t))

(* It makes a run.                                                         *)
LEMMA RunsClose ==
    ASSUME Carry!FundingAssumption, NEW s, InTime(s), s # <<>>, NEW n, n = Len(s),
           NEW runs, NEW A, NEW B, NEW f, NEW k, NEW t, NEW q, Closing(s, runs, A, B, f, k, t, q)
    PROVE  \E C, D : RunsUpTo(s, q, C, D, k) /\ \A i \in 1..Len(q) : D[i] = k => q[i].end = t
<1>a. /\ f \in 1..n /\ k \in f..n /\ RunsUpTo(s, runs, A, B, f - 1)
      /\ f = 1 \/ s[f - 1].rate >= 0
      /\ \A j \in f..k : s[j].rate < 0
      /\ t \in Nat /\ q = Append(runs, Carry!Run(s, f, k, t))
  BY DEF Closing
<1> DEFINE r == Carry!Run(s, f, k, t)
           m == Len(runs)
           C == [i \in 1..(m + 1) |-> IF i = m + 1 THEN f ELSE A[i]]
           D == [i \in 1..(m + 1) |-> IF i = m + 1 THEN k ELSE B[i]]
<1>0. /\ n \in Nat \ {0} /\ f \in Nat /\ k \in Nat /\ 1 <= f /\ f <= k /\ k <= n
      /\ f - 1 \in 0..n /\ k \in 0..n /\ f \in 1..(n + 1) /\ k \in (f - 1)..n /\ f \in 1..n
  <2>1. n \in Nat \ {0}
    BY AddendsType
  <2> QED BY <1>a, <2>1
<1>1. /\ r = [start |-> s[f].time, end |-> t,
              hours |-> SumTo(Credits(s), k) - SumTo(Credits(s), f - 1),
              cost |-> SumTo(Paid(s), k) - SumTo(Paid(s), f - 1)]
  BY <1>0, RunReports
<1>2. \A i \in 1..n : /\ Credits(s)[i] \in Int /\ Paid(s)[i] \in Int
                      /\ CreditsBelow(s)[i] \in Int /\ PaidBelow(s)[i] \in Int
                      /\ s[i].rate \in Int /\ s[i].time \in Nat
  BY AddendsType
<1>3. /\ SumTo(Credits(s), k) \in Int /\ SumTo(Credits(s), f - 1) \in Int
      /\ SumTo(Paid(s), k) \in Int /\ SumTo(Paid(s), f - 1) \in Int
      /\ SumTo(CreditsBelow(s), k) \in Int /\ SumTo(CreditsBelow(s), f - 1) \in Int
      /\ SumTo(PaidBelow(s), k) \in Int /\ SumTo(PaidBelow(s), f - 1) \in Int
  BY <1>0, <1>2, SumToSteps
<1>4. r \in Reported /\ r.end = t
  BY <1>a, <1>0, <1>1, <1>2, <1>3 DEF Reported
<1>5. runs \in Seq(Reported) /\ m \in Nat /\ DOMAIN runs = 1..m
  BY <1>a DEF RunsUpTo
<1>6. /\ q \in Seq(Reported) /\ Len(q) = m + 1 /\ q[m + 1] = r /\ \A i \in 1..m : q[i] = runs[i]
      /\ DOMAIN q = 1..(m + 1)
  BY <1>a, <1>4, <1>5, AppendProperties
<1> HIDE DEF m, r
<1>7. /\ C[m + 1] = f /\ D[m + 1] = k
      /\ \A i \in 1..m : i \in 1..(m + 1) /\ i # m + 1 /\ C[i] = A[i] /\ D[i] = B[i]
  BY <1>5
<1> HIDE DEF C, D
<1>8. ASSUME NEW i \in 1..m
      PROVE  /\ A[i] \in 1..(f - 1) /\ B[i] \in A[i]..(f - 1) /\ B[i] + 1 < f
             /\ runs[i] = Carry!Run(s, A[i], B[i], runs[i].end)
             /\ \A j \in A[i]..B[i] : s[j].rate < 0
             /\ s[B[i] + 1].rate >= 0 /\ runs[i].end = s[B[i] + 1].time
  <2>1. /\ A[i] \in 1..(f - 1) /\ B[i] \in A[i]..(f - 1)
        /\ runs[i] = Carry!Run(s, A[i], B[i], runs[i].end)
        /\ \A j \in A[i]..B[i] : s[j].rate < 0
        /\ B[i] < f - 1 => s[B[i] + 1].rate >= 0 /\ runs[i].end = s[B[i] + 1].time
    BY <1>a DEF RunsUpTo, m
  <2>2. B[i] # f - 1
    <3> SUFFICES ASSUME B[i] = f - 1 PROVE FALSE
      OBVIOUS
    <3>1. f - 1 \in 1..n /\ f # 1 /\ f - 1 \in A[i]..B[i]
      BY <1>0, <2>1
    <3>2. s[f - 1].rate < 0 /\ s[f - 1].rate >= 0 /\ s[f - 1].rate \in Int
      BY <1>a, <1>2, <2>1, <3>1
    <3> QED BY <3>2
  <2>3. B[i] < f - 1 /\ B[i] + 1 < f
    BY <1>0, <2>1, <2>2
  <2> QED BY <2>1, <2>3
<1>9. ASSUME NEW i \in 1..Len(q)
      PROVE  /\ C[i] \in 1..k /\ D[i] \in C[i]..k
             /\ q[i] = Carry!Run(s, C[i], D[i], q[i].end)
             /\ \A j \in C[i]..D[i] : s[j].rate < 0
             /\ D[i] < k => s[D[i] + 1].rate >= 0 /\ q[i].end = s[D[i] + 1].time
             /\ D[i] = k => q[i].end = t
  <2>1. CASE i = m + 1
    BY <1>a, <1>0, <1>4, <1>6, <1>7, <2>1 DEF r
  <2>2. CASE i \in 1..m
    <3>1. A[i] \in 1..k /\ B[i] \in A[i]..k /\ B[i] < k
      BY <1>0, <1>8, <2>2
    <3>2. C[i] = A[i] /\ D[i] = B[i] /\ q[i] = runs[i] /\ D[i] # k
      BY <1>6, <1>7, <2>2, <3>1
    <3>3. C[i] \in 1..k /\ D[i] \in C[i]..k
      BY <3>1, <3>2
    <3>4. /\ q[i] = Carry!Run(s, C[i], D[i], q[i].end) /\ (\A j \in C[i]..D[i] : s[j].rate < 0)
          /\ s[D[i] + 1].rate >= 0 /\ q[i].end = s[D[i] + 1].time
      BY <1>8, <2>2, <3>2
    <3> QED BY <3>2, <3>3, <3>4
  <2>3. i = m + 1 \/ i \in 1..m
    BY <1>5, <1>6
  <2> QED BY <2>1, <2>2, <2>3
<1>10. ASSUME NEW i \in 1..(Len(q) - 1) PROVE D[i] + 1 < C[i + 1]
  <2>1. i \in 1..m /\ i + 1 \in 1..(m + 1)
    BY <1>5, <1>6
  <2>2. CASE i = m
    BY <1>7, <1>8, <2>1, <2>2
  <2>3. CASE i # m
    <3>1. i \in 1..(m - 1) /\ i + 1 \in 1..m
      BY <1>5, <2>1, <2>3
    <3>2. B[i] + 1 < A[i + 1]
      BY <1>a, <3>1 DEF RunsUpTo, m
    <3> QED BY <1>7, <2>1, <3>1, <3>2
  <2> QED BY <2>2, <2>3
<1>11. ASSUME NEW j \in 1..k, s[j].rate < 0 PROVE \E i \in 1..Len(q) : C[i] <= j /\ j <= D[i]
  <2>1. CASE j >= f
    <3>1. m + 1 \in 1..Len(q)
      BY <1>5, <1>6
    <3> QED BY <1>0, <1>7, <2>1, <3>1
  <2>2. CASE ~(j >= f)
    <3>1. j \in 1..(f - 1)
      BY <1>0, <2>2
    <3>2. PICK i \in 1..m : A[i] <= j /\ j <= B[i]
      BY <1>a, <1>11, <3>1 DEF RunsUpTo, m
    <3> QED BY <1>6, <1>7, <3>2
  <2> QED BY <2>1, <2>2
<1>12. /\ SumTo(Credits(s), k) - SumTo(Credits(s), f - 1) = SumTo(CreditsBelow(s), k) - SumTo(CreditsBelow(s), f - 1)
       /\ SumTo(Paid(s), k) - SumTo(Paid(s), f - 1) = SumTo(PaidBelow(s), k) - SumTo(PaidBelow(s), f - 1)
  <2>1. \A j \in f..k : j \in 1..n /\ CreditsBelow(s)[j] = Credits(s)[j] /\ PaidBelow(s)[j] = Paid(s)[j]
    BY <1>a, <1>0, AddendsType
  <2>2. Coincide(Credits(s), CreditsBelow(s), f, k, n) /\ Coincide(Paid(s), PaidBelow(s), f, k, n)
    BY <1>a, <1>0, <1>2, <2>1 DEF Coincide
  <2> QED BY <2>2, PieceAgrees
<1>13. SumOver(HoursOf(q), DOMAIN HoursOf(q)) = SumTo(CreditsBelow(s), k)
  <2>1. /\ DOMAIN HoursOf(q) = 1..(m + 1) /\ DOMAIN HoursOf(runs) = 1..m
        /\ \A i \in 1..m : HoursOf(q)[i] = HoursOf(runs)[i]
        /\ HoursOf(q)[m + 1] = r.hours
        /\ \A i \in 1..(m + 1) : HoursOf(q)[i] \in Int
    <3>1. \A i \in 1..(m + 1) : q[i] \in Reported
      BY <1>6
    <3>2. m + 1 \in 1..(m + 1) /\ \A i \in 1..m : i \in 1..(m + 1)
      BY <1>5
    <3> QED BY <1>5, <1>6, <3>1, <3>2 DEF HoursOf, Reported
  <2>2. SumOver(HoursOf(q), DOMAIN HoursOf(q)) = SumOver(HoursOf(runs), DOMAIN HoursOf(runs)) + r.hours
    BY <1>5, <2>1, SumAppend
  <2>3. SumOver(HoursOf(runs), DOMAIN HoursOf(runs)) = SumTo(CreditsBelow(s), f - 1)
    BY <1>a DEF RunsUpTo
  <2>4. r.hours = SumTo(Credits(s), k) - SumTo(Credits(s), f - 1)
    BY <1>1
  <2> QED BY <1>3, <1>12, <2>2, <2>3, <2>4
<1>14. SumOver(CostsOf(q), DOMAIN CostsOf(q)) = SumTo(PaidBelow(s), k)
  <2>1. /\ DOMAIN CostsOf(q) = 1..(m + 1) /\ DOMAIN CostsOf(runs) = 1..m
        /\ \A i \in 1..m : CostsOf(q)[i] = CostsOf(runs)[i]
        /\ CostsOf(q)[m + 1] = r.cost
        /\ \A i \in 1..(m + 1) : CostsOf(q)[i] \in Int
    <3>1. \A i \in 1..(m + 1) : q[i] \in Reported
      BY <1>6
    <3>2. m + 1 \in 1..(m + 1) /\ \A i \in 1..m : i \in 1..(m + 1)
      BY <1>5
    <3> QED BY <1>5, <1>6, <3>1, <3>2 DEF CostsOf, Reported
  <2>2. SumOver(CostsOf(q), DOMAIN CostsOf(q)) = SumOver(CostsOf(runs), DOMAIN CostsOf(runs)) + r.cost
    BY <1>5, <2>1, SumAppend
  <2>3. SumOver(CostsOf(runs), DOMAIN CostsOf(runs)) = SumTo(PaidBelow(s), f - 1)
    BY <1>a DEF RunsUpTo
  <2>4. r.cost = SumTo(Paid(s), k) - SumTo(Paid(s), f - 1)
    BY <1>1
  <2> QED BY <1>3, <1>12, <2>2, <2>3, <2>4
<1>15. RunsUpTo(s, q, C, D, k)
  BY <1>6, <1>9, <1>10, <1>11, <1>13, <1>14 DEF RunsUpTo
<1> QED BY <1>9, <1>15

(* What the scan has seen of the first k rows: its runs are those before   *)
(* the negative rows it is in, if it is in some.                           *)
ScannedTo(s, acc, k) ==
    /\ acc.i = k /\ acc.from \in 0..k
    /\ acc.from = 0 => /\ k # 0 => s[k].rate >= 0
                       /\ \E A, B : RunsUpTo(s, acc.runs, A, B, k)
    /\ acc.from # 0 => /\ acc.from = 1 \/ s[acc.from - 1].rate >= 0
                       /\ \A j \in acc.from..k : s[j].rate < 0
                       /\ \E A, B : RunsUpTo(s, acc.runs, A, B, acc.from - 1)

(* A row keeps it so.                                                      *)
LEMMA RowKeepsScan ==
    ASSUME Carry!FundingAssumption, NEW s, InTime(s), s # <<>>, NEW n, n = Len(s),
           NEW k \in 0..(n - 1), NEW acc, acc = [i |-> acc.i, from |-> acc.from, runs |-> acc.runs],
           ScannedTo(s, acc, k)
    PROVE  ScannedTo(s, Carry!ScanRow(s, acc, s[k + 1]), k + 1)
<1> DEFINE next == Carry!ScanRow(s, acc, s[k + 1])
<1>0. /\ n \in Nat \ {0} /\ k \in Nat /\ k + 1 \in 1..n /\ (k + 1) - 1 = k /\ k + 1 # 0
      /\ \A i \in 1..n : s[i].rate \in Int /\ s[i].time \in Nat
  <2>1. n \in Nat \ {0}
    BY AddendsType
  <2> QED BY <2>1, AddendsType
<1>1. acc.i = k /\ acc.from \in 0..k /\ acc.from \in Nat
  BY <1>0 DEF ScannedTo
<1>2. CASE s[k + 1].rate < 0
  <2>1. /\ next.i = k + 1 /\ next.runs = acc.runs
        /\ next.from = IF acc.from = 0 THEN k + 1 ELSE acc.from
    BY <1>1, <1>2 DEF Carry!ScanRow
  <2>2. CASE acc.from = 0
    <3>1. next.from = k + 1 /\ next.from \in 0..(k + 1) /\ next.from # 0 /\ next.from - 1 = k
      BY <1>0, <2>1, <2>2
    <3>2. next.from = 1 \/ s[next.from - 1].rate >= 0
      BY <1>0, <2>2, <3>1 DEF ScannedTo
    <3>3. \A j \in next.from..(k + 1) : s[j].rate < 0
      BY <1>0, <1>2, <3>1
    <3>4. \E A, B : RunsUpTo(s, next.runs, A, B, next.from - 1)
      BY <2>1, <2>2, <3>1 DEF ScannedTo
    <3> HIDE DEF next
    <3> QED BY <2>1, <3>1, <3>2, <3>3, <3>4 DEF ScannedTo, next
  <2>3. CASE acc.from # 0
    <3>1. next.from = acc.from /\ next.from \in 0..(k + 1) /\ next.from # 0
      BY <1>0, <1>1, <2>1, <2>3
    <3>2. \A j \in next.from..(k + 1) : s[j].rate < 0
      <4>1. \A j \in next.from..(k + 1) : j = k + 1 \/ j \in acc.from..k
        BY <1>0, <1>1, <3>1
      <4> QED BY <1>2, <2>3, <4>1 DEF ScannedTo
    <3>3. /\ next.from = 1 \/ s[next.from - 1].rate >= 0
          /\ \E A, B : RunsUpTo(s, next.runs, A, B, next.from - 1)
      BY <2>1, <2>3, <3>1 DEF ScannedTo
    <3> HIDE DEF next
    <3> QED BY <2>1, <3>1, <3>2, <3>3 DEF ScannedTo, next
  <2> QED BY <2>2, <2>3
<1>3. CASE ~(s[k + 1].rate < 0)
  <2>1. s[k + 1].rate >= 0
    BY <1>0, <1>3
  <2>2. CASE acc.from = 0
    <3>1. next.i = k + 1 /\ next.runs = acc.runs /\ next.from = 0
      BY <1>1, <1>3, <2>2 DEF Carry!ScanRow
    <3>2. PICK A, B : RunsUpTo(s, acc.runs, A, B, k)
      BY <2>2 DEF ScannedTo
    <3>3. ASSUME NEW i \in 1..Len(acc.runs), B[i] = k PROVE FALSE
      <4>1. A[i] \in 1..k /\ B[i] \in A[i]..k /\ \A j \in A[i]..B[i] : s[j].rate < 0
        BY <3>2 DEF RunsUpTo
      <4>2. k # 0 /\ k \in A[i]..B[i] /\ k \in 1..n
        BY <1>0, <3>3, <4>1
      <4>3. s[k].rate < 0 /\ s[k].rate >= 0 /\ s[k].rate \in Int
        BY <1>0, <2>2, <4>1, <4>2 DEF ScannedTo
      <4> QED BY <4>3
    <3>4. RunsUpTo(s, acc.runs, A, B, k + 1)
      BY <2>1, <3>2, <3>3, RunsSkip
    <3>5. next.from \in 0..(k + 1)
      BY <1>0, <3>1
    <3> HIDE DEF next
    <3> QED BY <2>1, <3>1, <3>4, <3>5 DEF ScannedTo, next
  <2>3. CASE acc.from # 0
    <3>1. PICK f \in 1..n : f = acc.from /\ k \in f..n
      BY <1>0, <1>1, <2>3
    <3>2. PICK t \in Nat : t = s[k + 1].time
      BY <1>0
    <3> DEFINE q == Append(acc.runs, Carry!Run(s, f, k, t))
    <3>3. next.i = k + 1 /\ next.runs = q /\ next.from = 0
      BY <1>0, <1>1, <1>3, <2>3, <3>1, <3>2 DEF Carry!ScanRow
    <3>4. /\ f = 1 \/ s[f - 1].rate >= 0
          /\ \A j \in f..k : s[j].rate < 0
      BY <2>3, <3>1 DEF ScannedTo
    <3>5. PICK A, B : RunsUpTo(s, acc.runs, A, B, f - 1)
      BY <2>3, <3>1 DEF ScannedTo
    <3>6. PICK C, D : RunsUpTo(s, q, C, D, k) /\ \A i \in 1..Len(q) : D[i] = k => q[i].end = t
      <4>1. Closing(s, acc.runs, A, B, f, k, t, q)
        <5> HIDE DEF next
        <5> QED BY <3>1, <3>4, <3>5 DEF Closing
      <4> HIDE DEF q, next
      <4> QED BY <4>1, RunsClose
    <3> HIDE DEF q
    <3>7. RunsUpTo(s, q, C, D, k + 1)
      BY <2>1, <3>2, <3>6, RunsSkip
    <3>8. next.from \in 0..(k + 1)
      BY <1>0, <3>3
    <3> HIDE DEF next
    <3> QED BY <2>1, <3>3, <3>7, <3>8 DEF ScannedTo, next
  <2> QED BY <2>2, <2>3
<1> QED BY <1>2, <1>3

(* The scan has seen every row.                                            *)
LEMMA ScanSeesAll ==
    ASSUME Carry!FundingAssumption, NEW s, InTime(s), s # <<>>
    PROVE  ScannedTo(s, Carry!Scan(s), Len(s))
<1> DEFINE n == Len(s)
           start0 == [i |-> 0, from |-> 0, runs |-> <<>>]
           R == {Carry!Run(s, a, b, t) : a \in Nat, b \in Int, t \in Nat}
           X == [i : Nat, from : Nat, runs : Seq(R)]
           G == [i \in 1..n |-> [acc \in X |-> Carry!ScanRow(s, acc, s[i])]]
           Folded(h) == h = [t \in SUBSET DOMAIN s |-> IF t = {} THEN start0
                                                     ELSE Carry!ScanRow(s, h[t \ {Carry!Max(t)}], s[Carry!Max(t)])]
           it == CHOOSE h : Folded(h)
<1>1. Carry!Scan(s) = it[DOMAIN s]
  BY DEF Carry!Scan, Carry!FoldLeft, Carry!MapThenFoldSet
<1>2. n \in Nat \ {0} /\ DOMAIN s = 1..n /\ \A i \in 1..n : s[i].rate \in Int /\ s[i].time \in Nat
  <2>1. n \in Nat \ {0} /\ DOMAIN s = 1..n
    BY AddendsType
  <2> QED BY <2>1, AddendsType
<1>3. \A t : Carry!Max(t) = Max(t)
  BY StudySums
<1> HIDE DEF it, n
<1>4. start0 \in X
  <2>1. <<>> \in Seq(R)
    OBVIOUS
  <2> HIDE DEF R
  <2> QED BY <2>1
<1>5. ASSUME NEW j \in 1..n, NEW acc \in X PROVE Carry!ScanRow(s, acc, s[j]) \in X
  <2>1. /\ acc.i \in Nat /\ acc.from \in Nat /\ acc.runs \in Seq(R)
        /\ acc = [i |-> acc.i, from |-> acc.from, runs |-> acc.runs]
    OBVIOUS
  <2>2. Carry!Run(s, acc.from, (acc.i + 1) - 1, s[j].time) \in R
    <3>1. (acc.i + 1) - 1 \in Int /\ s[j].time \in Nat
      BY <1>2, <2>1
    <3> QED BY <2>1, <3>1
  <2>3. PICK r \in R : r = Carry!Run(s, acc.from, (acc.i + 1) - 1, s[j].time)
    BY <2>2
  <2> HIDE DEF R
  <2>4. Append(acc.runs, r) \in Seq(R) /\ acc.i + 1 \in Nat
    BY <2>1, <2>3
  <2>5. CASE s[j].rate < 0
    <3>1. Carry!ScanRow(s, acc, s[j]) = [i |-> acc.i + 1, from |-> IF acc.from = 0 THEN acc.i + 1 ELSE acc.from, runs |-> acc.runs]
      BY <2>1, <2>5 DEF Carry!ScanRow
    <3> QED BY <2>1, <2>4, <3>1
  <2>6. CASE ~(s[j].rate < 0) /\ acc.from # 0
    <3>1. Carry!ScanRow(s, acc, s[j]) = [i |-> acc.i + 1, from |-> 0, runs |-> Append(acc.runs, r)]
      BY <2>1, <2>3, <2>6 DEF Carry!ScanRow
    <3> QED BY <2>1, <2>4, <3>1
  <2>7. CASE ~(s[j].rate < 0) /\ acc.from = 0
    <3>1. Carry!ScanRow(s, acc, s[j]) = [i |-> acc.i + 1, from |-> acc.from, runs |-> acc.runs]
      BY <2>1, <2>7 DEF Carry!ScanRow
    <3> QED BY <2>1, <2>4, <3>1
  <2> QED BY <2>5, <2>6, <2>7
<1>6. \A acc \in X : acc = [i |-> acc.i, from |-> acc.from, runs |-> acc.runs]
  OBVIOUS
<1> HIDE DEF X
<1>7. G \in [1..n -> [X -> X]]
  BY <1>5
<1>8. \A j \in 1..n : \A acc \in X : G[j][acc] = Carry!ScanRow(s, acc, s[j])
  OBVIOUS
<1> HIDE DEF G
<1>9. PICK g \in [SUBSET (1..n) -> X] : FoldOf(g, start0, G, n)
  BY <1>2, <1>4, <1>7, FoldExists
<1> HIDE DEF start0
<1>10. Folded(g)
  <2>1. \A t \in SUBSET (1..n) : t # {} => Max(t) \in 1..n /\ g[t \ {Max(t)}] \in X
    BY <1>2, MaxIsOne
  <2>2. \A t \in SUBSET (1..n) : g[t] = IF t = {} THEN start0 ELSE G[Max(t)][g[t \ {Max(t)}]]
    BY <1>9 DEF FoldOf
  <2>3. \A t \in SUBSET (1..n) : g[t] = IF t = {} THEN start0 ELSE Carry!ScanRow(s, g[t \ {Max(t)}], s[Max(t)])
    BY <2>1, <2>2, <1>8
  <2>4. g = [t \in SUBSET (1..n) |-> g[t]]
    OBVIOUS
  <2> QED BY <2>3, <2>4, <1>2, <1>3
<1>11. Folded(it)
  BY <1>10 DEF it
<1>12. \A t \in SUBSET (1..n) : it[t] = IF t = {} THEN start0 ELSE Carry!ScanRow(s, it[t \ {Max(t)}], s[Max(t)])
  BY <1>11, <1>2, <1>3
<1> DEFINE Good(k) == it[1..k] \in X /\ ScannedTo(s, it[1..k], k)
           K == {k \in Nat : k <= n => Good(k)}
<1>13. 0 \in K
  <2>1. 1..0 = {} /\ 1..0 \in SUBSET (1..n)
    OBVIOUS
  <2>2. it[1..0] = start0
    BY <2>1, <1>12
  <2>3. /\ start0.i = 0 /\ start0.from = 0 /\ start0.runs = <<>>
    BY DEF start0
  <2>4. RunsUpTo(s, <<>>, <<>>, <<>>, 0)
    <3>1. /\ <<>> \in Seq(Reported) /\ Len(<<>>) = 0 /\ 1..(0 - 1) = {} /\ DOMAIN <<>> = {}
      OBVIOUS
    <3>2. HoursOf(<<>>) = <<>> /\ CostsOf(<<>>) = <<>>
      BY <3>1 DEF HoursOf, CostsOf
    <3>3. SumOver(<<>>, {}) = 0
      BY SumOfNothing
    <3>4. SumTo(CreditsBelow(s), 0) = 0 /\ SumTo(PaidBelow(s), 0) = 0
      BY <2>1, SumOfNothing DEF SumTo
    <3> QED BY <2>1, <3>1, <3>2, <3>3, <3>4 DEF RunsUpTo
  <2>5. ScannedTo(s, start0, 0)
    BY <2>3, <2>4 DEF ScannedTo
  <2> QED BY <1>4, <2>2, <2>5
<1>14. ASSUME NEW k \in Nat, k \in K PROVE k + 1 \in K
  <2> SUFFICES ASSUME k + 1 <= n PROVE Good(k + 1)
    OBVIOUS
  <2>1. Good(k) /\ k + 1 \in 1..n /\ k \in 0..(n - 1)
    BY <1>14, <1>2
  <2>2. 1..(k + 1) \in SUBSET (1..n) /\ 1..(k + 1) # {} /\ k + 1 \in 1..(k + 1)
    <3>0. n \in Nat /\ k \in Nat /\ k + 1 <= n
      BY <1>2
    <3>1. 1..(k + 1) \subseteq 1..n
      BY ONLY <3>0
    <3>2. k + 1 \in 1..(k + 1)
      BY <2>1
    <3> QED BY <3>1, <3>2
  <2>3. Max(1..(k + 1)) \in 1..(k + 1) /\ \A i \in 1..(k + 1) : i <= Max(1..(k + 1))
    BY <1>2, <2>2, MaxIsOne
  <2>4. Max(1..(k + 1)) = k + 1 /\ (1..(k + 1)) \ {k + 1} = 1..k
    BY <2>2, <2>3
  <2>5. it[1..(k + 1)] = Carry!ScanRow(s, it[1..k], s[k + 1])
    BY <1>12, <2>2, <2>4
  <2>6. it[1..k] \in X /\ ScannedTo(s, it[1..k], k)
    BY <2>1
  <2>7. PICK acc \in X : acc = it[1..k]
    BY <2>6
  <2>8. ScannedTo(s, Carry!ScanRow(s, acc, s[k + 1]), k + 1)
    BY <1>6, <2>1, <2>6, <2>7, RowKeepsScan DEF n
  <2> QED BY <1>5, <2>1, <2>5, <2>7, <2>8
<1> HIDE DEF K
<1>15. Nat \subseteq K
  BY <1>13, <1>14, SetInduction
<1>16. Good(n)
  BY <1>15, <1>2 DEF K
<1> QED BY <1>1, <1>2, <1>16 DEF n

(* The reported runs are those of all the rows.                            *)
LEMMA NegativeRunsAre ==
    ASSUME Carry!FundingAssumption, NEW s, InTime(s), s # <<>>
    PROVE  \E A, B : RunsUpTo(s, Carry!NegativeRuns(s), A, B, Len(s))
<1> DEFINE n == Len(s)
<1>0. n \in Nat \ {0} /\ n \in 1..n /\ DOMAIN s = 1..n /\ s[n].time \in Nat
  <2>1. n \in Nat \ {0} /\ DOMAIN s = 1..n
    BY AddendsType
  <2>2. n \in 1..n
    BY <2>1
  <2> QED BY <2>1, <2>2, AddendsType
<1>1. PICK acc : acc = Carry!Scan(s)
  OBVIOUS
<1>2. ScannedTo(s, acc, n)
  BY <1>1, ScanSeesAll
<1>3. CASE acc.from = 0
  <2>1. Carry!NegativeRuns(s) = acc.runs
    BY <1>1, <1>3 DEF Carry!NegativeRuns
  <2> QED BY <1>2, <1>3, <2>1 DEF ScannedTo
<1>4. CASE acc.from # 0
  <2>1. PICK f : f = acc.from
    OBVIOUS
  <2>2. PICK t : t = s[n].time
    OBVIOUS
  <2>3. PICK q : q = Append(acc.runs, Carry!Run(s, f, n, t))
    OBVIOUS
  <2>4. Carry!NegativeRuns(s) = q
    BY <1>1, <1>4, <2>1, <2>2, <2>3 DEF Carry!NegativeRuns, Carry!Last
  <2>5. f \in 1..n /\ n \in f..n
    BY <1>0, <1>2, <1>4, <2>1 DEF ScannedTo
  <2>6. /\ f = 1 \/ s[f - 1].rate >= 0
        /\ \A j \in f..n : s[j].rate < 0
    BY <1>2, <1>4, <2>1 DEF ScannedTo
  <2>7. PICK A, B : RunsUpTo(s, acc.runs, A, B, f - 1)
    BY <1>2, <1>4, <2>1 DEF ScannedTo
  <2>8. Closing(s, acc.runs, A, B, f, n, t, q)
    BY <1>0, <2>2, <2>3, <2>5, <2>6, <2>7 DEF Closing
  <2> QED BY <2>4, <2>8, RunsClose
<1> QED BY <1>3, <1>4

(* What the runs of all the rows report of them.                           *)
RunsKnown(s, n, runs, A, B) ==
    /\ n = Len(s) /\ n \in Nat \ {0} /\ DOMAIN s = 1..n /\ runs \in Seq(Reported) /\ DOMAIN runs = 1..Len(runs)
    /\ \A i \in 1..Len(runs) :
          /\ A[i] \in 1..n /\ B[i] \in A[i]..n /\ runs[i] \in Reported
          /\ runs[i].start = s[A[i]].time
          /\ runs[i].hours = SumTo(Credits(s), B[i]) - SumTo(Credits(s), A[i] - 1)
          /\ runs[i].cost = SumTo(Paid(s), B[i]) - SumTo(Paid(s), A[i] - 1)
          /\ \A j \in A[i]..B[i] : s[j].rate < 0
          /\ B[i] < n => s[B[i] + 1].rate >= 0 /\ runs[i].end = s[B[i] + 1].time
    /\ \A i \in 1..(Len(runs) - 1) : B[i] + 1 < A[i + 1]
    /\ \A j \in 1..n : s[j].rate < 0 => \E i \in 1..Len(runs) : A[i] <= j /\ j <= B[i]

(* They do report it.                                                      *)
LEMMA RunsAreKnown ==
    ASSUME Carry!FundingAssumption, NEW s, InTime(s), s # <<>>, NEW runs, NEW A, NEW B,
           RunsUpTo(s, runs, A, B, Len(s))
    PROVE  RunsKnown(s, Len(s), runs, A, B)
<1> DEFINE n == Len(s)
<1>1. n \in Nat \ {0} /\ DOMAIN s = 1..n
  BY AddendsType
<1>2. runs \in Seq(Reported) /\ DOMAIN runs = 1..Len(runs) /\ \A i \in 1..Len(runs) : runs[i] \in Reported
  BY DEF RunsUpTo
<1>3. ASSUME NEW i \in 1..Len(runs)
      PROVE  /\ A[i] \in 1..n /\ B[i] \in A[i]..n
             /\ runs[i].start = s[A[i]].time
             /\ runs[i].hours = SumTo(Credits(s), B[i]) - SumTo(Credits(s), A[i] - 1)
             /\ runs[i].cost = SumTo(Paid(s), B[i]) - SumTo(Paid(s), A[i] - 1)
             /\ \A j \in A[i]..B[i] : s[j].rate < 0
             /\ B[i] < n => s[B[i] + 1].rate >= 0 /\ runs[i].end = s[B[i] + 1].time
  <2>1. /\ A[i] \in 1..n /\ B[i] \in A[i]..n
        /\ runs[i] = Carry!Run(s, A[i], B[i], runs[i].end)
        /\ \A j \in A[i]..B[i] : s[j].rate < 0
        /\ B[i] < n => s[B[i] + 1].rate >= 0 /\ runs[i].end = s[B[i] + 1].time
    BY DEF RunsUpTo
  <2>a. PICK t : t = runs[i].end
    OBVIOUS
  <2>b. PICK a \in 1..n : a = A[i]
    BY <2>1
  <2>c. PICK b \in a..n : b = B[i]
    BY <2>1, <2>b
  <2>2. a = A[i] /\ b = B[i] /\ t = runs[i].end
    BY <2>a, <2>b, <2>c
  <2>3. Carry!Run(s, a, b, t) =
             [start |-> s[a].time, end |-> t,
              hours |-> SumTo(Credits(s), b) - SumTo(Credits(s), a - 1),
              cost |-> SumTo(Paid(s), b) - SumTo(Paid(s), a - 1)]
    BY RunReports
  <2> HIDE DEF n
  <2>4. /\ runs[i].start = s[a].time
        /\ runs[i].hours = SumTo(Credits(s), b) - SumTo(Credits(s), a - 1)
        /\ runs[i].cost = SumTo(Paid(s), b) - SumTo(Paid(s), a - 1)
    BY <2>1, <2>2, <2>3
  <2> QED BY <2>1, <2>2, <2>4
<1>4. /\ \A i \in 1..(Len(runs) - 1) : B[i] + 1 < A[i + 1]
      /\ \A j \in 1..n : s[j].rate < 0 => \E i \in 1..Len(runs) : A[i] <= j /\ j <= B[i]
  BY DEF RunsUpTo
<1> HIDE DEF n
<1>5. RunsKnown(s, n, runs, A, B)
  BY <1>1, <1>2, <1>3, <1>4 DEF RunsKnown, n
<1> QED BY <1>5 DEF n

(* Between two runs the rate was not negative.                             *)
LEMMA RunsAreApart ==
    ASSUME Carry!FundingAssumption, NEW s, InTime(s), s # <<>>, NEW n, NEW runs, NEW A, NEW B,
           RunsKnown(s, n, runs, A, B), NEW i \in 1..(Len(runs) - 1)
    PROVE  /\ i \in 1..Len(runs) /\ i + 1 \in 1..Len(runs) /\ B[i] < n
           /\ \E j \in DOMAIN s : runs[i].end <= s[j].time /\ s[j].time < runs[i + 1].start /\ s[j].rate >= 0
<1>1. Len(runs) \in Nat
  BY DEF RunsKnown
<1>2. i \in 1..Len(runs) /\ i + 1 \in 1..Len(runs)
  BY <1>1
<1>3. /\ A[i] \in 1..n /\ B[i] \in A[i]..n /\ A[i + 1] \in 1..n /\ B[i] + 1 < A[i + 1]
      /\ runs[i + 1].start = s[A[i + 1]].time /\ n \in Nat /\ DOMAIN s = 1..n /\ n = Len(s)
      /\ B[i] < n => s[B[i] + 1].rate >= 0 /\ runs[i].end = s[B[i] + 1].time
  BY <1>2 DEF RunsKnown
<1>4. PICK j \in 1..n : j = B[i] + 1 /\ B[i] < n /\ j < A[i + 1]
  BY <1>3
<1>5. s[j].time < s[A[i + 1]].time /\ s[j].time \in Nat
  BY <1>3, <1>4, AddendsType DEF InTime
<1>6. s[j].rate >= 0 /\ runs[i].end = s[j].time
  BY <1>3, <1>4
<1> QED BY <1>2, <1>3, <1>4, <1>5, <1>6

(* Where no row is longer in force than is credited, a run that has ended  *)
(* lasted as long as it was credited.                                      *)
LEMMA RunsLast ==
    ASSUME Carry!FundingAssumption, NEW s, InTime(s), s # <<>>, NEW n, NEW runs, NEW A, NEW B,
           RunsKnown(s, n, runs, A, B), NEW i \in 1..(Len(runs) - 1), Carry!Gaps(s) = {}
    PROVE  runs[i].hours = runs[i].end - runs[i].start
<1>1. i \in 1..Len(runs) /\ B[i] < n
  BY RunsAreApart
<1>2. /\ A[i] \in 1..n /\ B[i] \in A[i]..n /\ n \in Nat \ {0} /\ n = Len(s)
      /\ runs[i].start = s[A[i]].time /\ runs[i].end = s[B[i] + 1].time
      /\ runs[i].hours = SumTo(Credits(s), B[i]) - SumTo(Credits(s), A[i] - 1)
  BY <1>1 DEF RunsKnown
<1>a. PICK a \in 1..n : a = A[i]
  BY <1>2
<1>b. PICK b \in a..(n - 1) : b = B[i]
  BY <1>1, <1>2, <1>a
<1>3. a = A[i] /\ b = B[i]
  BY <1>a, <1>b
<1> DEFINE T == [j \in a..(b + 1) |-> s[j].time]
<1>4. ASSUME NEW j \in a..(b + 1) PROVE T[j] = s[j].time /\ T[j] \in Int /\ j \in 1..n
  <2>1. j \in 1..n
    BY <1>2
  <2> QED BY <1>2, <2>1, AddendsType
<1> HIDE DEF T
<1>5. ASSUME NEW j \in a..b PROVE Credits(s)[j] = T[j + 1] - T[j]
  <2>1. j \in 1..(n - 1) /\ j \in a..(b + 1) /\ j + 1 \in a..(b + 1)
    BY <1>2
  <2>2. ~(s[j + 1].time - s[j].time > CreditedMost)
    <3>1. \A e \in 1..(Len(s) - 1) : ~(s[e + 1].time - s[e].time > CreditedMost)
      BY DEF Carry!Gaps
    <3> QED BY <1>2, <2>1, <3>1
  <2>3. PICK g \in Int : g = s[j + 1].time - s[j].time
    BY <1>4, <2>1
  <2>4. g <= CreditedMost
    BY <2>2, <2>3 DEF Carry!FundingAssumption
  <2>5. Credits(s)[j] = IF g <= CreditedMost THEN g ELSE CreditedMost
    BY <1>2, <2>1, <2>3, SpansAre DEF Credits
  <2> QED BY <1>4, <2>1, <2>3, <2>4, <2>5
<1>6. \A j \in 1..n : Credits(s)[j] \in Int
  BY <1>2, AddendsType
<1>7. a \in 1..(n + 1) /\ b \in (a - 1)..n /\ \A j \in a..b : j \in 1..n
  BY <1>2
<1>8. \A j \in a..b : Credits(s)[j] <= T[j + 1] - T[j] /\ Credits(s)[j] >= T[j + 1] - T[j]
  BY <1>5, <1>6, <1>7
<1>9. /\ SumTo(Credits(s), b) - SumTo(Credits(s), a - 1) <= T[b + 1] - T[a]
      /\ SumTo(Credits(s), b) - SumTo(Credits(s), a - 1) >= T[b + 1] - T[a]
  BY <1>2, <1>4, <1>6, <1>7, <1>8, PieceBounds
<1>10. T[b + 1] = s[b + 1].time /\ T[a] = s[a].time /\ T[b + 1] \in Int /\ T[a] \in Int
  <2>1. b + 1 \in a..(b + 1) /\ a \in a..(b + 1)
    BY <1>2
  <2> QED BY <1>4, <2>1
<1>11. SumTo(Credits(s), b) \in Int /\ SumTo(Credits(s), a - 1) \in Int
  <2>1. b \in 0..n /\ a - 1 \in 0..n
    BY <1>2
  <2> QED BY <1>2, <1>6, <2>1, SumToSteps
<1>12. SumTo(Credits(s), b) - SumTo(Credits(s), a - 1) = s[b + 1].time - s[a].time
  <2>1. PICK u \in Int, v \in Int, x \in Int, y \in Int :
          u = SumTo(Credits(s), b) /\ v = SumTo(Credits(s), a - 1) /\ x = T[b + 1] /\ y = T[a]
    BY <1>10, <1>11
  <2>2. u - v <= x - y /\ u - v >= x - y
    BY <1>9, <2>1
  <2>3. u - v = x - y
    BY ONLY <2>2, u \in Int, v \in Int, x \in Int, y \in Int
  <2> QED BY <1>10, <2>1, <2>3
<1> QED BY <1>2, <1>3, <1>12

(* The least and the greatest of the members of a sequence.                *)
LEMMA ExtremesOfSeq ==
    ASSUME NEW m \in Nat, NEW f \in [1..m -> Int], NEW i \in 1..m
    PROVE  /\ Min({f[j] : j \in 1..m}) <= f[i] /\ f[i] <= Max({f[j] : j \in 1..m})
           /\ Min({f[j] : j \in 1..m}) \in Int /\ Max({f[j] : j \in 1..m}) \in Int
<1> DEFINE Low(k) == \E x \in 1..k : \A y \in 1..k : f[x] <= f[y]
           High(k) == \E x \in 1..k : \A y \in 1..k : f[y] <= f[x]
           K == {k \in Nat : k \in 1..m => Low(k) /\ High(k)}
<1>1. 0 \in K
  OBVIOUS
<1>2. ASSUME NEW k \in Nat, k \in K PROVE k + 1 \in K
  <2> SUFFICES ASSUME k + 1 \in 1..m PROVE Low(k + 1) /\ High(k + 1)
    OBVIOUS
  <2>1. \A x \in 1..(k + 1) : f[x] \in Int
    OBVIOUS
  <2>2. \A x \in 1..(k + 1) : x = k + 1 \/ x \in 1..k
    OBVIOUS
  <2>3. k + 1 \in 1..(k + 1) /\ \A x \in 1..k : x \in 1..(k + 1)
    OBVIOUS
  <2>4. CASE k = 0
    BY <2>1, <2>2, <2>3, <2>4
  <2>5. CASE k # 0
    <3>1. Low(k) /\ High(k)
      BY <1>2, <2>5
    <3>2. PICK x \in 1..k : \A y \in 1..k : f[x] <= f[y]
      BY <3>1
    <3>3. PICK z0 \in 1..k : \A y \in 1..k : f[y] <= f[z0]
      BY <3>1
    <3>4. Low(k + 1)
      <4>1. CASE f[x] <= f[k + 1]
        BY <2>2, <2>3, <3>2, <4>1
      <4>2. CASE ~(f[x] <= f[k + 1])
        <5>1. \A y \in 1..(k + 1) : f[k + 1] <= f[y]
          BY <2>1, <2>2, <2>3, <3>2, <4>2
        <5> QED BY <2>3, <5>1
      <4> QED BY <4>1, <4>2
    <3>5. High(k + 1)
      <4>1. CASE f[k + 1] <= f[z0]
        BY <2>2, <2>3, <3>3, <4>1
      <4>2. CASE ~(f[k + 1] <= f[z0])
        <5>1. \A y \in 1..(k + 1) : f[y] <= f[k + 1]
          BY <2>1, <2>2, <2>3, <3>3, <4>2
        <5> QED BY <2>3, <5>1
      <4> QED BY <4>1, <4>2
    <3> QED BY <3>4, <3>5
  <2> QED BY <2>4, <2>5
<1> HIDE DEF K
<1>3. Nat \subseteq K
  BY <1>1, <1>2, SetInduction
<1>4. Low(m) /\ High(m)
  <2>1. m \in K /\ m \in Nat /\ m \in 1..m
    BY <1>3
  <2> HIDE DEF Low, High
  <2> QED BY <2>1 DEF K
<1> DEFINE S == {f[j] : j \in 1..m}
<1>5. (\E x \in S : \A y \in S : x <= y) /\ (\E x \in S : \A y \in S : x >= y)
  BY <1>4
<1>6. Min(S) \in S /\ Max(S) \in S /\ \A y \in S : Min(S) <= y /\ Max(S) >= y
  BY <1>5 DEF Min, Max
<1> QED BY <1>6

(* Of consecutive negative rows nobody paid more, or was credited longer,  *)
(* than in the worst and the longest run.                                  *)
LEMMA StretchIsReported ==
    ASSUME Carry!FundingAssumption, NEW s, InTime(s), s # <<>>, NEW n, NEW runs, NEW A, NEW B,
           RunsKnown(s, n, runs, A, B), NEW i \in 1..n, NEW j \in i..n, \A k \in i..j : s[k].rate < 0, NEW t
    PROVE  /\ Carry!Run(s, i, j, t).cost >= Carry!WorstCost(runs)
           /\ Carry!Run(s, i, j, t).hours <= Carry!LongestHours(runs)
<1>0. /\ n \in Nat \ {0} /\ n = Len(s) /\ Len(runs) \in Nat /\ DOMAIN runs = 1..Len(runs)
      /\ \A e \in 1..n : /\ Credits(s)[e] \in Nat /\ Credits(s)[e] \in Int
                         /\ Paid(s)[e] \in Int /\ Paid(s)[e] = s[e].rate /\ s[e].rate \in Int
  <2>1. n \in Nat \ {0} /\ n = Len(s) /\ Len(runs) \in Nat /\ DOMAIN runs = 1..Len(runs)
    BY DEF RunsKnown
  <2> QED BY <2>1, AddendsType
<1>1. i \in i..j /\ s[i].rate < 0 /\ i <= j
  BY <1>0
<1>2. PICK x \in 1..Len(runs) : A[x] <= i /\ i <= B[x]
  BY <1>1 DEF RunsKnown
<1>3. /\ A[x] \in 1..n /\ B[x] \in A[x]..n
      /\ runs[x].hours = SumTo(Credits(s), B[x]) - SumTo(Credits(s), A[x] - 1)
      /\ runs[x].cost = SumTo(Paid(s), B[x]) - SumTo(Paid(s), A[x] - 1)
      /\ \A k \in A[x]..B[x] : s[k].rate < 0
      /\ B[x] < n => s[B[x] + 1].rate >= 0
  BY DEF RunsKnown
<1>4. PICK a \in 1..n : a = A[x]
  BY <1>3
<1>5. PICK b \in a..n : b = B[x]
  BY <1>3, <1>4
<1>6. j <= b
  <2> SUFFICES ASSUME ~(j <= b) PROVE FALSE
    OBVIOUS
  <2>1. b + 1 \in i..j /\ b < n /\ b + 1 \in 1..n
    BY <1>0, <1>2, <1>5
  <2>2. s[b + 1].rate < 0 /\ s[b + 1].rate >= 0 /\ s[b + 1].rate \in Int
    BY <1>0, <1>3, <1>5, <2>1
  <2> QED BY <2>2
<1>7. /\ a <= i /\ i <= j /\ j <= b /\ a \in Nat /\ b \in Nat /\ i \in Nat /\ j \in Nat
      /\ a - 1 \in 0..n /\ i - 1 \in 0..n /\ j \in 0..n /\ b \in 0..n
  BY <1>0, <1>1, <1>2, <1>4, <1>5, <1>6
<1>8. Carry!Run(s, i, j, t) =
             [start |-> s[i].time, end |-> t,
              hours |-> SumTo(Credits(s), j) - SumTo(Credits(s), i - 1),
              cost |-> SumTo(Paid(s), j) - SumTo(Paid(s), i - 1)]
  BY <1>0, RunReports
<1> DEFINE Flat == [k \in 1..(n + 1) |-> 0]
<1>9. \A k \in 1..(n + 1) : Flat[k] \in Int /\ Flat[k] = 0
  OBVIOUS
<1> HIDE DEF Flat
<1>10. ASSUME NEW l \in 1..n, NEW u \in (l - 1)..n, a <= l, u <= b
       PROVE  SumTo(Credits(s), u) - SumTo(Credits(s), l - 1) >= 0 /\ SumTo(Paid(s), u) - SumTo(Paid(s), l - 1) <= 0
  <2>1. \A k \in l..u : k \in 1..n /\ k \in A[x]..B[x] /\ k \in 1..(n + 1) /\ k + 1 \in 1..(n + 1)
    BY <1>0, <1>4, <1>5, <1>10
  <2>a. \A k \in l..u : Flat[k + 1] = 0 /\ Flat[k] = 0
    BY <1>9, <2>1
  <2>b. \A k \in l..u : Flat[k + 1] - Flat[k] = 0
    BY <2>a
  <2>c. \A k \in l..u : Credits(s)[k] >= 0 /\ Credits(s)[k] \in Int /\ Paid(s)[k] \in Int /\ Paid(s)[k] <= 0
    <3> SUFFICES ASSUME NEW k \in l..u
                 PROVE  Credits(s)[k] >= 0 /\ Credits(s)[k] \in Int /\ Paid(s)[k] \in Int /\ Paid(s)[k] <= 0
      OBVIOUS
    <3>1. k \in 1..n /\ s[k].rate < 0
      BY <1>3, <2>1
    <3>2. Credits(s)[k] \in Nat /\ Paid(s)[k] \in Int /\ Paid(s)[k] < 0
      BY <1>0, <3>1
    <3> QED BY <3>2
  <2>2. \A k \in l..u : Credits(s)[k] >= Flat[k + 1] - Flat[k] /\ Paid(s)[k] <= Flat[k + 1] - Flat[k]
    BY <2>b, <2>c
  <2>3. l \in 1..(n + 1) /\ \A k \in l..(u + 1) : Flat[k] \in Int
    BY <1>0, <1>9
  <2>4. SumTo(Credits(s), u) - SumTo(Credits(s), l - 1) >= Flat[u + 1] - Flat[l]
    BY <1>0, <2>2, <2>3, PieceBounds
  <2>5. SumTo(Paid(s), u) - SumTo(Paid(s), l - 1) <= Flat[u + 1] - Flat[l]
    BY <1>0, <2>2, <2>3, PieceBounds
  <2>d. u + 1 \in 1..(n + 1)
    BY <1>0
  <2>6. Flat[u + 1] = 0 /\ Flat[l] = 0
    BY <1>9, <2>3, <2>d
  <2> QED BY <2>4, <2>5, <2>6
<1>11. /\ SumTo(Credits(s), i - 1) - SumTo(Credits(s), a - 1) >= 0 /\ SumTo(Paid(s), i - 1) - SumTo(Paid(s), a - 1) <= 0
  BY <1>7, <1>10
<1>12. /\ SumTo(Credits(s), b) - SumTo(Credits(s), j) >= 0 /\ SumTo(Paid(s), b) - SumTo(Paid(s), j) <= 0
  <2>1. CASE j = b
    <3>1. SumTo(Credits(s), b) \in Int /\ SumTo(Paid(s), b) \in Int
      BY <1>0, <1>7, SumToSteps
    <3> QED BY <2>1, <3>1
  <2>2. CASE j # b
    <3>a. j + 1 \in 1..n
      BY <1>0, <1>7, <2>2
    <3>1. PICK l \in 1..n : l = j + 1
      BY <3>a
    <3>2. a <= l /\ b \in (l - 1)..n /\ b <= b /\ l - 1 = j
      BY <1>7, <2>2, <3>1
    <3> QED BY <1>10, <3>2
  <2> QED BY <2>1, <2>2
<1>13. /\ SumTo(Credits(s), i - 1) \in Int /\ SumTo(Credits(s), a - 1) \in Int
       /\ SumTo(Credits(s), j) \in Int /\ SumTo(Credits(s), b) \in Int
       /\ SumTo(Paid(s), i - 1) \in Int /\ SumTo(Paid(s), a - 1) \in Int
       /\ SumTo(Paid(s), j) \in Int /\ SumTo(Paid(s), b) \in Int
  <2>1. \A k \in 0..n : SumTo(Credits(s), k) \in Int
    BY <1>0, SumToSteps
  <2>2. \A k \in 0..n : SumTo(Paid(s), k) \in Int
    BY <1>0, SumToSteps
  <2> QED BY <1>7, <2>1, <2>2
<1>14. Carry!Run(s, i, j, t).hours <= runs[x].hours
  <2>1. PICK c1 \in Int, c2 \in Int, c3 \in Int, c4 \in Int :
          /\ c1 = SumTo(Credits(s), a - 1) /\ c2 = SumTo(Credits(s), i - 1)
          /\ c3 = SumTo(Credits(s), j) /\ c4 = SumTo(Credits(s), b)
    BY <1>13
  <2>2. c2 - c1 >= 0 /\ c4 - c3 >= 0
    BY <1>11, <1>12, <2>1
  <2>3. c3 - c2 <= c4 - c1
    BY ONLY <2>2, c1 \in Int, c2 \in Int, c3 \in Int, c4 \in Int
  <2> QED BY <1>3, <1>4, <1>5, <1>8, <2>1, <2>3
<1>15. Carry!Run(s, i, j, t).cost >= runs[x].cost
  <2>1. PICK c1 \in Int, c2 \in Int, c3 \in Int, c4 \in Int :
          /\ c1 = SumTo(Paid(s), a - 1) /\ c2 = SumTo(Paid(s), i - 1)
          /\ c3 = SumTo(Paid(s), j) /\ c4 = SumTo(Paid(s), b)
    BY <1>13
  <2>2. c2 - c1 <= 0 /\ c4 - c3 <= 0
    BY <1>11, <1>12, <2>1
  <2>3. c3 - c2 >= c4 - c1
    BY ONLY <2>2, c1 \in Int, c2 \in Int, c3 \in Int, c4 \in Int
  <2> QED BY <1>3, <1>4, <1>5, <1>8, <2>1, <2>3
<1>16. \A k \in 1..Len(runs) : runs[k].hours \in Int /\ runs[k].cost \in Int
  BY DEF RunsKnown, Reported
<1>17. Carry!WorstCost(runs) <= runs[x].cost /\ Carry!WorstCost(runs) \in Int
  <2> DEFINE f == [k \in 1..Len(runs) |-> runs[k].cost]
  <2>1. f \in [1..Len(runs) -> Int] /\ {runs[k].cost : k \in DOMAIN runs} = {f[k] : k \in 1..Len(runs)} /\ f[x] = runs[x].cost
    BY <1>0, <1>16
  <2>2. Carry!WorstCost(runs) = Min({f[k] : k \in 1..Len(runs)})
    BY <2>1, StudySums DEF Carry!WorstCost
  <2> QED BY <1>0, <2>1, <2>2, ExtremesOfSeq
<1>18. runs[x].hours <= Carry!LongestHours(runs) /\ Carry!LongestHours(runs) \in Int
  <2> DEFINE f == [k \in 1..Len(runs) |-> runs[k].hours]
  <2>1. f \in [1..Len(runs) -> Int] /\ {runs[k].hours : k \in DOMAIN runs} = {f[k] : k \in 1..Len(runs)} /\ f[x] = runs[x].hours
    BY <1>0, <1>16
  <2>2. Carry!LongestHours(runs) = Max({f[k] : k \in 1..Len(runs)})
    BY <2>1, StudySums DEF Carry!LongestHours
  <2> QED BY <1>0, <2>1, <2>2, ExtremesOfSeq
<1>19. Carry!Run(s, i, j, t).cost \in Int /\ Carry!Run(s, i, j, t).hours \in Int
  BY <1>8, <1>13
<1> QED BY <1>14, <1>15, <1>16, <1>17, <1>18, <1>19

(* The runs of a coin carry all of its negative rows, are apart, and show  *)
(* its worst stretches.                                                    *)
LEMMA NegativesAreCarried ==
    ASSUME Carry!FundingAssumption, NEW s, InTime(s), s # <<>>, NEW runs, runs = Carry!NegativeRuns(s), NEW t
    PROVE  /\ Carry!SumSeq(HoursOf(runs)) = Carry!NegativeTime(s)
           /\ Carry!SumSeq(CostsOf(runs)) = Carry!SumSeq(PaidBelow(s))
           /\ Carry!NegativeTime(s) <= Carry!Elapsed(s)
           /\ \A i \in 1..(Len(runs) - 1) : \E j \in DOMAIN s :
                  runs[i].end <= s[j].time /\ s[j].time < runs[i + 1].start /\ s[j].rate >= 0
           /\ \A i, j \in DOMAIN s :
                (i <= j /\ \A k \in i..j : s[k].rate < 0) =>
                  /\ Carry!Run(s, i, j, t).cost >= Carry!WorstCost(runs)
                  /\ Carry!Run(s, i, j, t).hours <= Carry!LongestHours(runs)
           /\ Carry!Gaps(s) = {} => \A i \in 1..(Len(runs) - 1) : runs[i].hours = runs[i].end - runs[i].start
<1>0. PICK n \in Nat \ {0} : n = Len(s) /\ DOMAIN s = 1..n /\ n \in 1..n
  <2>1. Len(s) \in Nat \ {0} /\ DOMAIN s = 1..Len(s)
    BY AddendsType
  <2>2. Len(s) \in 1..Len(s)
    BY <2>1
  <2> QED BY <2>1, <2>2
<1>1. PICK A, B : RunsUpTo(s, runs, A, B, n)
  BY <1>0, NegativeRunsAre
<1>2. RunsKnown(s, n, runs, A, B)
  BY <1>0, <1>1, RunsAreKnown
<1>3. Carry!NegativeTime(s) = SumTo(CreditsBelow(s), n)
  <2>1. Carry!NegativeTime(s) = Carry!SumSeq(CreditsBelow(s)) /\ DOMAIN CreditsBelow(s) = 1..n
    BY <1>0 DEF Carry!NegativeTime, CreditsBelow
  <2> QED BY <2>1, StudySums DEF SumTo
<1>4. Carry!SumSeq(PaidBelow(s)) = SumTo(PaidBelow(s), n)
  <2>1. DOMAIN PaidBelow(s) = 1..n
    BY <1>0 DEF PaidBelow
  <2> QED BY <2>1, StudySums DEF SumTo
<1>5. Carry!Elapsed(s) = SumTo(Credits(s), n)
  <2>1. Carry!Elapsed(s) = Carry!SumSeq(Credits(s)) /\ DOMAIN Credits(s) = 1..n
    BY <1>0, SpansAre DEF Carry!Elapsed, Credits
  <2> QED BY <2>1, StudySums DEF SumTo
<1>6. /\ Carry!SumSeq(HoursOf(runs)) = SumTo(CreditsBelow(s), n)
      /\ Carry!SumSeq(CostsOf(runs)) = SumTo(PaidBelow(s), n)
  BY <1>1, StudySums DEF RunsUpTo
<1>7. SumTo(CreditsBelow(s), n) <= SumTo(Credits(s), n)
  <2> DEFINE T == [i \in 1..(n + 1) |-> SumTo(Credits(s), i - 1)]
  <2>1. \A i \in 1..n : /\ Credits(s)[i] \in Nat /\ Credits(s)[i] \in Int /\ CreditsBelow(s)[i] \in Int
                        /\ CreditsBelow(s)[i] = (IF s[i].rate < 0 THEN Credits(s)[i] ELSE 0)
    BY <1>0, AddendsType
  <2>2. /\ SumTo(Credits(s), 0) = 0
        /\ \A k \in 1..n : SumTo(Credits(s), k) = SumTo(Credits(s), k - 1) + Credits(s)[k]
        /\ \A k \in 0..n : SumTo(Credits(s), k) \in Int
    BY <1>0, <2>1, SumToSteps
  <2>3. /\ SumTo(CreditsBelow(s), 0) = 0
        /\ \A k \in 0..n : SumTo(CreditsBelow(s), k) \in Int
    BY <1>0, <2>1, SumToSteps
  <2>4. ASSUME NEW i \in 1..(n + 1) PROVE T[i] = SumTo(Credits(s), i - 1) /\ T[i] \in Int
    <3>1. i - 1 \in 0..n
      BY <1>0
    <3> QED BY <2>2, <3>1
  <2> HIDE DEF T
  <2>5. ASSUME NEW i \in 1..n PROVE CreditsBelow(s)[i] <= T[i + 1] - T[i]
    <3>1. i \in 1..(n + 1) /\ i + 1 \in 1..(n + 1) /\ (i + 1) - 1 = i /\ i - 1 \in 0..n
      BY <1>0
    <3>2. T[i + 1] = SumTo(Credits(s), i) /\ T[i] = SumTo(Credits(s), i - 1)
      BY <2>4, <3>1
    <3>3. T[i + 1] = T[i] + Credits(s)[i] /\ T[i] \in Int
      BY <2>2, <2>4, <3>1, <3>2
    <3>4. CreditsBelow(s)[i] <= Credits(s)[i] /\ Credits(s)[i] \in Int /\ CreditsBelow(s)[i] \in Int
      BY <2>1
    <3> QED BY <3>3, <3>4
  <2>6. 1 \in 1..(n + 1) /\ n \in (1 - 1)..n /\ n \in Nat /\ 1 - 1 = 0 /\ (n + 1) - 1 = n /\ n + 1 \in 1..(n + 1)
    BY <1>0
  <2>7. SumTo(CreditsBelow(s), n) - SumTo(CreditsBelow(s), 1 - 1) <= T[n + 1] - T[1]
    BY <2>1, <2>4, <2>5, <2>6, PieceBounds
  <2>8. T[n + 1] = SumTo(Credits(s), n) /\ T[1] = 0 /\ T[n + 1] \in Int
    BY <2>2, <2>4, <2>6
  <2>9. SumTo(CreditsBelow(s), n) - 0 <= T[n + 1] - 0 /\ SumTo(CreditsBelow(s), n) \in Int
    <3>1. n \in 0..n
      BY <2>6
    <3> QED BY <2>3, <2>6, <2>7, <2>8, <3>1
  <2> QED BY <2>8, <2>9
<1>8. ASSUME NEW i \in DOMAIN s, NEW j \in DOMAIN s, i <= j, \A k \in i..j : s[k].rate < 0
      PROVE  /\ Carry!Run(s, i, j, t).cost >= Carry!WorstCost(runs)
             /\ Carry!Run(s, i, j, t).hours <= Carry!LongestHours(runs)
  <2>1. i \in 1..n /\ j \in i..n
    BY <1>0, <1>8
  <2> QED BY <1>2, <1>8, <2>1, StretchIsReported
<1>9. ASSUME NEW i \in 1..(Len(runs) - 1)
      PROVE  \E j \in DOMAIN s : runs[i].end <= s[j].time /\ s[j].time < runs[i + 1].start /\ s[j].rate >= 0
  BY <1>2, RunsAreApart
<1>10. ASSUME Carry!Gaps(s) = {}, NEW i \in 1..(Len(runs) - 1) PROVE runs[i].hours = runs[i].end - runs[i].start
  BY <1>2, <1>10, RunsLast
<1> QED BY <1>3, <1>4, <1>5, <1>6, <1>7, <1>8, <1>9, <1>10

-----------------------------------------------------------------------------
(* The rows of each coin are one after the other, and closes are of days   *)
(* the study covers.                                                       *)
CarryInv ==
    /\ hour \in 0..LastPaid
    /\ DOMAIN funding = FundedCoins /\ \A c \in FundedCoins : InTime(funding[c])
    /\ candles \in [FundedCoins -> SUBSET Carry!AllDays]

(* The study's sizes are those of the lemmas.                              *)
LEMMA StudySizes == \A S : Carry!Cardinality(S) = Cardinality(S) /\ (Carry!IsFiniteSet(S) <=> IsFiniteSet(S))
<1>1. ASSUME NEW S PROVE Carry!Cardinality(S) = Cardinality(S)
  BY DEF Carry!Cardinality, Cardinality, Carry!IsFiniteSet, IsFiniteSet
<1>2. ASSUME NEW S PROVE Carry!IsFiniteSet(S) <=> IsFiniteSet(S)
  BY DEF Carry!IsFiniteSet, IsFiniteSet
<1> QED BY <1>1, <1>2

(* A day of the study.                                                     *)
LEMMA DaysOfTheStudy ==
    ASSUME Carry!FundingAssumption, NEW t \in 0..LastPaid
    PROVE  /\ t \in Nat /\ Carry!DayOf(t) \in Carry!AllDays /\ Carry!AllDays \subseteq Nat
           /\ IsFiniteSet(Carry!AllDays)
<1>1. TicksPerDay \in Nat \ {0} /\ LastPaid \in Nat /\ t \in Nat /\ t <= LastPaid
  BY DEF Carry!FundingAssumption
<1>2. PICK a \in Nat, b \in Nat : a = t \div TicksPerDay /\ b = LastPaid \div TicksPerDay
  BY <1>1, Multiples
<1>3. a <= b
  BY ONLY <1>1, <1>2
<1>4. Carry!AllDays = 0..b /\ Carry!DayOf(t) = a
  BY <1>2 DEF Carry!AllDays, Carry!DayOf
<1>5. IsFiniteSet(0..b)
  BY FS_Interval
<1> QED BY <1>1, <1>2, <1>3, <1>4, <1>5

(* The property holds of the runs of every coin.                           *)
LEMMA RunsOfCoins ==
    ASSUME Carry!FundingAssumption, CarryInv PROVE Carry!RunsCarryTheNegatives
<1> SUFFICES ASSUME NEW c \in FundedCoins, funding[c] # <<>>
             PROVE  LET rows0 == funding[c]
                        runs == Carry!NegativeRuns(rows0)
                        paid == [i \in DOMAIN rows0 |-> IF rows0[i].rate < 0 THEN rows0[i].rate ELSE 0]
                    IN  /\ Carry!SumSeq([i \in DOMAIN runs |-> runs[i].hours]) = Carry!NegativeTime(rows0)
                        /\ Carry!SumSeq([i \in DOMAIN runs |-> runs[i].cost]) = Carry!SumSeq(paid)
                        /\ Carry!NegativeTime(rows0) <= Carry!Elapsed(rows0)
                        /\ \A i \in 1..(Len(runs) - 1) : \E j \in DOMAIN rows0 :
                               runs[i].end <= rows0[j].time /\ rows0[j].time < runs[i + 1].start /\ rows0[j].rate >= 0
                        /\ \A i, j \in DOMAIN rows0 :
                             (i <= j /\ \A k \in i..j : rows0[k].rate < 0) =>
                               /\ Carry!Run(rows0, i, j, hour).cost >= Carry!WorstCost(runs)
                               /\ Carry!Run(rows0, i, j, hour).hours <= Carry!LongestHours(runs)
                        /\ Carry!Gaps(rows0) = {} =>
                             \A i \in 1..(Len(runs) - 1) : runs[i].hours = runs[i].end - runs[i].start
  BY DEF Carry!RunsCarryTheNegatives
<1>1. PICK s : s = funding[c]
  OBVIOUS
<1>2. InTime(s) /\ s # <<>>
  BY <1>1 DEF CarryInv
<1>3. PICK q : q = Carry!NegativeRuns(s)
  OBVIOUS
<1>4. /\ [i \in DOMAIN q |-> q[i].hours] = HoursOf(q) /\ [i \in DOMAIN q |-> q[i].cost] = CostsOf(q)
      /\ [i \in DOMAIN s |-> IF s[i].rate < 0 THEN s[i].rate ELSE 0] = PaidBelow(s)
  BY DEF HoursOf, CostsOf, PaidBelow
<1>5. PICK t : t = hour
  OBVIOUS
<1>6. /\ Carry!SumSeq(HoursOf(q)) = Carry!NegativeTime(s)
      /\ Carry!SumSeq(CostsOf(q)) = Carry!SumSeq(PaidBelow(s))
      /\ Carry!NegativeTime(s) <= Carry!Elapsed(s)
      /\ \A i \in 1..(Len(q) - 1) : \E j \in DOMAIN s :
             q[i].end <= s[j].time /\ s[j].time < q[i + 1].start /\ s[j].rate >= 0
      /\ \A i, j \in DOMAIN s :
           (i <= j /\ \A k \in i..j : s[k].rate < 0) =>
             /\ Carry!Run(s, i, j, t).cost >= Carry!WorstCost(q)
             /\ Carry!Run(s, i, j, t).hours <= Carry!LongestHours(q)
      /\ Carry!Gaps(s) = {} => \A i \in 1..(Len(q) - 1) : q[i].hours = q[i].end - q[i].start
  BY <1>2, <1>3, NegativesAreCarried
<1> QED BY <1>1, <1>3, <1>4, <1>5, <1>6

(* Of a set of days of the study the first and the last are days of it.    *)
LEMMA FirstAndLastDay ==
    ASSUME Carry!FundingAssumption, NEW S \in SUBSET Carry!AllDays, NEW d \in S
    PROVE  Carry!Min(S) <= d /\ d <= Carry!Max(S)
<1>1. 0 \in 0..LastPaid
  BY DEF Carry!FundingAssumption
<1>2. S \subseteq Nat /\ IsFiniteSet(S) /\ S # {}
  BY <1>1, DaysOfTheStudy, FS_Subset
<1>3. (\E x \in S : \A y \in S : x <= y) /\ (\E x \in S : \A y \in S : x >= y)
  BY <1>2, LeastExists, GreatestExists
<1>4. Min(S) \in S /\ Max(S) \in S /\ (\A y \in S : Min(S) <= y) /\ (\A y \in S : Max(S) >= y)
  BY <1>3 DEF Min, Max
<1>5. Min(S) <= d /\ d <= Max(S)
  BY <1>2, <1>4
<1> QED BY <1>5, StudySums

(* A listing's panel holds the days of its membership.                     *)
LEMMA PanelsAreMembership ==
    ASSUME Carry!FundingAssumption, CarryInv, NEW c \in Carry!Listed
    PROVE  Carry!PanelDays(c) = {d \in Carry!AllDays : c \in Carry!Members(d)}
<1>1. c \in FundedCoins /\ Carry!Live(c) # {}
  BY DEF Carry!Listed
<1>2. Carry!Live(c) = Carry!FundedDays(c) \cap candles[c]
  BY <1>1 DEF Carry!Live
<1>3. PICK S : S = Carry!Live(c)
  OBVIOUS
<1>4. S \in SUBSET Carry!AllDays
  BY <1>1, <1>2, <1>3 DEF CarryInv
<1>5. Carry!PanelDays(c) = S
  <2>1. ASSUME NEW d \in S PROVE d \in Carry!PanelDays(c)
    <3>1. Carry!Min(S) <= d /\ d <= Carry!Max(S)
      BY <1>4, FirstAndLastDay
    <3> QED BY <1>2, <1>3, <3>1 DEF Carry!PanelDays
  <2>2. Carry!PanelDays(c) \subseteq S
    BY <1>2, <1>3 DEF Carry!PanelDays
  <2> QED BY <2>1, <2>2
<1>6. {d \in Carry!AllDays : c \in Carry!Members(d)} = S
  <2>1. ASSUME NEW d PROVE c \in Carry!Members(d) <=> d \in S
    BY <1>3 DEF Carry!Members
  <2> QED BY <1>4, <2>1
<1> QED BY <1>5, <1>6

(* Every day of the universe is measured or skipped.                       *)
LEMMA DaysAreMeasured ==
    ASSUME Carry!FundingAssumption, NEW among
    PROVE  Carry!Cardinality(DOMAIN Carry!Series(among)) + Carry!SkippedDays(among) = Carry!Cardinality(Carry!Days)
<1>1. IsFiniteSet(Carry!Days)
  <2>1. 0 \in 0..LastPaid
    BY DEF Carry!FundingAssumption
  <2> QED BY <2>1, DaysOfTheStudy, FS_Subset DEF Carry!Days
<1> DEFINE A == {d \in Carry!Days : Carry!Thick(d, among)}
           B == {d \in Carry!Days : ~Carry!Thick(d, among)}
<1>2. DOMAIN Carry!Series(among) = A /\ Carry!SkippedDays(among) = Cardinality(B)
  BY StudySizes DEF Carry!Series, Carry!SkippedDays
<1>3. A \cup B = Carry!Days /\ A \cap B = {} /\ A \subseteq Carry!Days /\ B \subseteq Carry!Days
  OBVIOUS
<1> HIDE DEF A, B
<1>4. IsFiniteSet(A) /\ IsFiniteSet(B)
  BY <1>1, <1>3, FS_Subset
<1>5. Cardinality(A \cup B) = Cardinality(A) + Cardinality(B) - Cardinality(A \cap B)
  BY <1>4, FS_Union
<1>6. Cardinality(A) \in Nat /\ Cardinality(B) \in Nat /\ Cardinality(A \cap B) = 0
  BY <1>3, <1>4, FS_CardinalityType, FS_EmptySet
<1>7. Carry!Cardinality(DOMAIN Carry!Series(among)) = Cardinality(A) /\ Carry!Cardinality(Carry!Days) = Cardinality(A \cup B)
  BY <1>2, <1>3, StudySizes
<1> QED BY <1>2, <1>5, <1>6, <1>7

(* The tail of a cross-section is a part of it.                            *)
LEMMA TailIsPart ==
    ASSUME NEW n \in Nat \ {0} PROVE Carry!Tail10(n) \in Nat /\ Carry!Tail10(n) <= n
<1>1. n \div 10 \in Nat /\ n \div 10 <= n
  OBVIOUS
<1> QED BY <1>1 DEF Carry!Tail10

(* What a coin was paid on a day is a number.                              *)
LEMMA PaidOnADay ==
    ASSUME CarryInv, NEW c \in FundedCoins, NEW d
    PROVE  Carry!FundingOn(c, d) \in Int
<1>1. PICK s : s = funding[c]
  OBVIOUS
<1>2. s \in Seq(FundingRow)
  BY <1>1 DEF CarryInv, InTime
<1>3. PICK n \in Nat : n = Len(s) /\ DOMAIN s = 1..n
  BY <1>2, LenProperties
<1>4. \A i \in 1..n : s[i].rate \in Int
  <2>1. \A i \in 1..n : s[i] \in FundingRow
    BY <1>2, <1>3
  <2> QED BY <2>1 DEF FundingRow
<1> DEFINE F == [i \in 1..n |-> IF Carry!DayOf(s[i].time) = d THEN s[i].rate ELSE 0]
<1>5. Carry!FundingOn(c, d) = Carry!SumSeq(F)
  BY <1>1, <1>3 DEF Carry!FundingOn
<1>6. DOMAIN F = 1..n /\ \A i \in 1..n : F[i] \in Int
  BY <1>4
<1> HIDE DEF F
<1>7. IsFiniteSet(1..n)
  BY FS_Interval
<1> QED BY <1>5, <1>6, <1>7, SumType, StudySums

(* The highest tail earned no less than the lowest.                        *)
LEMMA SpreadIsNotNegative ==
    ASSUME Carry!FundingAssumption, CarryInv, NEW among, NEW d, Carry!Thick(d, among)
    PROVE  Carry!Measure(d, among).n >= ThinDay /\ Carry!Measure(d, among).spread >= 0
<1>1. PICK S : S = Carry!Members(d) \cap among
  OBVIOUS
<1>2. S \subseteq FundedCoins /\ IsFiniteSet(S) /\ Cardinality(S) \in Nat
  <2>1. S \subseteq FundedCoins
    BY <1>1 DEF Carry!Members, Carry!Listed
  <2>2. IsFiniteSet(FundedCoins)
    BY StudySizes DEF Carry!FundingAssumption
  <2> QED BY <2>1, <2>2, FS_Subset, FS_CardinalityType
<1>3. PICK n \in Nat : n = Cardinality(S)
  BY <1>2
<1>4. n >= ThinDay /\ ThinDay \in Nat \ {0}
  BY <1>1, <1>3, StudySizes DEF Carry!Thick, Carry!FundingAssumption
<1>5. PICK k \in Nat : k = Carry!Tail10(n) /\ k <= n
  <2>1. n \in Nat \ {0}
    BY <1>4
  <2> QED BY <2>1, TailIsPart
<1>6. PICK L, H : L = Carry!Lowest(k, S, d) /\ H = Carry!Highest(k, S, d)
  OBVIOUS
<1>7. Carry!Measure(d, among) = [n |-> n, tail |-> k, spread |-> Carry!Earned(H, d) - Carry!Earned(L, d)]
  BY <1>1, <1>3, <1>5, <1>6, StudySizes DEF Carry!Measure
<1> DEFINE F == [c \in S |-> Carry!FundingOn(c, d)]
           G == [c \in S |-> 0 - Carry!FundingOn(c, d)]
<1>8. \A c \in S : /\ F[c] = Carry!FundingOn(c, d) /\ F[c] \in Int /\ G[c] = 0 - F[c] /\ G[c] \in Int
                   /\ Carry!FundingOn(c, d) \in Int
  BY <1>2, PaidOnADay
<1> HIDE DEF F, G
<1>9. L \in SUBSET S /\ Cardinality(L) = k /\ \A c \in L, other \in S \ L : Carry!FundingOn(c, d) <= Carry!FundingOn(other, d)
  <2>1. PICK low : Bottom(F, S, low, k)
    BY <1>2, <1>3, <1>5, <1>8, BottomExists
  <2>2. low \in SUBSET S /\ Cardinality(low) = k /\ \A c \in low, other \in S \ low : Carry!FundingOn(c, d) <= Carry!FundingOn(other, d)
    BY <1>8, <2>1 DEF Bottom
  <2>3. \E low1 \in SUBSET S : Carry!Cardinality(low1) = k
          /\ \A c \in low1, other \in S \ low1 : Carry!FundingOn(c, d) <= Carry!FundingOn(other, d)
    BY <2>2, StudySizes
  <2>4. /\ L \in SUBSET S /\ Carry!Cardinality(L) = k
        /\ \A c \in L, other \in S \ L : Carry!FundingOn(c, d) <= Carry!FundingOn(other, d)
    BY <1>6, <2>3 DEF Carry!Lowest
  <2> QED BY <2>4, StudySizes
<1>10. H \in SUBSET S /\ Cardinality(H) = k /\ \A c \in H, other \in S \ H : Carry!FundingOn(other, d) <= Carry!FundingOn(c, d)
  <2>1. PICK top : Bottom(G, S, top, k)
    BY <1>2, <1>3, <1>5, <1>8, BottomExists
  <2>2. top \in SUBSET S /\ Cardinality(top) = k /\ \A c \in top, other \in S \ top : G[c] <= G[other]
    BY <2>1 DEF Bottom
  <2>3. \A c \in top, other \in S \ top : Carry!FundingOn(other, d) <= Carry!FundingOn(c, d)
    BY <1>8, <2>2
  <2>4. \E high \in SUBSET S : Carry!Cardinality(high) = k
          /\ \A c \in high, other \in S \ high : Carry!FundingOn(other, d) <= Carry!FundingOn(c, d)
    BY <2>2, <2>3, StudySizes
  <2>5. /\ H \in SUBSET S /\ Carry!Cardinality(H) = k
        /\ \A c \in H, other \in S \ H : Carry!FundingOn(other, d) <= Carry!FundingOn(c, d)
    BY <1>6, <2>4 DEF Carry!Highest
  <2> QED BY <2>5, StudySizes
<1>11. Bottom(F, S, L, k)
  BY <1>8, <1>9 DEF Bottom
<1>12. SumOver(F, L) <= SumOver(F, H)
  BY <1>2, <1>8, <1>10, <1>11, BottomIsLeast
<1>13. ASSUME NEW R \in SUBSET S PROVE Carry!Earned(R, d) = SumOver(F, R) /\ SumOver(F, R) \in Int
  <2> DEFINE E == [c \in R |-> Carry!FundingOn(c, d)]
  <2>1. DOMAIN E = R /\ \A c \in R : E[c] = F[c] /\ F[c] \in Int
    BY <1>8
  <2>2. Carry!Earned(R, d) = SumOver(E, DOMAIN E)
    BY DEF Carry!Earned, Carry!FoldFunction, Carry!FoldFunctionOnSet, Carry!MapThenFoldSet, Pick, SumTable, SumOver
  <2>3. IsFiniteSet(R)
    BY <1>2, FS_Subset
  <2> HIDE DEF E
  <2>4. SumOver(E, R) = SumOver(F, R)
    BY <2>1, <2>3, SumAgrees
  <2> QED BY <2>1, <2>2, <2>3, <2>4, SumType
<1>14. PICK x \in Int, y \in Int : x = Carry!Earned(L, d) /\ y = Carry!Earned(H, d) /\ x <= y
  BY <1>9, <1>10, <1>12, <1>13
<1> QED BY <1>4, <1>7, <1>14

(* The property holds of the panels and of every cross-section.            *)
LEMMA PanelsMatch ==
    ASSUME Carry!FundingAssumption, CarryInv PROVE Carry!PanelsMatchMembership
<1>1. ASSUME NEW among, NEW d \in DOMAIN Carry!Series(among)
      PROVE  Carry!Series(among)[d].n >= ThinDay /\ Carry!Series(among)[d].spread >= 0
  <2>1. Carry!Thick(d, among) /\ Carry!Series(among)[d] = Carry!Measure(d, among)
    BY DEF Carry!Series
  <2> QED BY <2>1, SpreadIsNotNegative
<1> QED BY <1>1, PanelsAreMembership, DaysAreMeasured DEF Carry!PanelsMatchMembership

(* No coin has a row at first.                                             *)
LEMMA CarryBegin ==
    ASSUME Carry!FundingAssumption, Carry!Init PROVE CarryInv
<1>1. hour = 0 /\ funding = [c \in FundedCoins |-> <<>>] /\ candles = [c \in FundedCoins |-> {}] /\ LastPaid \in Nat
  BY DEF Carry!Init, Carry!FundingAssumption
<1>2. InTime(<<>>)
  BY DEF InTime
<1> QED BY <1>1, <1>2 DEF CarryInv

(* A row that is later than the rows of its coin keeps them in time.       *)
LEMMA LaterRow ==
    ASSUME NEW s, InTime(s), NEW t \in Nat, NEW r \in Int, \A i \in DOMAIN s : s[i].time < t
    PROVE  InTime(Append(s, [time |-> t, rate |-> r]))
<1>1. PICK e \in FundingRow : e = [time |-> t, rate |-> r] /\ e.time = t
  <2>1. [time |-> t, rate |-> r] \in FundingRow
    BY DEF FundingRow
  <2>2. [time |-> t, rate |-> r].time = t
    OBVIOUS
  <2> QED BY <2>1, <2>2
<1>2. s \in Seq(FundingRow) /\ \A i, j \in DOMAIN s : i < j => s[i].time < s[j].time
  BY DEF InTime
<1>3. PICK n \in Nat : n = Len(s) /\ DOMAIN s = 1..n
  BY <1>2, LenProperties
<1>4. PICK q : q = Append(s, e)
  OBVIOUS
<1>5. /\ q \in Seq(FundingRow) /\ Len(q) = n + 1 /\ DOMAIN q = 1..(n + 1)
      /\ q[n + 1] = e /\ \A i \in 1..n : q[i] = s[i]
  BY <1>2, <1>3, <1>4, AppendProperties
<1>6. ASSUME NEW i \in 1..(n + 1), NEW j \in 1..(n + 1), i < j PROVE q[i].time < q[j].time
  <2>1. i \in 1..n
    BY <1>6
  <2>2. CASE j = n + 1
    BY <1>1, <1>3, <1>5, <2>1, <2>2
  <2>3. CASE j # n + 1
    <3>1. j \in 1..n
      BY <2>3
    <3> QED BY <1>2, <1>3, <1>5, <1>6, <2>1, <3>1
  <2> QED BY <2>2, <2>3
<1>7. InTime(q)
  BY <1>5, <1>6 DEF InTime
<1> QED BY <1>1, <1>4, <1>7

(* Every step of the study keeps that.                                     *)
LEMMA CarryStep ==
    ASSUME Carry!FundingAssumption, CarryInv, [Carry!Next]_(Carry!vars) PROVE CarryInv'
<1>0. /\ hour \in 0..LastPaid /\ LastPaid \in Nat /\ PaidRates \subseteq Int /\ hour \in Nat
      /\ DOMAIN funding = FundedCoins /\ \A c \in FundedCoins : InTime(funding[c])
      /\ candles \in [FundedCoins -> SUBSET Carry!AllDays]
  BY DEF CarryInv, Carry!FundingAssumption
<1>1. CASE Carry!Tick
  <2>1. hour' \in 0..LastPaid /\ funding' = funding /\ candles' = candles
    BY <1>0, <1>1 DEF Carry!Tick
  <2> QED BY <1>0, <2>1 DEF CarryInv
<1>2. ASSUME NEW c \in FundedCoins, Carry!Trade(c) PROVE CarryInv'
  <2>1. hour' = hour /\ funding' = funding /\ candles' = [candles EXCEPT ![c] = @ \cup {Carry!DayOf(hour)}]
    BY <1>2 DEF Carry!Trade
  <2>2. Carry!DayOf(hour) \in Carry!AllDays
    BY <1>0, DaysOfTheStudy
  <2>3. candles' \in [FundedCoins -> SUBSET Carry!AllDays]
    BY <1>0, <2>1, <2>2
  <2> QED BY <1>0, <2>1, <2>3 DEF CarryInv
<1>3. ASSUME NEW c \in FundedCoins, Carry!FailFetch(c) PROVE CarryInv'
  BY <1>0, <1>3 DEF Carry!FailFetch, CarryInv
<1>4. ASSUME NEW c \in FundedCoins, NEW r \in PaidRates, Carry!Publish(c, r) PROVE CarryInv'
  <2>1. /\ hour' = hour /\ candles' = candles
        /\ funding' = [funding EXCEPT ![c] = Append(@, [time |-> hour, rate |-> r])]
        /\ \A i \in DOMAIN funding[c] : funding[c][i].time < hour
    BY <1>4 DEF Carry!Publish
  <2>2. InTime(Append(funding[c], [time |-> hour, rate |-> r]))
    <3>1. r \in Int
      BY <1>0
    <3> QED BY <1>0, <2>1, <3>1, LaterRow
  <2>3. DOMAIN funding' = FundedCoins /\ \A e \in FundedCoins : InTime(funding'[e])
    BY <1>0, <2>1, <2>2
  <2> QED BY <1>0, <2>1, <2>3 DEF CarryInv
<1>5. CASE UNCHANGED Carry!vars
  BY <1>0, <1>5 DEF Carry!vars, CarryInv
<1> QED BY <1>1, <1>2, <1>3, <1>4, <1>5 DEF Carry!Next
-----------------------------------------------------------------------------
(* The studies together: each part keeps its invariant, its own steps and   *)
(* the steps of the others.                                                 *)
StudiesInv == MediumInv /\ PairsInv /\ FoldsInv /\ LaunchInv /\ CarryInv

(* A study starts with nothing observed, traded, written or recorded.       *)
LEMMA StudiesBegin ==
    ASSUME Init PROVE StudiesInv
<1>1. MediumInv
  BY DEF Init, Medium!Init, MediumInv
<1>2. PairsInv
  <2>1. z = <<>> /\ pos = <<>> /\ held = 0 /\ start \in Starts /\ start \in Nat /\ start >= 1
        /\ MaxHold \in Nat /\ MaxHold >= 1
    BY PartsAssumption DEF Init, Pairs!Init, Pairs!PairAssumption
  <2>2. /\ Len(z) = 0 /\ Len(pos) = 0 /\ DOMAIN pos = {} /\ 1..Len(pos) = {} /\ 1..Len(z) = {}
    BY <2>1
  <2>3. z \in [1..Len(z) -> ZValues \cup {NaN}] /\ pos \in [1..Len(z) -> {-1, 0, 1}]
    BY <2>1, <2>2
  <2>4. Pairs!TradesAreBounded
    BY <2>2 DEF Pairs!TradesAreBounded
  <2>5. Pairs!TurnsMatchTrades
    BY <2>1, <2>2 DEF Pairs!TurnsMatchTrades
  <2> QED BY <2>1, <2>2, <2>3, <2>4, <2>5 DEF PairsInv
<1>3. FoldsInv
  <2>1. split \in FoldPlans /\ rows = <<>> /\ stage = "writing" /\ fold = 1
    BY DEF Init, Folds!Init
  <2>2. Len(rows) = 0 /\ 1..Len(rows) = {} /\ rows \in [1..0 -> Row]
    BY <2>1
  <2> QED BY <2>1, <2>2 DEF FoldsInv, Rows, Sorted
<1>4. LaunchInv
  <2>1. now = 0 /\ txs = <<>> /\ sigs = <<>>
    BY DEF Init, Launch!Init
  <2>2. Len(txs) = 0 /\ Len(sigs) = 0 /\ txs \in [1..0 -> Tx] /\ sigs \in [1..0 -> Sig]
    BY <2>1
  <2> QED BY <2>1, <2>2 DEF LaunchInv
<1>5. CarryInv
  BY PartsAssumption, CarryBegin DEF Init
<1> QED BY <1>1, <1>2, <1>3, <1>4, <1>5 DEF StudiesInv

(* A step is each part's own step or leaves that part alone.                *)
LEMMA StudiesParts ==
    ASSUME [Next]_vars
    PROVE  /\ Medium!Next \/ UNCHANGED mediumVars
           /\ Pairs!Next \/ UNCHANGED pairVars
           /\ Folds!Next \/ UNCHANGED foldVars
           /\ [Launch!Next]_(Launch!vars)
           /\ [Carry!Next]_(Carry!vars)
BY DEF Next, vars, Launch!vars, Carry!vars, mediumVars, pairVars, foldVars, launchVars, carryVars

(* Every step keeps all the invariants.                                     *)
LEMMA StudiesStep ==
    ASSUME StudiesInv, [Next]_vars PROVE StudiesInv'
<1>1. MediumInv'
  <2>1. CASE Medium!Next
    BY <2>1, MediumStep DEF StudiesInv
  <2>2. CASE UNCHANGED mediumVars
    BY <2>2 DEF StudiesInv, MediumInv, mediumVars
  <2> QED BY <2>1, <2>2, StudiesParts
<1>2. PairsInv'
  <2>1. CASE Pairs!Next
    BY <2>1, PairsStep DEF StudiesInv
  <2>2. CASE UNCHANGED pairVars
    <3>1. start' = start /\ z' = z /\ pos' = pos /\ held' = held
      BY <2>2 DEF pairVars
    <3>2. PairsInv
      BY DEF StudiesInv
    <3>3. Pairs!TradesAreBounded'
      BY <3>1, <3>2 DEF PairsInv, Pairs!TradesAreBounded, Pairs!Open, Pairs!Before
    <3>4. Pairs!ScoredBars' = Pairs!ScoredBars
      BY <3>1 DEF Pairs!ScoredBars
    <3>5. \A i : Pairs!Before(i)' = Pairs!Before(i)
      BY <3>1 DEF Pairs!Before
    <3>6. Pairs!Turn' = Pairs!Turn
      BY <3>1, <3>4, <3>5 DEF Pairs!Turn
    <3>7. Pairs!Turns' = Pairs!Turns
      BY <3>4, <3>6, TurnsAreSum
    <3>8. Pairs!Opened' = Pairs!Opened
      BY <3>1, <3>4, <3>5 DEF Pairs!Opened
    <3>9. Pairs!TurnsMatchTrades'
      BY <3>1, <3>2, <3>5, <3>7, <3>8 DEF PairsInv, Pairs!TurnsMatchTrades, Pairs!RunPair
    <3> QED BY <3>1, <3>2, <3>3, <3>9 DEF PairsInv
  <2> QED BY <2>1, <2>2, StudiesParts
<1>3. FoldsInv'
  <2>1. CASE Folds!Next
    BY <2>1, FoldsStep DEF StudiesInv
  <2>2. CASE UNCHANGED foldVars
    <3>1. UNCHANGED <<split, rows, data, stage, fold, model>>
      BY <2>2 DEF foldVars
    <3>2. \A k : /\ Folds!Test(k)' = Folds!Test(k) /\ Folds!Train(k)' = Folds!Train(k)
      BY <3>1, FoldsKeep
    <3>3. (\A i : FromItsFold(i)' <=> FromItsFold(i))
      BY <3>1, <3>2 DEF FromItsFold
    <3>4. Folds!HasFold(fold)' <=> Folds!HasFold(fold)
      BY <3>1 DEF Folds!HasFold, Folds!TrainEnd, Folds!WindowStart, Folds!Ts
    <3>5. Folds!HasFold(fold - 1)' <=> Folds!HasFold(fold - 1)
      BY <3>1 DEF Folds!HasFold, Folds!TrainEnd, Folds!WindowStart, Folds!Ts
    <3>6. FoldsInv
      BY DEF StudiesInv
    <3> QED BY <3>1, <3>3, <3>4, <3>5, <3>6 DEF FoldsInv, Folds!None
  <2> QED BY <2>1, <2>2, StudiesParts
<1>4. LaunchInv'
  BY StudiesParts, LaunchStep DEF StudiesInv
<1>5. CarryInv'
  BY PartsAssumption, StudiesParts, CarryStep DEF StudiesInv
<1> QED BY <1>1, <1>2, <1>3, <1>4, <1>5 DEF StudiesInv

(* The invariants hold throughout.                                          *)
THEOREM StudiesKeepInvariants == Spec => []StudiesInv
<1>1. Init => StudiesInv
  BY StudiesBegin
<1>2. StudiesInv /\ [Next]_vars => StudiesInv'
  BY StudiesStep
<1> QED BY <1>1, <1>2, PTL DEF Spec

(* A prediction of the panel reads nothing that was unpublished when it was *)
(* made, for every lag, span and calendar (medium/features.py, study.py).   *)
THEOREM PanelReadsThePublished == Spec => []NothingUnpublished
<1>1. StudiesInv => NothingUnpublished
  BY PanelIsPointInTime DEF StudiesInv, NothingUnpublished
<1> QED BY <1>1, StudiesKeepInvariants, PTL

(* The pairs backtest holds nothing too long, and charges both sides of     *)
(* every trade of the score, for every z series (pairs/backtest.py).        *)
THEOREM PairsAddUp == Spec => []TradesAddUp
<1>1. StudiesInv => TradesAddUp
  BY DEF StudiesInv, PairsInv, TradesAddUp
<1> QED BY <1>1, StudiesKeepInvariants, PTL

(* Out-of-fold means it: no shared outcome, and blocks that partition the   *)
(* rows, for every plan and every history of rows (research/validation).    *)
THEOREM FoldsStayApart == Spec => []FoldsAreApart
<1>1. StudiesInv => FoldsAreApart
  BY FoldsApart DEF StudiesInv, FoldsAreApart
<1> QED BY <1>1, StudiesKeepInvariants, PTL

(* Once its window has closed a launch is scored the same for ever, and its *)
(* label only worsens until the slow horizon (history.py, behavior.py).     *)
THEOREM LaunchPastIsClosed == Spec => PastIsClosed
<1>1. StudiesInv /\ [Next]_vars =>
        [/\ now > OpenTime => Launch!HistoryFeatures' = Launch!HistoryFeatures
         /\ now > ReadTime => Launch!BehaviourFeatures' = Launch!BehaviourFeatures
         /\ now > OpenTime => Launch!Severity(Launch!Label') >= Launch!Severity(Launch!Label)
         /\ now > SlowTime => Launch!Label' = Launch!Label]_(Launch!vars)
  <2> SUFFICES ASSUME StudiesInv, [Next]_vars
               PROVE  /\ now > OpenTime => Launch!HistoryFeatures' = Launch!HistoryFeatures
                      /\ now > ReadTime => Launch!BehaviourFeatures' = Launch!BehaviourFeatures
                      /\ now > OpenTime => Launch!Severity(Launch!Label') >= Launch!Severity(Launch!Label)
                      /\ now > SlowTime => Launch!Label' = Launch!Label
    OBVIOUS
  <2>1. LaunchInv /\ [Launch!Next]_(Launch!vars)
    BY StudiesParts DEF StudiesInv
  <2>2. now > SlowTime => now > OpenTime
    BY <2>1, PartsAssumption DEF Launch!LaunchAssumption, LaunchInv
  <2> QED BY <2>1, <2>2, HistoryIsSettled, BehaviourIsSettled, LabelOnlyWorsens
<1> QED BY <1>1, StudiesKeepInvariants, PTL DEF Spec, PastIsClosed, Launch!PastIsClosed
(* The reported runs carry all of the negative funding, whatever holes the  *)
(* history has, and panels and cross-sections cover exactly the membership, *)
(* for every coin and history (carry/funding.py, cross/universe.py).        *)
THEOREM FundingIsReported == Spec => []FundingIsWhole
<1>1. StudiesInv => FundingIsWhole
  BY PartsAssumption, RunsOfCoins, PanelsMatch DEF StudiesInv, FundingIsWhole
<1> QED BY <1>1, StudiesKeepInvariants, PTL
=============================================================================
