---------------------------- MODULE MediumPanel ----------------------------
(* The weekly panel and its walk-forward ridge. A value is modelled by its    *)
(* origins: the dated source observations it was computed from. A metric is a *)
(* function from metric days to origins, so every transform is exact about    *)
(* which days it reads.                                                       *)
(* Source: research/medium/features.py, research/medium/study.py             *)
EXTENDS Integers, FiniteSets, FiniteSetsExt, Sequences

CONSTANTS Classes,   \* the feature classes replayed: {"A", "B", "C", "D", "E"}
          Lag,       \* Lag[k]: registered publication lag of class k, in days
          Short, Long, Window,     \* the 7, 28 and 90 (or 365) day spans
          MinWindow, MinMean,      \* observations a z-score or a mean needs
          Week, Horizons, MinTrain,
          LastDay, MaxHoles   \* bounds: days, and missing observations in all

PanelAssumption ==
  /\ Classes \subseteq {"A", "B", "C", "D", "E"} /\ Lag \in [{"A", "B", "C", "D"} -> Nat]
  /\ Short \in Nat /\ Long \in Nat /\ Window \in Nat
  /\ Week \in Nat \ {0} /\ Horizons \subseteq Nat

VARIABLES class, horizon,  \* the grid cell
          day,
          seen             \* seen[s]: metric days on which source s has a value
pvars == <<class, horizon, day, seen>>

Sources == {"flow_in", "flow_out", "level"}
Raw(s)  == [d \in seen[s] |-> {<<s, d>>}]

-----------------------------------------------------------------------------
\* Series: the newest day at or before a cutoff, and trailing windows.
UpTo(m, cutoff)      == {d \in DOMAIN m : d <= cutoff}
None == {<<"none", 0>>}
LatestUsable(m, decision, lag) ==
  LET usable == UpTo(m, decision - lag) IN IF usable = {} THEN None ELSE m[Max(usable)]
WindowEnding(m, last, days) == {d \in DOMAIN m : last - days < d /\ d <= last}
OriginsOf(m, D) == UNION {m[d] : d \in D}

\* pct_change and slope read the newest observation at least "days" older.
Change(m, days) ==
  [d \in {e \in DOMAIN m : UpTo(m, e - days) # {}} |-> m[d] \cup m[Max(UpTo(m, d - days))]]
\* rolling_z and trailing_percentile: against the window strictly before.
AgainstPast(m, days, least) ==
  [d \in {e \in DOMAIN m : Cardinality(WindowEnding(m, e - 1, days)) >= least} |->
     m[d] \cup OriginsOf(m, WindowEnding(m, d - 1, days))]
RollingSum(m, days) == [d \in DOMAIN m |-> OriginsOf(m, WindowEnding(m, d, days))]
RollingMean(m, days) ==
  [d \in {e \in DOMAIN m : Cardinality(WindowEnding(m, e, days)) >= MinMean} |->
     OriginsOf(m, WindowEnding(m, d, days))]

StablecoinClass ==
  LET chg == Change(Raw("level"), Short)
  IN  {chg, Change(Raw("level"), Long), AgainstPast(chg, Window, MinWindow)}

\* Net flow where both directions printed, over the newest market cap.
NetflowClass ==
  LET both == seen["flow_in"] \cap seen["flow_out"]
      net  == RollingSum([d \in both |-> Raw("flow_in")[d] \cup Raw("flow_out")[d]], Short)
      scaled == [d \in {e \in both : LatestUsable(Raw("level"), e, 0) # None} |->
                   net[d] \cup LatestUsable(Raw("level"), d, 0)]
  IN  {scaled, Change(Raw("level"), Long)}

FundingClass ==
  LET level == RollingSum(Raw("level"), Short)
  IN  {level, AgainstPast(level, Window, MinWindow), Change(level, Long)}

BasisClass ==
  LET mean == RollingMean(Raw("level"), Short)
  IN  {mean, AgainstPast(mean, Window, MinWindow)}

Features(k) == CASE k = "A" -> StablecoinClass [] k = "B" -> NetflowClass
                 [] k = "C" -> FundingClass    [] k = "D" -> BasisClass

\* combined_row: each part of class E is read at its own lag.
Parts == IF class = "E" THEN {"A", "B", "C", "D"} ELSE {class}
RowOf(t) == UNION {{LatestUsable(m, t, Lag[k]) : m \in Features(k)} : k \in Parts}
Complete(t) == None \notin RowOf(t)

-----------------------------------------------------------------------------
\* The study: weeks 1, 2, ...; a label is the return to the close h weeks on.
DayOf(w) == w * Week
Weeks    == 1..(day \div Week)
Label(w) == {<<"close", DayOf(w)>>, <<"close", DayOf(w + horizon)>>}

\* Mutant: the embargo is dropped, the label only has to resolve.
TrainUnembargoed(t) == {s \in Weeks : s + horizon <= t}
\* train_indices: s + 2h <= t.
TrainIndices(t) == {s \in Weeks : s + 2 * horizon <= t}

\* simulate_cell: complete rows train, and a complete row is predicted.
TrainingRows(t) == {s \in TrainIndices(t) : Complete(s)}
Predicts(t)     == Cardinality(TrainingRows(t)) >= MinTrain /\ Complete(t)
TrainedOn(t) == UNION {Label(s) : s \in TrainingRows(t)}

Init == /\ class \in Classes /\ horizon \in Horizons /\ day = 0
        /\ seen = [s \in Sources |-> {}]
\* A day passes; a source may miss its observation.
Used == IF class \in {"B", "E"} THEN Sources ELSE {"level"}
Missing(S) == Cardinality(Used \ S) + Cardinality({x \in Used \X (1..day) : x[2] \notin seen[x[1]]})
NextDay == /\ day < LastDay /\ day' = day + 1
           /\ \E S \in SUBSET Used :
                /\ Missing(S) <= MaxHoles
                /\ seen' = [s \in Sources |-> seen[s] \cup IF s \in S THEN {day + 1} ELSE {}]
           /\ UNCHANGED <<class, horizon>>
Next == NextDay
Spec == Init /\ [][Next]_pvars

-----------------------------------------------------------------------------
OwnLag(k, t, m) == \A o \in LatestUsable(m, t, Lag[k]) \ None : o[2] + Lag[k] <= t

(* A prediction reads nothing that was not published when it was made: every  *)
(* origin of every row it uses is as old as its own class's lag, and every    *)
(* training label resolved a full horizon before it ("publication-lag gating  *)
(* as the load-bearing rule").                                                *)
NothingUnpublished ==
  \A t \in Weeks : Predicts(t) =>
    /\ \A s \in TrainingRows(t) \cup {t}, k \in Parts : \A m \in Features(k) : OwnLag(k, DayOf(s), m)
    /\ \A o \in TrainedOn(t) : o[2] + DayOf(horizon) <= DayOf(t)
=============================================================================
