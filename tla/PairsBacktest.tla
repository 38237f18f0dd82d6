--------------------------- MODULE PairsBacktest ---------------------------
(* One pair traded on the z-score of its spread, bar by bar: enter beyond    *)
(* EntryZ, leave when z comes back to zero or after MaxHold bars. Only the   *)
(* bars from "start" on are scored, to the last but one.                     *)
(* Source: research/pairs/backtest.py                                        *)
EXTENDS Integers, Sequences, FiniteSets, FiniteSetsExt

CONSTANTS Zs,        \* z values; NaN where the trailing window was not finite
          NaN, EntryZ, MaxHold, Starts, LastBar

PairAssumption == MaxHold \in Nat \ {0} /\ Starts \subseteq Nat \ {0}

VARIABLES start,    \* first scored bar
          z,        \* the bars' z values
          pos, held \* the positions taken, and how long the open one is held
bvars == <<start, z, pos, held>>

Current == IF pos = <<>> THEN 0 ELSE pos[Len(pos)]
SignOf(zi) == IF zi <= -EntryZ THEN 1 ELSE IF zi >= EntryZ THEN -1 ELSE 0
BackAtZero(state, zi) == (state > 0 /\ zi >= 0) \/ (state < 0 /\ zi <= 0)

\* Mutant: the holding count goes on from one trade to the next.
StepHoldsOn(state, h, zi) ==
  IF zi = NaN THEN [pos |-> 0, held |-> 0]
  ELSE IF state = 0 THEN [pos |-> SignOf(zi), held |-> h]
  ELSE IF BackAtZero(state, zi) \/ h + 1 > MaxHold THEN [pos |-> 0, held |-> 0]
  ELSE [pos |-> state, held |-> h + 1]

\* positions_from_z: one bar.
Step(state, h, zi) ==
  IF zi = NaN THEN [pos |-> 0, held |-> 0]
  ELSE IF state = 0 THEN [pos |-> SignOf(zi), held |-> 0]
  ELSE IF BackAtZero(state, zi) \/ h + 1 >= MaxHold THEN [pos |-> 0, held |-> 0]
  ELSE [pos |-> state, held |-> h + 1]

Init == /\ start \in Starts
        /\ z = <<>> /\ pos = <<>> /\ held = 0
Bar == \E zi \in Zs \cup {NaN} :
         LET s == Step(Current, held, zi) IN
         /\ Len(z) < LastBar
         /\ z' = Append(z, zi)
         /\ pos' = Append(pos, s.pos) /\ held' = s.held /\ UNCHANGED start
Next == Bar
Spec == Init /\ [][Next]_bvars

\* run_pair scores bars start .. n - 1: one-way turns and trades opened.
ScoredBars  == start..(Len(z) - 1)
Before(i)   == IF i = 1 THEN 0 ELSE pos[i - 1]
Turn        == [i \in ScoredBars |-> IF pos[i] > Before(i) THEN pos[i] - Before(i) ELSE Before(i) - pos[i]]
Turns       == MapThenSumSet(LAMBDA i : Turn[i], ScoredBars)
Opened      == Cardinality({i \in ScoredBars : pos[i] # 0 /\ Before(i) = 0})
RunPair     == [bars |-> Cardinality(ScoredBars), turns |-> Turns, trades |-> Opened]

-----------------------------------------------------------------------------
Open(S) == \A i \in S : pos[i] # 0

(* A position never turns over without going flat, and is never open for     *)
(* more bars than MaxHold ("give up after thirty days").                     *)
TradesAreBounded ==
  /\ \A i \in DOMAIN pos : pos[i] * Before(i) >= 0
  /\ \A i, j \in DOMAIN pos : Open(i..j) => j - i < MaxHold

(* The turns charged are both sides of every trade opened in the score, less *)
(* the exit of one still open at the end, plus the exit of one carried in.   *)
TurnsMatchTrades ==
  Len(z) > start =>
    RunPair.turns = 2 * RunPair.trades - (IF pos[Len(z) - 1] # 0 THEN 1 ELSE 0) + (IF Before(start) # 0 THEN 1 ELSE 0)

(* "Entering transacts one unit one-way and exiting transacts another": every *)
(* trade whose return is in the score pays both sides.                       *)
EveryTradePaysBothSides ==
  Len(z) > start =>
    Turns >= 2 * Cardinality({i \in ScoredBars : pos[i] # 0 /\ (Before(i) = 0 \/ i = start)})
=============================================================================
