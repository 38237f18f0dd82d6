---------------------------- MODULE LaunchWindow -----------------------------
(***************************************************************************)
(* The point-in-time features of one launched token while its chain        *)
(* history grows: holdings and insiders in the thirty minutes after the    *)
(* launch (history.py), signature activity before a cutoff (behavior.py),  *)
(* the creator's earlier launches (creator.py), and the label that insider *)
(* sales earn over the following days.  The launch, T0, is at time 0.      *)
(***************************************************************************)
EXTENDS Integers, FiniteSetsExt, SequencesExt, Functions

CONSTANTS
    Creator, Others,     \* wallets
    Window,              \* WINDOW_SECONDS
    Cutoff,              \* x_seconds of the behavioural features
    Soft, Slow,          \* SOFT_RUG_HORIZON_S, SLOW_RUG_HORIZON_S
    Fraction,            \* INSIDER_SELL_FRACTION, as <<numerator, denominator>>
    Amounts,
    LastTime, MaxRecords,  \* bounds: clock, and chain records of all kinds
    None

LaunchAssumption ==
    /\ Window \in Nat /\ Cutoff \in Nat /\ Soft \in Nat /\ Slow \in Nat
    /\ Window <= Soft /\ Soft <= Slow
    /\ Amounts \subseteq Nat /\ Fraction \in Nat \X Nat /\ IsFiniteSet(Others)

VARIABLES
    now,
    txs,     \* transactions of the token, in chain order
    sigs,    \* signatures of the pool
    label,   \* time of the hard-rug event, or None
    prior    \* an earlier launch of the creator: made, and rugged by now

vars == <<now, txs, sigs, label, prior>>

Wallets == {Creator} \cup Others
Missing == -1
Undefined == "refused"

SumOf(f, S) == MapThenSumSet(LAMBDA i : f[i], S)
Kinds(kind, from, to) == {i \in DOMAIN txs : txs[i].kind = kind /\ from <= txs[i].ts /\ txs[i].ts <= to}

(* What a wallet holds from the records up to a time, that time included.  *)
(* A slip: from all of them.                                               *)
Amount(S) == SumOf([i \in DOMAIN txs |-> txs[i].amount], S)
HoldsInTheEnd(w, cutoff) ==
      Amount({i \in Kinds("mint_to", 0, LastTime) \cup Kinds("transfer", 0, LastTime) : txs[i].wallet = w})
    - Amount({i \in Kinds("transfer", 0, LastTime) : txs[i].source = w})
    - Amount({i \in Kinds("sell", 0, LastTime) : txs[i].wallet = w})
Holds(w, cutoff) ==
      Amount({i \in Kinds("mint_to", 0, cutoff) \cup Kinds("transfer", 0, cutoff) : txs[i].wallet = w})
    - Amount({i \in Kinds("transfer", 0, cutoff) : txs[i].source = w})
    - Amount({i \in Kinds("sell", 0, cutoff) : txs[i].wallet = w})
BalancesAt(cutoff) ==
    LET holders == {w \in Wallets : Holds(w, cutoff) > 0}
    IN  [w \in holders |-> Holds(w, cutoff)]
Total(balances) == SumOf(balances, DOMAIN balances)

(* The creator, and wallets whose first inbound transfer came from it.     *)
InsiderSet(cutoff) ==
    LET inbound(w) == {i \in Kinds("transfer", 0, cutoff) : txs[i].wallet = w}
    IN  {Creator} \cup {w \in Wallets : inbound(w) # {} /\ txs[Min(inbound(w))].source = Creator}

(* No features at all of a token whose label event is inside the window.   *)
Leaks(end) == label # None /\ label <= end

FirstTime(S) == IF S = {} THEN None ELSE txs[Min(S)].ts
HistoryFeatures ==
    LET atT0 == BalancesAt(0)
        atEnd == BalancesAt(Window)
    IN  IF Leaks(Window) THEN Undefined ELSE
        [allocation  |-> IF DOMAIN atT0 = {} THEN Missing ELSE
                         <<IF Creator \in DOMAIN atT0 THEN atT0[Creator] ELSE 0, Total(atT0)>>,
         topHolder   |-> IF DOMAIN atEnd = {} THEN Missing ELSE <<Max(Range(atEnd)), Total(atEnd)>>,
         firstSell   |-> FirstTime({i \in Kinds("sell", 0, Window) : txs[i].wallet = Creator}),
         revoked     |-> Kinds("revoke_authority", 0, Window) # {},
         holders     |-> Cardinality(DOMAIN atEnd),
         insiders    |-> Cardinality(InsiderSet(Window) \ {Creator})]

(* Signatures strictly before the cutoff.                                  *)
BehaviourFeatures ==
    LET win == {i \in DOMAIN sigs : sigs[i].ts < Cutoff}
        gaps == {sigs[i + 1].ts - sigs[i].ts : i \in {k \in win : k + 1 \in win}}
    IN  IF Leaks(Cutoff) THEN Undefined ELSE
        [n        |-> Cardinality(win),
         faded    |-> <<Cardinality({i \in win : 3 * sigs[i].ts > 2 * Cutoff}) + 1,
                        Cardinality({i \in win : 3 * sigs[i].ts <= Cutoff}) + 1>>,
         maxGap   |-> IF gaps = {} THEN Cutoff ELSE Max(gaps),
         sinceLast|-> IF win = {} THEN Cutoff ELSE Cutoff - sigs[Max(win)].ts,
         errors   |-> Cardinality({i \in win : sigs[i].err})]

(* Of launches before this one; whether one was a rug is read off the      *)
(* label archive, whenever it became one.                                  *)
CreatorFeatures ==
    IF ~prior.made THEN [launches |-> 0, rugs |-> 0, rate |-> Missing]
    ELSE [launches |-> 1, rugs |-> IF prior.rug THEN 1 ELSE 0, rate |-> IF prior.rug THEN 1 ELSE 0]

(* Decontaminate: how much of what the insiders held they sold, and when.  *)
Label ==
    LET insiders == InsiderSet(Window)
        held == SumOf([w \in insiders |-> IF Holds(w, Window) > 0 THEN Holds(w, Window) ELSE 0], insiders)
        sold(horizon) == Amount({i \in Kinds("sell", Window + 1, horizon) : txs[i].wallet \in insiders})
        enough(horizon) == Fraction[2] * sold(horizon) >= Fraction[1] * held
    IN  IF held > 0 /\ enough(Soft) THEN "soft_rug"
        ELSE IF held > 0 /\ enough(Slow) THEN "slow_rug" ELSE "honest_candidate"
-----------------------------------------------------------------------------
Init ==
    /\ now = 0 /\ txs = <<>> /\ sigs = <<>> /\ label = None
    /\ prior \in {[made |-> made, rug |-> FALSE] : made \in BOOLEAN}

Records == Len(txs) + Len(sigs) + (IF label = None THEN 0 ELSE 1) + (IF prior.rug THEN 1 ELSE 0)

Tick == now < LastTime /\ now' = now + 1 /\ UNCHANGED <<txs, sigs, label, prior>>

Transact(kind, wallet, source, amount) ==
    /\ Records < MaxRecords
    /\ txs' = Append(txs, [ts |-> now, kind |-> kind, wallet |-> wallet,
                           source |-> source, amount |-> amount])
    /\ UNCHANGED <<now, sigs, label, prior>>

Sign(err) ==
    /\ Records < MaxRecords
    /\ sigs' = Append(sigs, [ts |-> now, err |-> err])
    /\ UNCHANGED <<now, txs, label, prior>>

LabelEvent ==
    /\ label = None /\ Records < MaxRecords
    /\ label' = now
    /\ UNCHANGED <<now, txs, sigs, prior>>

(* The earlier launch loses its liquidity, perhaps after this one.         *)
PriorRug ==
    /\ prior.made /\ ~prior.rug /\ Records < MaxRecords
    /\ prior' = [prior EXCEPT !.rug = TRUE]
    /\ UNCHANGED <<now, txs, sigs, label>>

Next ==
    \/ Tick
    \/ \E w \in Wallets, n \in Amounts :
        \/ Transact("mint_to", w, w, n)
        \/ Transact("sell", w, w, n)
        \/ \E from \in Wallets \ {w} : Transact("transfer", w, from, n)
    \/ Transact("revoke_authority", Creator, Creator, 0)
    \/ \E err \in BOOLEAN : Sign(err)
    \/ LabelEvent
    \/ PriorRug

Spec == Init /\ [][Next]_vars
-----------------------------------------------------------------------------
(* Once the window has closed, no later record, sale or label event moves  *)
(* a launch feature: a token is scored the same on the day and years after *)
(* (history.py:76-77, behavior.py:4-8).  Its label may still worsen, only  *)
(* so, and after the slow horizon not at all.                              *)
Severity(verdict) ==
    CASE verdict = "honest_candidate" -> 0 [] verdict = "slow_rug" -> 1 [] OTHER -> 2
PastIsClosed ==
    [][/\ now > Window => HistoryFeatures' = HistoryFeatures
       /\ now > Cutoff => BehaviourFeatures' = BehaviourFeatures
       /\ now > Window => Severity(Label') >= Severity(Label)
       /\ now > Slow => Label' = Label]_vars

(* "A later launch - including a later rug - can never inform an earlier   *)
(* score" (creator.py:46-47).                                              *)
NoLaterRugInforms == [][now > Window => CreatorFeatures' = CreatorFeatures]_vars
=============================================================================
