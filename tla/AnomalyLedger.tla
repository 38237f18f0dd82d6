---------------------------- MODULE AnomalyLedger ----------------------------
(***************************************************************************)
(* _AnomalyLedger (data/validate/replay.py): anomalies of a replayed day   *)
(* counted in bounded memory.  A timestamp near no gap at all is counted   *)
(* and forgotten at once; only those near a gap are kept until the span is *)
(* known.  `marks` is a history variable: the ledger does not hold it.     *)
(***************************************************************************)
EXTENDS AnomalyVerdict

VARIABLES
    definite,    \* _definitely_unexplained
    near         \* _near_gap_ns

vars == <<gaps, span, marks, verdict, definite, near>>

Init == InitVerdict /\ definite = 0 /\ near = {}

(* Two slips: explaining by the gaps in scope so far, and keeping what is  *)
(* already counted.                                                        *)
MarkByScope(m) ==
    IF Explained(m[2], InScope(gaps))
    THEN near' = near \cup {m} /\ UNCHANGED definite
    ELSE definite' = definite + 1 /\ UNCHANGED near

(* mark *)
LedgerMark(m) ==
    IF Explained(m[2], gaps)
    THEN near' = near \cup {m} /\ UNCHANGED definite
    ELSE definite' = definite + 1 /\ UNCHANGED near

(* unexplained *)
Unexplained(windows) ==
    definite + Cardinality({m \in near : ~Explained(m[2], windows)})

ReplayQuiet(ts) == Quiet(ts) /\ UNCHANGED <<definite, near>>

ReplayAnomaly(number, ts) == Anomaly(number, ts) /\ LedgerMark(<<number, ts>>)

Report ==
    /\ verdict = Open
    /\ verdict' = Unexplained(InScope(gaps))
    /\ UNCHANGED <<gaps, span, marks, definite, near>>

Next ==
    \/ \E ts \in 0..MaxTime : ReplayQuiet(ts) \/ \E n \in Number : ReplayAnomaly(n, ts)
    \/ Report

Spec == Init /\ [][Next]_vars
-----------------------------------------------------------------------------
(* What the ledger holds is what it was given, sorted by whether a gap     *)
(* near it could still explain it: the inductive invariant.                *)
LedgerInv ==
    /\ gaps \subseteq GapChoices
    /\ marks \subseteq Mark /\ IsFiniteSet(marks)
    /\ near = {m \in marks : Explained(m[2], gaps)}
    /\ definite = Cardinality(marks \ near)
    /\ verdict = Open \/ verdict \in Nat

(* "Semantics are identical to evaluating everything at the end".          *)
ImplementsVerdict == Verdict
=============================================================================
