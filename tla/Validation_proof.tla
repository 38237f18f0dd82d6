-------------------------- MODULE Validation_proof --------------------------
(***************************************************************************)
(* What the judging of a recorded day promises for every day, every set of *)
(* gaps, every set of symbols and venues and any number of messages: the   *)
(* anomaly ledger counts as if it kept everything, the sections of a       *)
(* report answer for all that was asked, where the warm start began does   *)
(* not show, and the rows stored are those of the whole day.               *)
(***************************************************************************)
EXTENDS MCValidation, DataLemmas

-----------------------------------------------------------------------------
(* The anomaly ledger.                                                     *)

(* The gaps in scope at the end are some of those known from the start:    *)
(* what no candidate explains, none of them explains (replay.py, the       *)
(* docstring of _AnomalyLedger: "a superset of the span-scoped list").     *)
LEMMA ScopeIsSubset ==
    ASSUME NEW ts, Explained(ts, InScope(gaps))
    PROVE  Explained(ts, gaps)
BY DEF Explained, InScope

(* Counting what is already unexplained and re-examining the rest counts   *)
(* each anomaly once.                                                      *)
LEMMA CountsOnce ==
    ASSUME LedgerInv
    PROVE  Unexplained(InScope(gaps))
             = Cardinality({m \in marks : ~Explained(m[2], InScope(gaps))})
<1> DEFINE far == marks \ near
           late == {m \in near : ~Explained(m[2], InScope(gaps))}
           all == {m \in marks : ~Explained(m[2], InScope(gaps))}
<1>1. all = far \cup late
  BY ScopeIsSubset DEF LedgerInv
<1>2. far \cap late = {}
  OBVIOUS
<1>3. IsFiniteSet(far) /\ IsFiniteSet(late)
  BY FS_Subset DEF LedgerInv
<1>4. Cardinality(far \cup late) = Cardinality(far) + Cardinality(late) - Cardinality(far \cap late)
  BY <1>3, FS_Union
<1>5. Cardinality(far \cap late) = 0
  BY <1>2, FS_EmptySet
<1>6. Cardinality(far) \in Nat /\ Cardinality(late) \in Nat
  BY <1>3, FS_CardinalityType
<1> HIDE DEF far, late, all
<1>7. Cardinality(all) = Cardinality(far) + Cardinality(late)
  BY <1>1, <1>4, <1>5, <1>6
<1>8. definite = Cardinality(far)
  BY DEF LedgerInv, far
<1> QED
  BY <1>7, <1>8 DEF Unexplained, late, all

(* Marking one more anomaly keeps the books of the ledger.                 *)
LEMMA MarkKeepsInv ==
    ASSUME LedgerInv, VerdictAssumption,
           NEW ts \in 0..MaxTime, NEW number \in Number, ReplayAnomaly(number, ts)
    PROVE  LedgerInv'
<1> DEFINE m == <<number, ts>>
<1>1. m \in Mark /\ m \notin marks /\ m[2] = ts
  BY DEF ReplayAnomaly, Anomaly, Mark
<1>2. marks' = marks \cup {m} /\ gaps' = gaps /\ verdict' = verdict
  BY DEF ReplayAnomaly, Anomaly
<1>3. IsFiniteSet(marks')
  BY <1>2, FS_AddElement DEF LedgerInv
<1>4. near' = {a \in marks' : Explained(a[2], gaps')}
  BY <1>1, <1>2 DEF LedgerInv, ReplayAnomaly, LedgerMark, Explained
<1>5. definite' = Cardinality(marks' \ near')
  <2>1. CASE Explained(ts, gaps)
    <3>1. near' = near \cup {m} /\ definite' = definite
      BY <2>1, <1>1 DEF ReplayAnomaly, LedgerMark
    <3>2. marks' \ near' = marks \ near
      BY <3>1, <1>1, <1>2 DEF LedgerInv
    <3> QED
      BY <3>1, <3>2 DEF LedgerInv
  <2>2. CASE ~Explained(ts, gaps)
    <3>1. near' = near /\ definite' = definite + 1
      BY <2>2, <1>1 DEF ReplayAnomaly, LedgerMark
    <3>2. marks' \ near' = (marks \ near) \cup {m} /\ m \notin marks \ near
      BY <3>1, <1>1, <1>2, <2>2 DEF LedgerInv
    <3>3. IsFiniteSet(marks \ near)
      BY FS_Subset DEF LedgerInv
    <3>4. Cardinality((marks \ near) \cup {m}) = Cardinality(marks \ near) + 1
      BY <3>2, <3>3, FS_AddElement
    <3> QED
      BY <3>1, <3>2, <3>4 DEF LedgerInv
  <2> QED
    BY <2>1, <2>2
<1> QED
  BY <1>1, <1>2, <1>3, <1>4, <1>5 DEF LedgerInv

(* A step of the replay keeps the ledger's books.                          *)
LEMMA StepKeepsInv ==
    ASSUME LedgerInv, VerdictAssumption, [Next]_vars
    PROVE  LedgerInv'
<1>1. CASE \E ts \in 0..MaxTime : ReplayQuiet(ts)
  BY <1>1 DEF ReplayQuiet, Quiet, LedgerInv, Explained
<1>2. CASE \E ts \in 0..MaxTime : \E n \in Number : ReplayAnomaly(n, ts)
  BY <1>2, MarkKeepsInv
<1>3. CASE Report
  <2>1. UNCHANGED <<gaps, marks, definite, near>>
    BY <1>3 DEF Report
  <2>2. IsFiniteSet({m \in marks : ~Explained(m[2], InScope(gaps))})
    BY FS_Subset DEF LedgerInv
  <2>3. verdict' \in Nat
    BY <1>3, <2>2, CountsOnce, FS_CardinalityType DEF Report
  <2> QED
    BY <2>1, <2>3 DEF LedgerInv, Explained
<1>4. CASE UNCHANGED vars
  BY <1>4 DEF vars, LedgerInv, Explained
<1> QED
  BY <1>1, <1>2, <1>3, <1>4 DEF Next

-----------------------------------------------------------------------------
(* What a run knows: its days, scored or still to come, and the venues it  *)
(* skipped answer together for all that was asked; what it has scored is   *)
(* certified.  Once reported, its section is in the report.                *)
AskedOf(asked) == Whole!Selected(asked) \cup (IF asked.venues = Nothing THEN Sources ELSE {})
Answers(days, skipped, asked) ==
    /\ Whole!VenuesOf(days) \cup skipped = AskedOf(asked)
    /\ Whole!VenuesOf(days) \cap skipped = {}
Certified(entries) ==
    \A r \in entries : r.passed =>
        Mechanisms[r.day[1]] # {} /\ \A m \in Mechanisms[r.day[1]] : r.checks[m] > 0
Entry(r) == r = [day |-> r.day, passed |-> r.passed, checks |-> r.checks]
IsRun(r) ==
    r = [asked |-> r.asked, skipped |-> r.skipped, todo |-> r.todo,
         runs |-> r.runs, vendor |-> r.vendor, reported |-> r.reported]
RunInv ==
    /\ IsRun(run)
    /\ Answers(run.todo \cup {r.day : r \in run.runs} \cup run.vendor, run.skipped, run.asked)
    /\ Certified(run.runs) /\ \A r \in run.runs : Entry(r)
    /\ run.reported => run.todo = {} /\ \E section \in Whole!Sections : section.runs = run.runs
WholeInv ==
    /\ report = [i \in 1..Len(report) |-> report[i]] /\ Len(report) \in Nat
    /\ Whole!SectionsAnswerForAll /\ Whole!SummaryIsReported
    /\ run # Nothing => RunInv

(* The plan: each venue asked for has its days or is skipped.              *)
LEMMA PlanAnswers ==
    ASSUME Whole!RunAssumption, NEW asked, ~Whole!Misconfigured(asked)
    PROVE  Answers(UNION {Whole!Days(v, asked) : v \in Whole!Selected(asked) \cap Whole!Venues},
                   Whole!Skipped(asked), asked)
<1> DEFINE S == Whole!Selected(asked)
           D == UNION {Whole!Days(v, asked) : v \in S \cap Whole!Venues}
<1>1. \A v \in S : v \in Whole!Venues
  BY DEF Whole!Misconfigured
<1>2. ASSUME NEW v, NEW d \in Whole!Days(v, asked) PROVE d[1] = v
  <2>1. CASE d \in Whole!RecorderDays(v, asked.dates)
    BY <2>1 DEF Whole!RecorderDays
  <2>2. CASE d \in Whole!VendorDays(v, asked.dates)
    BY <2>2 DEF Whole!VendorDays
  <2> QED BY <1>2, <2>1, <2>2 DEF Whole!Days
<1> HIDE DEF S
<1>3. Whole!VenuesOf(D) = {v \in S : Whole!Days(v, asked) # {}}
  <2>1. \A d \in D : \E v \in S : d \in Whole!Days(v, asked) /\ d[1] = v
    BY <1>2
  <2>2. \A v \in S : \A d \in Whole!Days(v, asked) : d \in D /\ d[1] = v
    BY <1>1, <1>2
  <2> HIDE DEF D
  <2> QED BY <2>1, <2>2 DEF Whole!VenuesOf
<1>4. Whole!Skipped(asked) = {v \in S : Whole!Days(v, asked) = {}} \cup (IF asked.venues = Nothing THEN Sources ELSE {})
  BY DEF Whole!Skipped, S
<1>5. \A v \in S : v \notin Sources
  BY <1>1 DEF Whole!RunAssumption
<1> HIDE DEF D
<1>6. Answers(D, Whole!Skipped(asked), asked)
  BY <1>3, <1>4, <1>5 DEF Answers, AskedOf, S
<1> QED BY <1>6 DEF D, S

(* A section appended is one more section; a torn one says nothing.        *)
LEMMA OneSectionMore ==
    ASSUME report = [i \in 1..Len(report) |-> report[i]], Len(report) \in Nat, NEW s
    PROVE  /\ Append(report, s) = [i \in 1..Len(Append(report, s)) |-> Append(report, s)[i]]
           /\ Len(Append(report, s)) \in Nat
           /\ Whole!ToSet(Append(report, s)) = Whole!ToSet(report) \cup {s}
<1> DEFINE all == {report[i] : i \in 1..Len(report)} \cup {s}
<1>1. report \in [1..Len(report) -> all] /\ s \in all
  OBVIOUS
<1>2. PICK n \in Nat : n = Len(report)
  OBVIOUS
<1>3. report \in [1..n -> all]
  BY <1>1, <1>2
<1> HIDE DEF all
<1>4. /\ Append(report, s) \in [1..n + 1 -> all] /\ Append(report, s)[n + 1] = s
      /\ \A i \in 1..n : Append(report, s)[i] = report[i]
  <2>1. Append(report, s) \in [1..n + 1 -> all]
    BY <1>1, <1>3, Appending
  <2>2. Append(report, s)[n + 1] = s /\ \A i \in 1..n : Append(report, s)[i] = report[i]
    BY <1>1, <1>3, Appending
  <2> QED BY <2>1, <2>2
<1>5. PICK t : t = Append(report, s)
  OBVIOUS
<1>6. t \in [1..n + 1 -> all] /\ t[n + 1] = s /\ \A i \in 1..n : t[i] = report[i]
  BY <1>4, <1>5
<1>7. t \in Seq(all) /\ Len(t) = n + 1
  BY ONLY <1>6, n \in Nat
<1>8. DOMAIN report = 1..n /\ DOMAIN t = 1..(n + 1)
  BY <1>3, <1>6
<1>9. n + 1 \in 1..(n + 1) /\ \A i \in 1..(n + 1) : i = n + 1 \/ i \in 1..n
  OBVIOUS
<1>10. \A i \in 1..n : i \in 1..(n + 1)
  OBVIOUS
<1>11. Whole!ToSet(t) = Whole!ToSet(report) \cup {s}
  BY <1>6, <1>8, <1>9, <1>10 DEF Whole!ToSet
<1>12. t = [i \in 1..Len(t) |-> t[i]] /\ Len(t) \in Nat
  BY <1>6, <1>7
<1> QED BY <1>5, <1>11, <1>12

(* A recorder day scored: certified if it passed.                          *)
LEMMA ScoringKeepsInv ==
    ASSUME WholeInv, NEW d, NEW sound \in BOOLEAN, NEW checks \in [Mechanisms[d[1]] -> 0..1],
           Whole!ScoreRecorder(d, checks, sound)
    PROVE  WholeInv'
<1> DEFINE r == [day |-> d, checks |-> checks, passed |-> sound /\ ~Whole!Uncertified(d[1], checks)]
<1>0. RunInv /\ d \in run.todo /\ UNCHANGED <<report, summary>> /\ run # Nothing
  BY DEF WholeInv, Whole!ScoreRecorder
<1>1. /\ IsRun(run')
      /\ run'.todo = run.todo \ {d} /\ run'.runs = run.runs \cup {r} /\ run'.vendor = run.vendor
      /\ run'.skipped = run.skipped /\ run'.asked = run.asked /\ run'.reported = run.reported
  BY <1>0 DEF Whole!ScoreRecorder, RunInv, IsRun
<1>2. r.passed => Mechanisms[r.day[1]] # {} /\ \A m \in Mechanisms[r.day[1]] : r.checks[m] > 0
  <2>1. r.day = d /\ r.checks = checks /\ (r.passed => ~Whole!Uncertified(d[1], checks))
    OBVIOUS
  <2>2. ~Whole!Uncertified(d[1], checks) =>
            Mechanisms[d[1]] # {} /\ \A m \in Mechanisms[d[1]] : checks[m] # 0 /\ checks[m] \in 0..1
    BY DEF Whole!Uncertified
  <2> HIDE DEF r
  <2> QED BY <2>1, <2>2
<1>3. r.day = d /\ Entry(r)
  BY DEF Entry
<1> HIDE DEF r
<1>4. run'.todo \cup {q.day : q \in run'.runs} \cup run'.vendor = run.todo \cup {q.day : q \in run.runs} \cup run.vendor
  BY <1>0, <1>1, <1>3
<1>5. RunInv'
  BY <1>0, <1>1, <1>2, <1>3, <1>4 DEF RunInv, Certified, Answers, AskedOf
<1> QED BY <1>0, <1>5 DEF WholeInv, Whole!SectionsAnswerForAll, Whole!SummaryIsReported, Whole!Sections

(* The plan is taken, a vendor day scored, a day appears on the disk.      *)
LEMMA OtherWorkKeepsInv ==
    ASSUME WholeInv, Whole!RunAssumption,
           \/ \E v, d : Whole!Record(v, d) \/ Whole!Purchase(v, d) \/ Whole!Start(v, d)
           \/ \E d : Whole!ScoreVendor(d)
    PROVE  WholeInv'
<1>1. CASE \E v, d : Whole!Record(v, d) \/ Whole!Purchase(v, d)
  <2>1. UNCHANGED <<run, report, summary>>
    BY <1>1 DEF Whole!Record, Whole!Purchase
  <2> QED BY <2>1 DEF WholeInv, Whole!SectionsAnswerForAll, Whole!SummaryIsReported, Whole!Sections,
                      RunInv, IsRun, Certified, Answers, AskedOf
<1>2. ASSUME NEW v, NEW d, Whole!Start(v, d) PROVE WholeInv'
  <2> DEFINE asked == [venues |-> v, dates |-> d]
             D == UNION {Whole!Days(w, asked) : w \in Whole!Selected(asked) \cap Whole!Venues}
  <2>1. /\ ~Whole!Misconfigured(asked) /\ UNCHANGED <<report, summary>>
        /\ run' = [asked |-> asked, skipped |-> Whole!Skipped(asked), todo |-> D,
                   runs |-> {}, vendor |-> {}, reported |-> FALSE]
    BY <1>2 DEF Whole!Start
  <2>2. Answers(D, Whole!Skipped(asked), asked)
    BY <2>1, PlanAnswers
  <2> HIDE DEF asked, D
  <2>3. /\ IsRun(run')
        /\ run'.todo = D /\ run'.runs = {} /\ run'.vendor = {} /\ run'.skipped = Whole!Skipped(asked)
        /\ run'.asked = asked /\ run'.reported = FALSE
    BY <2>1 DEF IsRun
  <2>4. D \cup {r.day : r \in {}} \cup {} = D
    OBVIOUS
  <2>5. RunInv'
    BY <2>2, <2>3, <2>4 DEF RunInv, Certified, Answers, AskedOf
  <2> QED BY <2>1, <2>5 DEF WholeInv, Whole!SectionsAnswerForAll, Whole!SummaryIsReported, Whole!Sections
<1>3. ASSUME NEW d, Whole!ScoreVendor(d) PROVE WholeInv'
  <2>0. run # Nothing /\ d \in run.todo /\ UNCHANGED <<report, summary>>
    BY <1>3 DEF Whole!ScoreVendor
  <2>00. IsRun(run)
    BY <2>0 DEF WholeInv, RunInv
  <2>1. /\ IsRun(run')
        /\ run'.todo = run.todo \ {d} /\ run'.vendor = run.vendor \cup {d} /\ run'.runs = run.runs
        /\ run'.skipped = run.skipped /\ run'.asked = run.asked /\ run'.reported = run.reported
    BY <1>3, <2>00 DEF Whole!ScoreVendor, IsRun
  <2>2. RunInv
    BY <2>0 DEF WholeInv
  <2>3. run'.todo \cup {q.day : q \in run'.runs} \cup run'.vendor = run.todo \cup {q.day : q \in run.runs} \cup run.vendor
    BY <2>0, <2>1
  <2>4. RunInv'
    BY <2>0, <2>1, <2>2, <2>3 DEF RunInv, Certified, Answers, AskedOf
  <2> QED BY <2>0, <2>4 DEF WholeInv, Whole!SectionsAnswerForAll, Whole!SummaryIsReported, Whole!Sections
<1> QED BY <1>1, <1>2, <1>3

(* The end of a run: its section, its summary, or its death.               *)
LEMMA EndingKeepsInv ==
    ASSUME WholeInv, Whole!AppendReport \/ Whole!WriteSummary \/ Whole!Die
    PROVE  WholeInv'
<1>0. RunInv
  BY DEF WholeInv, Whole!AppendReport, Whole!WriteSummary, Whole!Die
<1>1. CASE Whole!AppendReport
  <2> DEFINE s == Whole!Section
  <2>1. /\ s.asked = run.asked /\ s.vendor = run.vendor /\ s.skipped = run.skipped
        /\ s.runs = Whole!RecorderEntries
    BY DEF Whole!Section, Whole!VendorEntries
  <2>2. Whole!RecorderEntries = run.runs
    <3>1. \A r \in run.runs : r = [day |-> r.day, passed |-> r.passed, checks |-> r.checks]
      BY <1>0 DEF RunInv, Entry
    <3> QED BY <3>1 DEF Whole!RecorderEntries
  <2>3. s # Whole!Torn
    <3>1. "runs" \in DOMAIN s /\ "runs" \notin DOMAIN Whole!Torn
      BY DEF Whole!Section, Whole!Torn
    <3> QED BY <3>1
  <2> HIDE DEF s
  <2>4. report' = Append(report, s) /\ UNCHANGED summary /\ run.todo = {}
    BY <1>1 DEF Whole!AppendReport, s
  <2>5. /\ IsRun(run')
        /\ run'.todo = run.todo /\ run'.vendor = run.vendor /\ run'.runs = run.runs
        /\ run'.skipped = run.skipped /\ run'.asked = run.asked /\ run'.reported = TRUE
    BY <1>1, <1>0 DEF Whole!AppendReport, RunInv, IsRun
  <2>6. /\ report' = [i \in 1..Len(report') |-> report'[i]] /\ Len(report') \in Nat
        /\ Whole!ToSet(report') = Whole!ToSet(report) \cup {s}
    BY <2>4, OneSectionMore DEF WholeInv
  <2>7. Whole!Sections' = Whole!Sections \cup {s}
    BY <2>3, <2>6 DEF Whole!Sections
  <2>8. /\ Whole!VenuesOf(Whole!DaysIn(s)) \cup s.skipped = AskedOf(s.asked)
        /\ Whole!VenuesOf(Whole!DaysIn(s)) \cap s.skipped = {}
        /\ Certified(s.runs)
    <3>1. {r.day : r \in run.runs} \cup run.vendor = run.todo \cup {r.day : r \in run.runs} \cup run.vendor
      BY <2>4
    <3>2. Whole!DaysIn(s) = {r.day : r \in run.runs} \cup run.vendor
      BY <2>1, <2>2 DEF Whole!DaysIn
    <3> QED BY <3>1, <3>2, <2>1, <2>2, <1>0 DEF RunInv, Answers
  <2>9. RunInv'
    <3>1. run'.todo \cup {q.day : q \in run'.runs} \cup run'.vendor = run.todo \cup {q.day : q \in run.runs} \cup run.vendor
      BY <2>5
    <3>2. s.runs = run'.runs /\ s \in Whole!Sections'
      BY <2>1, <2>2, <2>5, <2>7
    <3> QED BY <3>1, <3>2, <2>4, <2>5, <1>0 DEF RunInv, Certified, Answers, AskedOf
  <2>10. Whole!SectionsAnswerForAll'
    BY <2>7, <2>8 DEF WholeInv, Whole!SectionsAnswerForAll, AskedOf, Certified
  <2>11. Whole!SummaryIsReported'
    BY <2>4, <2>7 DEF WholeInv, Whole!SummaryIsReported
  <2> QED BY <2>6, <2>9, <2>10, <2>11 DEF WholeInv
<1>2. CASE Whole!WriteSummary
  <2>1. run.reported /\ run' = Nothing /\ summary' = run.runs /\ UNCHANGED report
    BY <1>2 DEF Whole!WriteSummary
  <2>2. \E section \in Whole!Sections : section.runs = run.runs
    BY <1>0, <2>1 DEF RunInv
  <2> QED BY <2>1, <2>2 DEF WholeInv, Whole!SectionsAnswerForAll, Whole!SummaryIsReported, Whole!Sections
<1>3. CASE Whole!Die
  <2>1. run' = Nothing /\ UNCHANGED summary /\ (report' = report \/ report' = Append(report, Whole!Torn))
    BY <1>3 DEF Whole!Die
  <2>2. /\ report' = [i \in 1..Len(report') |-> report'[i]] /\ Len(report') \in Nat
        /\ Whole!ToSet(report') \subseteq Whole!ToSet(report) \cup {Whole!Torn}
        /\ Whole!ToSet(report) \subseteq Whole!ToSet(report')
    BY <2>1, OneSectionMore DEF WholeInv
  <2>3. Whole!Sections' = Whole!Sections
    BY <2>2 DEF Whole!Sections
  <2> QED BY <2>1, <2>2, <2>3 DEF WholeInv, Whole!SectionsAnswerForAll, Whole!SummaryIsReported
<1> QED BY <1>1, <1>2, <1>3

(* A step of a run, of the recorder or of a purchase.                      *)
LEMMA WholeStep ==
    ASSUME WholeInv, Whole!RunAssumption, [Whole!Next]_wholeVars PROVE WholeInv'
<1>1. CASE Whole!Next
  <2>1. \/ \E v, d : Whole!Record(v, d) \/ Whole!Purchase(v, d) \/ Whole!Start(v, d)
        \/ \E d : Whole!ScoreVendor(d)
        \/ \E d : \E sound \in BOOLEAN : \E checks \in [Mechanisms[d[1]] -> 0..1] :
               Whole!ScoreRecorder(d, checks, sound)
        \/ Whole!AppendReport \/ Whole!WriteSummary \/ Whole!Die
    BY <1>1 DEF Whole!Next
  <2> QED BY <2>1, OtherWorkKeepsInv, ScoringKeepsInv, EndingKeepsInv
<1>2. CASE UNCHANGED wholeVars
  BY <1>2 DEF wholeVars, WholeInv, Whole!SectionsAnswerForAll, Whole!SummaryIsReported, Whole!Sections,
              RunInv, IsRun, Certified, Answers, AskedOf
<1> QED BY <1>1, <1>2

(* Nothing is planned and nothing written.                                 *)
LEMMA WholeBegins == ASSUME Whole!Init PROVE WholeInv
<1>1. report = [i \in 1..Len(report) |-> report[i]] /\ Len(report) \in Nat
  BY DEF Whole!Init
<1>2. Whole!ToSet(report) = {}
  BY DEF Whole!Init, Whole!ToSet
<1> QED BY <1>1, <1>2 DEF Whole!Init, WholeInv, Whole!SectionsAnswerForAll, Whole!SummaryIsReported, Whole!Sections

-----------------------------------------------------------------------------
(* The states of a replay, and the messages it is given.                   *)
Messages ==
    [id : Nat, hour : 1..Hours, kind : {"snapshot", "update", "other"}, symbol : BookSymbols,
     seq : Nat, good : BOOLEAN]
Trackers == [last : Int, gaps : Nat, observations : Nat]
Books ==
    [valid : BOOLEAN, made : SUBSET Nat, snapshots : Nat, updates : Nat, ignored : Nat,
     seqGaps : Nat, checks : Nat, failures : Nat]
Replays == [tracker : Trackers, books : [BookSymbols -> Books]]

Cold(r, s) == ~r.books[s].valid /\ r.books[s].made = {}
Alike(a, r, s) ==
    a.books[s].valid = r.books[s].valid /\ a.books[s].made = r.books[s].made
SnapshotOf(msg, s) == msg.kind = "snapshot" /\ msg.symbol = s

Fields == {"valid", "made", "snapshots", "updates", "ignored", "seqGaps", "checks", "failures"}
Shape(x) == x = [k \in Fields |-> x[k]]

(* A book of this shape, with these contents and counters.                 *)
Holds(x, v, m, s, u, i, g, c, f) ==
    /\ Shape(x) /\ x.valid \in BOOLEAN /\ x.valid = v /\ x.made = m /\ x.snapshots = s /\ x.updates = u
    /\ x.ignored = i /\ x.seqGaps = g /\ x.checks = c /\ x.failures = f

(* A function of a book's fields whose values have their types is a book.  *)
LEMMA BookOfFields ==
    ASSUME NEW x, Shape(x), x.valid \in BOOLEAN, x.made \subseteq Nat, x.snapshots \in Nat, x.updates \in Nat,
           x.ignored \in Nat, x.seqGaps \in Nat, x.checks \in Nat, x.failures \in Nat
    PROVE  x \in Books
<1>1. PICK y : y = [valid |-> x.valid, made |-> x.made, snapshots |-> x.snapshots, updates |-> x.updates,
                    ignored |-> x.ignored, seqGaps |-> x.seqGaps, checks |-> x.checks, failures |-> x.failures]
  OBVIOUS
<1>2. y = [k \in Fields |-> y[k]] /\ \A k \in Fields : y[k] = x[k]
  BY <1>1 DEF Fields
<1>3. x = y
  BY <1>2 DEF Shape
<1>4. y \in Books
  BY <1>1 DEF Books
<1> QED BY <1>3, <1>4

(* What feeding a book comes to, case by case.                             *)
LEMMA ApplyCases ==
    ASSUME NEW b \in Books, NEW msg, NEW ok
    PROVE  /\ msg.kind = "snapshot" =>
                  Holds(Warm!Apply(b, msg, ok), TRUE, {msg.id}, b.snapshots + 1, b.updates, b.ignored,
                       b.seqGaps, b.checks, b.failures)
           /\ msg.kind # "snapshot" /\ ~ok =>
                  Holds(Warm!Apply(b, msg, ok), FALSE, {}, b.snapshots, b.updates, b.ignored,
                       b.seqGaps + 1, b.checks, b.failures)
           /\ msg.kind # "snapshot" /\ ok /\ ~b.valid =>
                  Holds(Warm!Apply(b, msg, ok), b.valid, b.made, b.snapshots, b.updates, b.ignored + 1,
                       b.seqGaps, b.checks, b.failures)
           /\ msg.kind # "snapshot" /\ ok /\ b.valid /\ sequenced =>
                  Holds(Warm!Apply(b, msg, ok), b.valid, b.made \cup {msg.id}, b.snapshots, b.updates + 1, b.ignored,
                       b.seqGaps, b.checks, b.failures)
           /\ msg.kind # "snapshot" /\ ok /\ b.valid /\ ~sequenced /\ msg.good =>
                  Holds(Warm!Apply(b, msg, ok), b.valid, b.made \cup {msg.id}, b.snapshots, b.updates + 1, b.ignored,
                       b.seqGaps, b.checks + 1, b.failures)
           /\ msg.kind # "snapshot" /\ ok /\ b.valid /\ ~sequenced /\ ~msg.good =>
                  Holds(Warm!Apply(b, msg, ok), FALSE, {}, b.snapshots, b.updates + 1, b.ignored,
                       b.seqGaps, b.checks + 1, b.failures + 1)
<1>0. Shape(b) /\ b.valid \in BOOLEAN
  BY DEF Books, Fields, Shape
<1>1. ASSUME msg.kind = "snapshot"
      PROVE  Holds(Warm!Apply(b, msg, ok), TRUE, {msg.id}, b.snapshots + 1, b.updates, b.ignored,
                       b.seqGaps, b.checks, b.failures)
  <2>1. PICK x : x = [b EXCEPT !.valid = TRUE, !.made = {msg.id}, !.snapshots = @ + 1]
    OBVIOUS
  <2>2. x = Warm!Apply(b, msg, ok)
    BY <1>1, <2>1 DEF Warm!Apply, Warm!Update
  <2> QED BY <1>0, <2>1, <2>2 DEF Fields, Shape, Holds
<1>2. ASSUME NEW y, Shape(y)
      PROVE  Holds(Warm!Emptied(y), FALSE, {}, y.snapshots, y.updates, y.ignored, y.seqGaps, y.checks, y.failures)
  BY <1>2 DEF Warm!Emptied, Fields, Shape, Holds
<1>3. ASSUME msg.kind # "snapshot", ~ok
      PROVE  Holds(Warm!Apply(b, msg, ok), FALSE, {}, b.snapshots, b.updates, b.ignored,
                       b.seqGaps + 1, b.checks, b.failures)
  <2>1. PICK x : x = Warm!Emptied(b)
    OBVIOUS
  <2>2. Warm!Apply(b, msg, ok) = [x EXCEPT !.seqGaps = @ + 1]
    BY <1>3, <2>1 DEF Warm!Apply, Warm!Update
  <2>3. Holds(x, FALSE, {}, b.snapshots, b.updates, b.ignored, b.seqGaps, b.checks, b.failures)
    BY <1>0, <1>2, <2>1
  <2> QED BY <2>2, <2>3 DEF Fields, Shape, Holds
<1>4. ASSUME msg.kind # "snapshot", ok, ~b.valid
      PROVE  Holds(Warm!Apply(b, msg, ok), b.valid, b.made, b.snapshots, b.updates, b.ignored + 1,
                       b.seqGaps, b.checks, b.failures)
  <2>1. PICK x : x = [b EXCEPT !.ignored = @ + 1]
    OBVIOUS
  <2>2. x = Warm!Apply(b, msg, ok)
    BY <1>4, <2>1 DEF Warm!Apply, Warm!Update
  <2> QED BY <1>0, <2>1, <2>2 DEF Fields, Shape, Holds
<1>5. ASSUME msg.kind # "snapshot", ok, b.valid
      PROVE  \E x : /\ Holds(x, b.valid, b.made \cup {msg.id}, b.snapshots, b.updates + 1, b.ignored, b.seqGaps,
                             IF sequenced THEN b.checks ELSE b.checks + 1, b.failures)
                    /\ Warm!Apply(b, msg, ok) = IF sequenced \/ msg.good THEN x
                                                ELSE [Warm!Emptied(x) EXCEPT !.failures = @ + 1]
  <2>1. PICK x : x = [b EXCEPT !.made = @ \cup {msg.id}, !.updates = @ + 1,
                               !.checks = IF sequenced THEN @ ELSE @ + 1]
    OBVIOUS
  <2>2. Warm!Apply(b, msg, ok) = IF sequenced \/ msg.good THEN x
                                 ELSE [Warm!Emptied(x) EXCEPT !.failures = @ + 1]
    BY <1>5, <2>1 DEF Warm!Apply, Warm!Update
  <2>3. Holds(x, b.valid, b.made \cup {msg.id}, b.snapshots, b.updates + 1, b.ignored, b.seqGaps,
              IF sequenced THEN b.checks ELSE b.checks + 1, b.failures)
    BY <1>0, <2>1 DEF Fields, Shape, Holds
  <2> QED BY <2>2, <2>3
<1>6. ASSUME msg.kind # "snapshot", ok, b.valid, sequenced
      PROVE  Holds(Warm!Apply(b, msg, ok), b.valid, b.made \cup {msg.id}, b.snapshots, b.updates + 1, b.ignored,
                       b.seqGaps, b.checks, b.failures)
  BY <1>5, <1>6
<1>7. ASSUME msg.kind # "snapshot", ok, b.valid, ~sequenced, msg.good
      PROVE  Holds(Warm!Apply(b, msg, ok), b.valid, b.made \cup {msg.id}, b.snapshots, b.updates + 1, b.ignored,
                       b.seqGaps, b.checks + 1, b.failures)
  BY <1>5, <1>7
<1>8. ASSUME msg.kind # "snapshot", ok, b.valid, ~sequenced, ~msg.good
      PROVE  Holds(Warm!Apply(b, msg, ok), FALSE, {}, b.snapshots, b.updates + 1, b.ignored,
                       b.seqGaps, b.checks + 1, b.failures + 1)
  <2>1. PICK x : /\ Holds(x, b.valid, b.made \cup {msg.id}, b.snapshots, b.updates + 1, b.ignored, b.seqGaps,
                          b.checks + 1, b.failures)
                 /\ Warm!Apply(b, msg, ok) = [Warm!Emptied(x) EXCEPT !.failures = @ + 1]
    BY <1>5, <1>8
  <2>2. PICK y : y = Warm!Emptied(x)
    OBVIOUS
  <2>3. Holds(y, FALSE, {}, x.snapshots, x.updates, x.ignored, x.seqGaps, x.checks, x.failures)
    BY <1>2, <2>1, <2>2 DEF Holds
  <2>4. Warm!Apply(b, msg, ok) = [y EXCEPT !.failures = @ + 1]
    BY <2>1, <2>2
  <2>5. Holds(y, FALSE, {}, b.snapshots, b.updates + 1, b.ignored, b.seqGaps, b.checks + 1, b.failures)
    BY <2>1, <2>3 DEF Holds
  <2> QED BY <2>4, <2>5 DEF Fields, Shape, Holds
<1> QED BY <1>1, <1>3, <1>4, <1>6, <1>7, <1>8

(* A book that is fed stays a book.                                        *)
LEMMA ApplyType ==
    ASSUME sequenced \in BOOLEAN, NEW b \in Books, NEW msg \in Messages, NEW ok \in BOOLEAN
    PROVE  Warm!Apply(b, msg, ok) \in Books
<1> DEFINE x == Warm!Apply(b, msg, ok)
           Typed == /\ Shape(x) /\ x.valid \in BOOLEAN /\ x.made \subseteq Nat /\ x.snapshots \in Nat
                    /\ x.updates \in Nat /\ x.ignored \in Nat /\ x.seqGaps \in Nat /\ x.checks \in Nat
                    /\ x.failures \in Nat
<1>1. /\ b.valid \in BOOLEAN /\ b.made \subseteq Nat /\ msg.id \in Nat /\ msg.good \in BOOLEAN
      /\ b.snapshots \in Nat /\ b.updates \in Nat /\ b.ignored \in Nat
      /\ b.seqGaps \in Nat /\ b.checks \in Nat /\ b.failures \in Nat
  BY DEF Books, Messages
<1>2. ASSUME msg.kind = "snapshot" PROVE Typed
  <2>1. Holds(Warm!Apply(b, msg, ok), TRUE, {msg.id}, b.snapshots + 1, b.updates, b.ignored,
                       b.seqGaps, b.checks, b.failures)
    BY <1>2, ApplyCases
  <2> QED BY <1>1, <2>1 DEF Holds
<1>3. ASSUME msg.kind # "snapshot", ~ok PROVE Typed
  <2>1. Holds(Warm!Apply(b, msg, ok), FALSE, {}, b.snapshots, b.updates, b.ignored,
                       b.seqGaps + 1, b.checks, b.failures)
    BY <1>3, ApplyCases
  <2> QED BY <1>1, <2>1 DEF Holds
<1>4. ASSUME msg.kind # "snapshot", ok, ~b.valid PROVE Typed
  <2>1. Holds(Warm!Apply(b, msg, ok), b.valid, b.made, b.snapshots, b.updates, b.ignored + 1,
                       b.seqGaps, b.checks, b.failures)
    BY <1>4, ApplyCases
  <2> QED BY <1>1, <2>1 DEF Holds
<1>5. ASSUME msg.kind # "snapshot", ok, b.valid, sequenced PROVE Typed
  <2>1. Holds(Warm!Apply(b, msg, ok), b.valid, b.made \cup {msg.id}, b.snapshots, b.updates + 1, b.ignored,
                       b.seqGaps, b.checks, b.failures)
    BY <1>5, ApplyCases
  <2> QED BY <1>1, <2>1 DEF Holds
<1>6. ASSUME msg.kind # "snapshot", ok, b.valid, ~sequenced, msg.good PROVE Typed
  <2>1. Holds(Warm!Apply(b, msg, ok), b.valid, b.made \cup {msg.id}, b.snapshots, b.updates + 1, b.ignored,
                       b.seqGaps, b.checks + 1, b.failures)
    BY <1>6, ApplyCases
  <2> QED BY <1>1, <2>1 DEF Holds
<1>7. ASSUME msg.kind # "snapshot", ok, b.valid, ~sequenced, ~msg.good PROVE Typed
  <2>1. Holds(Warm!Apply(b, msg, ok), FALSE, {}, b.snapshots, b.updates + 1, b.ignored,
                       b.seqGaps, b.checks + 1, b.failures + 1)
    BY <1>7, ApplyCases
  <2> QED BY <1>1, <2>1 DEF Holds
<1>8. Typed
  BY <1>2, <1>3, <1>4, <1>5, <1>6, <1>7
<1> QED BY <1>8, BookOfFields

(* So does a replay; and only the book of the message's symbol changes.    *)
LEMMA FeedType ==
    ASSUME sequenced \in BOOLEAN, NEW r \in Replays, NEW msg \in Messages
    PROVE  /\ Warm!Feed(r, msg) \in Replays
           /\ Warm!Feed(r, msg).tracker = IF sequenced THEN Warm!Observe(r.tracker, msg.seq) ELSE r.tracker
           /\ \A s \in BookSymbols :
                  Warm!Feed(r, msg).books[s] =
                      IF msg.kind = "other" \/ msg.symbol # s THEN r.books[s]
                      ELSE Warm!Apply(r.books[s], msg, sequenced => Warm!SeqOK(r.tracker, msg.seq))
<1> DEFINE ok == sequenced => Warm!SeqOK(r.tracker, msg.seq)
<1>1. ok \in BOOLEAN /\ r.books \in [BookSymbols -> Books] /\ r.tracker \in Trackers
      /\ msg.symbol \in BookSymbols /\ msg.seq \in Nat
  BY DEF Replays, Messages
<1> HIDE DEF ok
<1>2. Warm!Apply(r.books[msg.symbol], msg, ok) \in Books
  BY <1>1, ApplyType
<1>3. Warm!Feed(r, msg).books = IF msg.kind = "other" THEN r.books
                                ELSE [r.books EXCEPT ![msg.symbol] = Warm!Apply(@, msg, ok)]
  BY DEF Warm!Feed, ok
<1>4. Warm!Feed(r, msg).books \in [BookSymbols -> Books]
  BY <1>1, <1>2, <1>3
<1>5. Warm!Feed(r, msg).tracker = IF sequenced THEN Warm!Observe(r.tracker, msg.seq) ELSE r.tracker
  BY DEF Warm!Feed
<1>6. Warm!Observe(r.tracker, msg.seq) \in Trackers
  BY <1>1 DEF Warm!Observe, Trackers
<1>7. Warm!Feed(r, msg) = [tracker |-> Warm!Feed(r, msg).tracker, books |-> Warm!Feed(r, msg).books]
  BY DEF Warm!Feed
<1>8. Warm!Feed(r, msg) \in Replays
  BY <1>1, <1>4, <1>5, <1>6, <1>7 DEF Replays
<1> QED BY <1>1, <1>3, <1>5, <1>8 DEF ok

(* A snapshot makes the book of its symbol what it says, whatever it was.  *)
LEMMA SnapshotAligns ==
    ASSUME sequenced \in BOOLEAN, NEW a \in Replays, NEW r \in Replays, NEW msg \in Messages,
           NEW s \in BookSymbols, SnapshotOf(msg, s)
    PROVE  Alike(Warm!Feed(a, msg), Warm!Feed(r, msg), s)
<1>3. msg.kind # "other" /\ msg.symbol = s
  BY DEF SnapshotOf
<1>4. ASSUME NEW q \in Replays
      PROVE  Warm!Feed(q, msg).books[s].valid = TRUE /\ Warm!Feed(q, msg).books[s].made = {msg.id}
  <2>1. PICK ok : ok = (sequenced => Warm!SeqOK(q.tracker, msg.seq))
    OBVIOUS
  <2>2. Warm!Feed(q, msg).books[s] = Warm!Apply(q.books[s], msg, ok)
    BY <1>3, <2>1, FeedType
  <2>3. q.books[s] \in Books
    BY DEF Replays
  <2>4. Warm!Apply(q.books[s], msg, ok).valid = TRUE /\ Warm!Apply(q.books[s], msg, ok).made = {msg.id}
    BY <2>3, ApplyCases DEF Holds, SnapshotOf
  <2> QED BY <2>2, <2>4
<1> QED BY <1>4 DEF Alike

(* Without a snapshot an empty book stays empty.                           *)
LEMMA StaysCold ==
    ASSUME sequenced \in BOOLEAN, NEW r \in Replays, NEW msg \in Messages,
           NEW s \in BookSymbols, ~SnapshotOf(msg, s), Cold(r, s)
    PROVE  Cold(Warm!Feed(r, msg), s)
<1>1. r.books[s] \in Books
  BY DEF Replays
<1>2. ASSUME NEW ok \in BOOLEAN, msg.kind # "snapshot"
      PROVE  ~Warm!Apply(r.books[s], msg, ok).valid /\ Warm!Apply(r.books[s], msg, ok).made = {}
  <2> DEFINE b == r.books[s]
  <2>0. b \in Books /\ ~b.valid /\ b.made = {}
    BY <1>1 DEF Cold
  <2> HIDE DEF b
  <2>1. CASE ok
    <3>1. Warm!Apply(b, msg, ok).valid = b.valid /\ Warm!Apply(b, msg, ok).made = b.made
      BY <2>0, <1>2, <2>1, ApplyCases DEF Holds
    <3> QED BY <3>1, <2>0 DEF b
  <2>2. CASE ~ok
    <3>1. ~Warm!Apply(b, msg, ok).valid /\ Warm!Apply(b, msg, ok).made = {}
      BY <2>0, <1>2, <2>2, ApplyCases DEF Holds
    <3> QED BY <3>1 DEF b
  <2> QED BY <2>1, <2>2
<1>3. PICK ok \in BOOLEAN : ok = (sequenced => Warm!SeqOK(r.tracker, msg.seq))
  OBVIOUS
<1>4. Warm!Feed(r, msg).books[s] =
          IF msg.kind = "other" \/ msg.symbol # s THEN r.books[s] ELSE Warm!Apply(r.books[s], msg, ok)
  BY <1>3, FeedType
<1>5. CASE msg.kind = "snapshot" /\ msg.symbol # s
  BY <1>4, <1>5 DEF Cold
<1>6. CASE msg.kind # "snapshot"
  BY <1>2, <1>4, <1>6 DEF Cold
<1> QED BY <1>5, <1>6 DEF SnapshotOf

(* The two trackers judge the message alike.                               *)
SameOrder(a, r, msg) ==
    sequenced => (Warm!SeqOK(a.tracker, msg.seq) <=> Warm!SeqOK(r.tracker, msg.seq))

(* Replays that agree on the numbers and on a book go on agreeing, and     *)
(* count the same things of it.                                            *)
LEMMA StayAlike ==
    ASSUME sequenced \in BOOLEAN, NEW a \in Replays, NEW r \in Replays, NEW msg \in Messages,
           NEW s \in BookSymbols, SameOrder(a, r, msg), Alike(a, r, s)
    PROVE  /\ Alike(Warm!Feed(a, msg), Warm!Feed(r, msg), s)
           /\ \A c \in Warm!Counters :
                 Warm!Feed(a, msg).books[s][c] - a.books[s][c] = Warm!Feed(r, msg).books[s][c] - r.books[s][c]
<1> DEFINE ok == sequenced => Warm!SeqOK(r.tracker, msg.seq)
           b == a.books[s]
           e == r.books[s]
<1>1. b \in Books /\ e \in Books /\ ok \in BOOLEAN
  BY DEF Replays
<1>2. (sequenced => Warm!SeqOK(a.tracker, msg.seq)) = ok
  BY DEF SameOrder
<1>3. b.valid = e.valid /\ b.made = e.made
  BY DEF Alike
<1>4. /\ Warm!Feed(a, msg).books[s] = IF msg.kind = "other" \/ msg.symbol # s THEN b ELSE Warm!Apply(b, msg, ok)
      /\ Warm!Feed(r, msg).books[s] = IF msg.kind = "other" \/ msg.symbol # s THEN e ELSE Warm!Apply(e, msg, ok)
  BY <1>2, FeedType
<1> HIDE DEF ok, b, e
<1>0. Warm!Counters = {"snapshots", "updates", "ignored", "seqGaps", "checks", "failures"}
  BY DEF Warm!Counters
<1>c. /\ b.snapshots \in Nat /\ b.updates \in Nat /\ b.ignored \in Nat
      /\ b.seqGaps \in Nat /\ b.checks \in Nat /\ b.failures \in Nat
      /\ e.snapshots \in Nat /\ e.updates \in Nat /\ e.ignored \in Nat
      /\ e.seqGaps \in Nat /\ e.checks \in Nat /\ e.failures \in Nat
  BY <1>1 DEF Books
<1> DEFINE Same(x, y) == /\ x.valid = y.valid /\ x.made = y.made
                         /\ \A c \in Warm!Counters : x[c] - b[c] = y[c] - e[c]
<1>5. Same(Warm!Apply(b, msg, ok), Warm!Apply(e, msg, ok))
  <2>1. CASE msg.kind = "snapshot"
    <3>1. Holds(Warm!Apply(b, msg, ok), TRUE, {msg.id}, b.snapshots + 1, b.updates, b.ignored,
                       b.seqGaps, b.checks, b.failures)
      BY <1>1, <2>1, ApplyCases
    <3>2. Holds(Warm!Apply(e, msg, ok), TRUE, {msg.id}, e.snapshots + 1, e.updates, e.ignored,
                       e.seqGaps, e.checks, e.failures)
      BY <1>1, <1>3, <2>1, ApplyCases
    <3> QED BY <3>1, <3>2, <1>0, <1>3, <1>c DEF Holds
  <2>2. CASE msg.kind # "snapshot" /\ ~ok
    <3>1. Holds(Warm!Apply(b, msg, ok), FALSE, {}, b.snapshots, b.updates, b.ignored,
                       b.seqGaps + 1, b.checks, b.failures)
      BY <1>1, <2>2, ApplyCases
    <3>2. Holds(Warm!Apply(e, msg, ok), FALSE, {}, e.snapshots, e.updates, e.ignored,
                       e.seqGaps + 1, e.checks, e.failures)
      BY <1>1, <1>3, <2>2, ApplyCases
    <3> QED BY <3>1, <3>2, <1>0, <1>3, <1>c DEF Holds
  <2>3. CASE msg.kind # "snapshot" /\ ok /\ ~b.valid
    <3>1. Holds(Warm!Apply(b, msg, ok), b.valid, b.made, b.snapshots, b.updates, b.ignored + 1,
                       b.seqGaps, b.checks, b.failures)
      BY <1>1, <2>3, ApplyCases
    <3>2. Holds(Warm!Apply(e, msg, ok), e.valid, e.made, e.snapshots, e.updates, e.ignored + 1,
                       e.seqGaps, e.checks, e.failures)
      BY <1>1, <1>3, <2>3, ApplyCases
    <3> QED BY <3>1, <3>2, <1>0, <1>3, <1>c DEF Holds
  <2>4. CASE msg.kind # "snapshot" /\ ok /\ b.valid /\ sequenced
    <3>1. Holds(Warm!Apply(b, msg, ok), b.valid, b.made \cup {msg.id}, b.snapshots, b.updates + 1, b.ignored,
                       b.seqGaps, b.checks, b.failures)
      BY <1>1, <2>4, ApplyCases
    <3>2. Holds(Warm!Apply(e, msg, ok), e.valid, e.made \cup {msg.id}, e.snapshots, e.updates + 1, e.ignored,
                       e.seqGaps, e.checks, e.failures)
      BY <1>1, <1>3, <2>4, ApplyCases
    <3> QED BY <3>1, <3>2, <1>0, <1>3, <1>c DEF Holds
  <2>5. CASE msg.kind # "snapshot" /\ ok /\ b.valid /\ ~sequenced /\ msg.good
    <3>1. Holds(Warm!Apply(b, msg, ok), b.valid, b.made \cup {msg.id}, b.snapshots, b.updates + 1, b.ignored,
                       b.seqGaps, b.checks + 1, b.failures)
      BY <1>1, <2>5, ApplyCases
    <3>2. Holds(Warm!Apply(e, msg, ok), e.valid, e.made \cup {msg.id}, e.snapshots, e.updates + 1, e.ignored,
                       e.seqGaps, e.checks + 1, e.failures)
      BY <1>1, <1>3, <2>5, ApplyCases
    <3> QED BY <3>1, <3>2, <1>0, <1>3, <1>c DEF Holds
  <2>6. CASE msg.kind # "snapshot" /\ ok /\ b.valid /\ ~sequenced /\ ~msg.good
    <3>1. Holds(Warm!Apply(b, msg, ok), FALSE, {}, b.snapshots, b.updates + 1, b.ignored,
                       b.seqGaps, b.checks + 1, b.failures + 1)
      BY <1>1, <2>6, ApplyCases
    <3>2. Holds(Warm!Apply(e, msg, ok), FALSE, {}, e.snapshots, e.updates + 1, e.ignored,
                       e.seqGaps, e.checks + 1, e.failures + 1)
      BY <1>1, <1>3, <2>6, ApplyCases
    <3> QED BY <3>1, <3>2, <1>0, <1>3, <1>c DEF Holds
  <2> QED BY <2>1, <2>2, <2>3, <2>4, <2>5, <2>6
<1>6. \A c \in Warm!Counters : Warm!Apply(b, msg, ok)[c] - b[c] = Warm!Apply(e, msg, ok)[c] - e[c]
  BY <1>5
<1>7. \A c \in Warm!Counters : b[c] - b[c] = e[c] - e[c]
  BY <1>0, <1>c
<1>8. Alike(Warm!Feed(a, msg), Warm!Feed(r, msg), s)
  BY <1>3, <1>4, <1>5 DEF Alike
<1>9. \A c \in Warm!Counters : Warm!Feed(a, msg).books[s][c] - b[c] = Warm!Feed(r, msg).books[s][c] - e[c]
  BY <1>4, <1>6, <1>7
<1> QED BY <1>8, <1>9 DEF b, e

-----------------------------------------------------------------------------
(* The states g of a replay of these messages, from a fresh one on.        *)
Played(g, msgs) ==
    /\ g \in [0..Len(msgs) -> Replays] /\ g[0] = Warm!NewReplay
    /\ \A k \in 1..Len(msgs) : g[k] = Warm!Feed(g[k - 1], msgs[k])

(* A fresh replay has seen nothing.                                        *)
LEMMA FreshReplay ==
    /\ Warm!NewReplay \in Replays /\ Warm!NewReplay.tracker = Warm!NewTracker
    /\ \A s \in BookSymbols : Cold(Warm!NewReplay, s)
<1>1. Warm!NewBook \in Books /\ Warm!NewBook.valid = FALSE /\ Warm!NewBook.made = {}
  BY DEF Warm!NewBook, Books
<1>2. Warm!NewTracker \in Trackers
  BY DEF Warm!NewTracker, Trackers, Warm!Unseen
<1>3. /\ Warm!NewReplay.tracker = Warm!NewTracker
      /\ Warm!NewReplay.books = [s \in BookSymbols |-> Warm!NewBook]
      /\ Warm!NewReplay = [tracker |-> Warm!NewReplay.tracker, books |-> Warm!NewReplay.books]
  BY DEF Warm!NewReplay
<1>4. Warm!NewReplay \in Replays
  BY <1>1, <1>2, <1>3 DEF Replays
<1> QED BY <1>1, <1>3, <1>4 DEF Cold

(* One message more.                                                       *)
LEMMA PlayMore ==
    ASSUME sequenced \in BOOLEAN, NEW msgs \in Seq(Messages), NEW g, Played(g, msgs), NEW m \in Messages
    PROVE  \E h : Played(h, Append(msgs, m)) /\ h[Len(Append(msgs, m))] = Warm!Feed(g[Len(msgs)], m)
<1> DEFINE n == Len(msgs)
           t == Append(msgs, m)
           h == [k \in 0..(n + 1) |-> IF k = n + 1 THEN Warm!Feed(g[n], m) ELSE g[k]]
<1>1. n \in Nat /\ Len(t) = n + 1 /\ t[n + 1] = m /\ \A k \in 1..n : t[k] = msgs[k]
  OBVIOUS
<1>2. g[n] \in Replays
  BY <1>1 DEF Played
<1>3. Warm!Feed(g[n], m) \in Replays
  BY <1>2, FeedType
<1>4. \A k \in 0..(n + 1) : k # n + 1 => k \in 0..n
  BY <1>1
<1> HIDE DEF n, t
<1>5. h \in [0..(n + 1) -> Replays]
  BY <1>1, <1>3, <1>4 DEF Played, n
<1>6. h[0] = Warm!NewReplay
  BY <1>1 DEF Played, n
<1>7. ASSUME NEW k \in 1..(n + 1) PROVE h[k] = Warm!Feed(h[k - 1], t[k])
  <2>1. CASE k = n + 1
    BY <1>1, <2>1
  <2>2. CASE k \in 1..n
    <3>1. h[k] = g[k] /\ h[k - 1] = g[k - 1] /\ t[k] = msgs[k]
      BY <1>1, <2>2
    <3>2. g[k] = Warm!Feed(g[k - 1], msgs[k])
      BY <2>2 DEF Played, n
    <3> QED BY <3>1, <3>2
  <2> QED BY <1>1, <2>1, <2>2
<1>8. h[n + 1] = Warm!Feed(g[n], m)
  BY <1>1
<1> HIDE DEF h
<1>9. Played(h, t) /\ h[Len(t)] = Warm!Feed(g[n], m)
  BY <1>1, <1>5, <1>6, <1>7, <1>8 DEF Played
<1> QED BY <1>9 DEF n, t

(* A replay that met no snapshot of a symbol has an empty book of it, and  *)
(* one of a feed without numbers a tracker that saw none.                  *)
LEMMA PlayedBooks ==
    ASSUME sequenced \in BOOLEAN, NEW msgs \in Seq(Messages), NEW g, Played(g, msgs), NEW n \in 0..Len(msgs)
    PROVE  /\ ~sequenced => g[n].tracker = Warm!NewTracker
           /\ \A s \in BookSymbols : (\A j \in 1..n : ~SnapshotOf(msgs[j], s)) => Cold(g[n], s)
<1> DEFINE Holding(k) ==
               /\ ~sequenced => g[k].tracker = Warm!NewTracker
               /\ \A s \in BookSymbols : (\A j \in 1..k : ~SnapshotOf(msgs[j], s)) => Cold(g[k], s)
           K == {k \in Nat : k <= n => Holding(k)}
<1>1. Holding(0)
  BY FreshReplay DEF Played
<1>2. ASSUME NEW k \in Nat, k \in K, k + 1 <= n PROVE Holding(k + 1)
  <2>1. /\ Holding(k) /\ k + 1 \in 1..Len(msgs) /\ k \in 0..Len(msgs)
        /\ \A j \in 1..k : j \in 1..(k + 1)
    BY <1>2
  <2>2. g[k] \in Replays /\ msgs[k + 1] \in Messages /\ g[k + 1] = Warm!Feed(g[k], msgs[k + 1])
    BY <2>1 DEF Played
  <2>3. ~sequenced => g[k + 1].tracker = Warm!NewTracker
    BY <2>1, <2>2, FeedType
  <2>4. ASSUME NEW s \in BookSymbols, \A j \in 1..(k + 1) : ~SnapshotOf(msgs[j], s) PROVE Cold(g[k + 1], s)
    <3>1. Cold(g[k], s)
      BY <2>1, <2>4
    <3>2. ~SnapshotOf(msgs[k + 1], s)
      BY <2>4
    <3> QED BY <3>1, <3>2, <2>2, StaysCold
  <2> QED BY <2>3, <2>4
<1> HIDE DEF Holding
<1>3. 0 \in K /\ \A k \in Nat : k \in K => k + 1 \in K
  BY <1>1, <1>2
<1> HIDE DEF K
<1>4. n \in K
  BY <1>3, SetInduction
<1> QED BY <1>4 DEF K, Holding

(* A replay begun in the middle of another has, once it met a message, the *)
(* same last number, and the same book of a symbol once it met a snapshot  *)
(* of it.                                                                  *)
LEMMA TailJoins ==
    ASSUME sequenced \in BOOLEAN, NEW msgs \in Seq(Messages), NEW g, Played(g, msgs),
           NEW start \in 1..Len(msgs), NEW tail \in Seq(Messages), NEW h, Played(h, tail),
           Len(tail) = Len(msgs) - start + 1,
           \A k \in 1..Len(tail) : tail[k] = msgs[start - 1 + k]
    PROVE  /\ h[Len(tail)].tracker.last = g[Len(msgs)].tracker.last
           /\ \A s \in BookSymbols :
                  (\E j \in 1..Len(tail) : SnapshotOf(tail[j], s)) => Alike(h[Len(tail)], g[Len(msgs)], s)
<1> DEFINE n == Len(tail)
           Joined(k) ==
               /\ k >= 1 => h[k].tracker.last = g[start - 1 + k].tracker.last
               /\ \A s \in BookSymbols :
                     (\E j \in 1..k : SnapshotOf(tail[j], s)) => Alike(h[k], g[start - 1 + k], s)
           K == {k \in Nat : k <= n => Joined(k)}
<1>0. start \in Nat /\ Len(msgs) \in Nat /\ n \in Nat /\ n >= 1 /\ start - 1 + n = Len(msgs)
  OBVIOUS
<1>1. Joined(0)
  OBVIOUS
<1>2. ASSUME NEW k \in Nat, k \in K, k + 1 <= n PROVE Joined(k + 1)
  <2> DEFINE m == tail[k + 1]
             a == h[k]
             r == g[start - 1 + k]
             p == start - 1 + k
  <2>1. Joined(k) /\ k + 1 \in 1..n /\ k \in 0..n /\ p \in 0..Len(msgs) /\ p + 1 \in 1..Len(msgs) /\ p \in Nat
    BY <1>0, <1>2
  <2>2. p + 1 = start - 1 + (k + 1) /\ (p + 1) - 1 = p /\ (k + 1) - 1 = k
    BY <1>0
  <2>3. m = msgs[p + 1] /\ m \in Messages
    BY <2>1, <2>2
  <2>4. a \in Replays /\ r \in Replays
    BY <2>1 DEF Played
  <2>5. h[k + 1] = Warm!Feed(a, m)
    BY <2>1, <2>2 DEF Played
  <2>6. g[p + 1] = Warm!Feed(r, m)
    BY <2>1, <2>2, <2>3 DEF Played
  <2>7. ~sequenced => a.tracker = Warm!NewTracker /\ r.tracker = Warm!NewTracker
    BY <2>1, PlayedBooks
  <2>8. a.tracker.last = r.tracker.last \/ k = 0
    BY <2>1
  <2> HIDE DEF m, a, r, n
  <2>9. Warm!Feed(a, m).tracker.last = Warm!Feed(r, m).tracker.last
    <3>1. \A x : Warm!Observe(x, m.seq).last = m.seq
      BY DEF Warm!Observe
    <3>2. CASE sequenced
      <4>1. /\ Warm!Feed(a, m).tracker = Warm!Observe(a.tracker, m.seq)
            /\ Warm!Feed(r, m).tracker = Warm!Observe(r.tracker, m.seq)
        BY <2>3, <2>4, <3>2, FeedType
      <4> QED BY <3>1, <4>1
    <3>3. CASE ~sequenced
      BY <2>3, <2>4, <2>7, <3>3, FeedType
    <3> QED BY <3>2, <3>3
  <2>10. ASSUME NEW s \in BookSymbols, NEW j \in 1..(k + 1), SnapshotOf(tail[j], s)
         PROVE  Alike(Warm!Feed(a, m), Warm!Feed(r, m), s)
    <3>1. CASE SnapshotOf(m, s)
      BY <3>1, <2>3, <2>4, SnapshotAligns
    <3>2. CASE ~SnapshotOf(m, s)
      <4>1. j \in 1..k
        BY <2>10, <3>2 DEF m
      <4>2. Alike(a, r, s) /\ k # 0
        BY <2>1, <2>10, <4>1 DEF a, r
      <4>3. SameOrder(a, r, m)
        BY <4>2, <2>8 DEF SameOrder, Warm!SeqOK
      <4> QED BY <4>2, <4>3, <2>3, <2>4, StayAlike
    <3> QED BY <3>1, <3>2
  <2> QED BY <2>2, <2>5, <2>6, <2>9, <2>10
<1> HIDE DEF Joined
<1>3. 0 \in K /\ \A k \in Nat : k \in K => k + 1 \in K
  BY <1>1, <1>2
<1> HIDE DEF K
<1>4. n \in K
  BY <1>0, <1>3, SetInduction
<1>5. Joined(n)
  BY <1>0, <1>4 DEF K
<1> QED BY <1>0, <1>5 DEF Joined, n

(* The warm-up is the replay of its tail.                                  *)
LEMMA WarmUpPlays ==
    ASSUME sequenced \in BOOLEAN, Warm!Found # {}, Warm!WarmTail \in Seq(Messages)
    PROVE  \E h : Played(h, Warm!WarmTail) /\ Warm!WarmUp = h[Len(Warm!WarmTail)]
<1> DEFINE s == Warm!WarmTail
           n == Len(s)
           base == Warm!NewReplay
           G == [i \in 1..n |-> [x \in Replays |-> Warm!Feed(x, s[i])]]
           Fold(h) == h = [t \in SUBSET DOMAIN s |-> IF t = {} THEN base
                                                     ELSE Warm!Feed(h[t \ {Warm!Max(t)}], s[Warm!Max(t)])]
           it == CHOOSE h : Fold(h)
<1>1. Warm!WarmUp = it[DOMAIN s]
  BY DEF Warm!WarmUp, Warm!FoldLeft, Warm!MapThenFoldSet
<1>2. n \in Nat /\ DOMAIN s = 1..n /\ \A i \in 1..n : s[i] \in Messages
  OBVIOUS
<1>3. base \in Replays
  BY FreshReplay
<1>m. \A t : Warm!Max(t) = Max(t)
  BY DEF Warm!Max, Max
<1> HIDE DEF s, n, base
<1>4. \A i \in 1..n : \A x \in Replays : Warm!Feed(x, s[i]) \in Replays
  BY <1>2, FeedType
<1>5. G \in [1..n -> [Replays -> Replays]]
  BY <1>4
<1>6. \A i \in 1..n : \A x \in Replays : G[i][x] = Warm!Feed(x, s[i])
  OBVIOUS
<1> HIDE DEF G
<1>7. PICK g \in [SUBSET (1..n) -> Replays] : FoldOf(g, base, G, n)
  BY <1>2, <1>3, <1>5, FoldExists
<1>8. Fold(g)
  <2>1. \A t \in SUBSET (1..n) : t # {} => Max(t) \in 1..n /\ g[t \ {Max(t)}] \in Replays
    BY <1>2, MaxIsOne
  <2>2. \A t \in SUBSET (1..n) : g[t] = IF t = {} THEN base ELSE G[Max(t)][g[t \ {Max(t)}]]
    BY <1>7 DEF FoldOf
  <2>3. \A t \in SUBSET (1..n) : g[t] = IF t = {} THEN base
                                       ELSE Warm!Feed(g[t \ {Warm!Max(t)}], s[Warm!Max(t)])
    BY <2>1, <2>2, <1>6, <1>m
  <2>4. g = [t \in SUBSET (1..n) |-> g[t]]
    OBVIOUS
  <2> QED BY <2>3, <2>4, <1>2
<1>9. Fold(it)
  BY <1>8
<1> HIDE DEF it
<1>10. \A t \in SUBSET (1..n) : it[t] = IF t = {} THEN base ELSE Warm!Feed(it[t \ {Max(t)}], s[Max(t)])
  BY <1>9, <1>2, <1>m
<1> DEFINE h == [k \in 0..n |-> it[1..k]]
           K == {k \in Nat : k <= n => it[1..k] \in Replays}
<1>11. it[1..0] = base
  <2>1. 1..0 = {} /\ {} \in SUBSET (1..n)
    OBVIOUS
  <2> QED BY <2>1, <1>10
<1>12. ASSUME NEW k \in 1..n PROVE it[1..k] = Warm!Feed(it[1..(k - 1)], s[k])
  <2>1. 1..k \in SUBSET (1..n) /\ 1..k # {} /\ k \in 1..k
    <3>1. 1..k \subseteq 1..n
      BY <1>2
    <3>2. k \in 1..k
      BY <1>2
    <3> QED BY <3>1, <3>2
  <2>2. Max(1..k) \in 1..k /\ \A i \in 1..k : i <= Max(1..k)
    BY <1>2, <2>1, MaxIsOne
  <2>3. Max(1..k) = k /\ (1..k) \ {k} = 1..(k - 1)
    BY <1>2, <2>1, <2>2
  <2> QED BY <1>10, <2>1, <2>3
<1>13. 0 \in K /\ \A k \in Nat : k \in K => k + 1 \in K
  <2>1. 0 \in K
    BY <1>3, <1>11
  <2>2. ASSUME NEW k \in Nat, k \in K, k + 1 <= n PROVE it[1..(k + 1)] \in Replays
    <3>1. it[1..k] \in Replays /\ k + 1 \in 1..n /\ (k + 1) - 1 = k
      BY <1>2, <2>2
    <3>2. it[1..(k + 1)] = Warm!Feed(it[1..k], s[k + 1])
      BY <1>12, <3>1
    <3> QED BY <1>2, <3>1, <3>2, FeedType
  <2> QED BY <2>1, <2>2
<1> HIDE DEF K
<1>14. \A k \in 0..n : it[1..k] \in Replays
  <2>1. Nat \subseteq K
    BY <1>13, SetInduction
  <2> QED BY <1>2, <2>1 DEF K
<1>15. h \in [0..n -> Replays] /\ h[0] = base
  BY <1>2, <1>11, <1>14
<1>16. \A k \in 1..n : h[k] = Warm!Feed(h[k - 1], s[k])
  BY <1>2, <1>12
<1>17. h[n] = it[DOMAIN s]
  BY <1>2
<1> HIDE DEF h
<1>18. Played(h, s) /\ Warm!WarmUp = h[n]
  BY <1>1, <1>15, <1>16, <1>17 DEF Played, n, base
<1> QED BY <1>18 DEF s, n

(* Where the warm-up starts: no later than some snapshot of every symbol   *)
(* that had one.                                                           *)
LEMMA TailHasSnapshots ==
    ASSUME Warm!WarmAssumption, log \in Seq(Messages)
    PROVE  /\ \A s \in BookSymbols : s \notin Warm!Found => \A j \in 1..Len(log) : ~SnapshotOf(log[j], s)
           /\ Warm!Found # {} => \E start \in 1..Len(log) :
                 /\ Warm!WarmTail \in Seq(Messages) /\ Len(Warm!WarmTail) = Len(log) - start + 1
                 /\ \A k \in 1..Len(Warm!WarmTail) : Warm!WarmTail[k] = log[start - 1 + k]
                 /\ \A s \in Warm!Found : \E j \in 1..Len(Warm!WarmTail) : SnapshotOf(Warm!WarmTail[j], s)
<1>0. DOMAIN log = 1..Len(log) /\ Len(log) \in Nat /\ Hours \in Nat /\ \A i \in 1..Len(log) : log[i] \in Messages
  BY DEF Warm!WarmAssumption
<1>1. ASSUME NEW s \in BookSymbols, s \notin Warm!Found, NEW j \in 1..Len(log) PROVE ~SnapshotOf(log[j], s)
  <2>1. log[j].hour \in 1..Hours
    BY <1>0 DEF Messages
  <2> QED BY <1>0, <1>1, <2>1 DEF Warm!Found, Warm!HoursWith, Warm!SnapshotsIn, SnapshotOf
<1>2. ASSUME NEW s \in Warm!Found
      PROVE  Warm!LastSnapshot(s) \in 1..Len(log) /\ SnapshotOf(log[Warm!LastSnapshot(s)], s)
  <2>m. \A t : Warm!Max(t) = Max(t)
    BY DEF Warm!Max, Max
  <2> DEFINE hour_ == Max(Warm!HoursWith(s))
             of == Warm!SnapshotsIn(hour_, s)
  <2>1. Warm!HoursWith(s) \in SUBSET (1..Hours) /\ Warm!HoursWith(s) # {}
    BY <1>2 DEF Warm!Found, Warm!HoursWith
  <2>2. hour_ \in Warm!HoursWith(s)
    BY <1>0, <2>1, MaxIsOne
  <2>3. of # {} /\ of \in SUBSET (1..Len(log))
    BY <1>0, <2>2 DEF Warm!HoursWith, Warm!SnapshotsIn
  <2>4. Max(of) \in of
    BY <1>0, <2>3, MaxIsOne
  <2>5. Warm!LastSnapshot(s) = Max(of)
    BY <2>m DEF Warm!LastSnapshot
  <2>6. \A i \in of : SnapshotOf(log[i], s)
    BY DEF Warm!SnapshotsIn, SnapshotOf
  <2> QED BY <2>3, <2>4, <2>5, <2>6
<1>3. ASSUME Warm!Found # {}
      PROVE  \E start \in 1..Len(log) :
                 /\ Warm!WarmTail \in Seq(Messages) /\ Len(Warm!WarmTail) = Len(log) - start + 1
                 /\ \A k \in 1..Len(Warm!WarmTail) : Warm!WarmTail[k] = log[start - 1 + k]
                 /\ \A s \in Warm!Found : \E j \in 1..Len(Warm!WarmTail) : SnapshotOf(Warm!WarmTail[j], s)
  <2> DEFINE all == {Warm!LastSnapshot(s) : s \in Warm!Found}
  <2>1. all \subseteq Nat /\ all \subseteq 1..Len(log) /\ all # {}
    BY <1>2, <1>3
  <2>a. \A s \in Warm!Found : Warm!LastSnapshot(s) \in all
    OBVIOUS
  <2>b. Warm!WarmTail = SubSeq(log, Warm!Min(all), Len(log))
    BY DEF Warm!WarmTail
  <2> HIDE DEF all
  <2>2. \E x \in all : \A y \in all : x <= y
    BY <2>1, LeastExists
  <2>3. Warm!Min(all) \in all /\ \A y \in all : Warm!Min(all) <= y
    BY <2>2 DEF Warm!Min
  <2>4. PICK start \in 1..Len(log) : start = Warm!Min(all)
    BY <2>1, <2>3
  <2>5. PICK tail : tail = Warm!WarmTail
    OBVIOUS
  <2>6. tail = SubSeq(log, start, Len(log))
    BY <2>b, <2>4, <2>5
  <2>7. start \in Nat \ {0} /\ start <= Len(log)
    BY <1>0
  <2>8. tail \in Seq(Messages) /\ Len(tail) = Len(log) - start + 1
    BY <1>0, <2>6, <2>7, SubSeqProperties
  <2>9. \A k \in 1..Len(tail) : tail[k] = log[start - 1 + k]
    <3>1. \A k \in 1..(Len(log) - start + 1) : tail[k] = log[start + k - 1]
      BY <1>0, <2>6, <2>7, SubSeqProperties
    <3>2. \A k \in 1..Len(tail) : start + k - 1 = start - 1 + k
      BY <2>7
    <3> QED BY <2>8, <3>1, <3>2
  <2>10. ASSUME NEW s \in Warm!Found PROVE \E j \in 1..Len(tail) : SnapshotOf(tail[j], s)
    <3>1. PICK i \in 1..Len(log) : SnapshotOf(log[i], s) /\ i >= start
      BY <1>2, <2>a, <2>3, <2>4
    <3>2. i - start + 1 \in 1..Len(tail) /\ start - 1 + (i - start + 1) = i
      BY <1>0, <2>7, <2>8, <3>1
    <3>3. tail[i - start + 1] = log[start - 1 + (i - start + 1)]
      BY <2>9, <3>2
    <3>4. tail[i - start + 1] = log[i]
      BY <3>2, <3>3
    <3> QED BY <3>1, <3>2, <3>4
  <2> QED BY <2>5, <2>8, <2>9, <2>10
<1> QED BY <1>1, <1>3

-----------------------------------------------------------------------------
(* Why the day's books do not show where the replay began: before midnight *)
(* the full replay is that of the log, which the warm-up joins; after it   *)
(* the two see every message in the same state, but for the first of a     *)
(* cold start, which finds all books empty.                                *)
WarmTypes ==
    /\ sequenced \in BOOLEAN /\ hour \in 1..Hours /\ next \in Nat /\ count \in Nat
    /\ log \in Seq(Messages) /\ full \in Replays /\ atMidnight \in Replays
    /\ ~sequenced => full.tracker = Warm!NewTracker
FullIsPlayed == \E g : Played(g, log) /\ full = g[Len(log)]
Counted ==
    /\ \A c \in {"gaps", "observations"} : day.tracker[c] = full.tracker[c] - atMidnight.tracker[c]
    /\ \A s \in BookSymbols : \A c \in Warm!Counters :
           day.books[s][c] = full.books[s][c] - atMidnight.books[s][c]
DayInv ==
    /\ day \in Replays /\ \A s \in BookSymbols : Alike(day, full, s)
    /\ ~sequenced => day.tracker.last = full.tracker.last
    /\ day.tracker.last = full.tracker.last \/ \A s \in BookSymbols : Cold(full, s)
    /\ warm => day.tracker.last = full.tracker.last /\ Counted
WarmInv ==
    /\ WarmTypes
    /\ day = Warm!NotYet => FullIsPlayed
    /\ day # Warm!NotYet => DayInv

(* What a message brings: its type, and the next number.                   *)
LEMMA MessagesTyped ==
    ASSUME Warm!WarmAssumption, WarmTypes, NEW msg \in Warm!Messages
    PROVE  msg \in Messages
<1>1. \A n \in Warm!Numbers("other") : n \in Nat
  BY DEF Warm!Numbers, WarmTypes
<1>2. count + 1 \in Nat /\ hour \in 1..Hours
  BY DEF WarmTypes
<1> QED BY <1>1, <1>2 DEF Messages, Warm!Messages, Warm!Kinds

(* A message is recorded, before the day or on it.                         *)
LEMMA RecordedTypes ==
    ASSUME Warm!WarmAssumption, WarmTypes, NEW msg \in Warm!Messages, Warm!Recorded(msg)
    PROVE  /\ msg \in Messages /\ full' = Warm!Feed(full, msg) /\ full' \in Replays
           /\ sequenced' = sequenced /\ hour' = hour /\ next' \in Nat /\ count' \in Nat
           /\ atMidnight' = atMidnight /\ warm' = warm
           /\ ~sequenced => full'.tracker = Warm!NewTracker
<1>1. msg \in Messages
  BY MessagesTyped
<1>2. /\ full' = Warm!Feed(full, msg) /\ sequenced' = sequenced /\ hour' = hour
      /\ count' = count + 1 /\ next' = IF sequenced THEN msg.seq + 1 ELSE next
      /\ atMidnight' = atMidnight /\ warm' = warm
  BY DEF Warm!Recorded
<1>3. next' \in Nat /\ count' \in Nat
  BY <1>1, <1>2 DEF WarmTypes, Messages
<1>4. full' \in Replays /\ (~sequenced => full'.tracker = Warm!NewTracker)
  BY <1>1, <1>2, FeedType DEF WarmTypes
<1> QED BY <1>1, <1>2, <1>3, <1>4

(* Before the day.                                                         *)
LEMMA RecordBeforeKeepsInv ==
    ASSUME Warm!WarmAssumption, WarmInv, Warm!RecordBefore PROVE WarmInv'
<1>1. PICK msg \in Warm!Messages : Warm!Recorded(msg) /\ log' = Append(log, msg)
  BY DEF Warm!RecordBefore
<1>2. day = Warm!NotYet /\ day' = Warm!NotYet
  BY DEF Warm!RecordBefore
<1>3. PICK m \in Messages : m = msg
  BY <1>1, RecordedTypes DEF WarmInv
<1>4. PICK g : Played(g, log) /\ full = g[Len(log)]
  BY <1>2 DEF WarmInv, FullIsPlayed
<1>5. PICK h : Played(h, Append(log, m)) /\ h[Len(Append(log, m))] = Warm!Feed(g[Len(log)], m)
  BY <1>4, PlayMore DEF WarmInv, WarmTypes
<1>6. Append(log, m) \in Seq(Messages)
  BY DEF WarmInv, WarmTypes
<1>7. WarmTypes'
  BY <1>1, <1>3, <1>6, RecordedTypes DEF WarmInv, WarmTypes
<1>8. h[Len(log')] = full'
  BY <1>1, <1>3, <1>4, <1>5, RecordedTypes DEF WarmInv
<1>9. Played(h, log')
  BY <1>1, <1>3, <1>5
<1>10. FullIsPlayed'
  <2>1. Played(h, log)'
    <3>1. sequenced' = sequenced
      BY <1>1, RecordedTypes DEF WarmInv
    <3>2. \A r, x : Warm!Feed(r, x)' = Warm!Feed(r, x)
      BY <3>1 DEF Warm!Feed, Warm!Observe, Warm!SeqOK, Warm!Unseen, Warm!Apply, Warm!Update, Warm!Emptied
    <3> QED BY <1>9, <3>2 DEF Played, Warm!NewReplay, Warm!NewTracker, Warm!NewBook, Warm!Unseen
  <2> QED BY <1>8, <2>1 DEF FullIsPlayed
<1> QED BY <1>2, <1>7, <1>10 DEF WarmInv

(* On the day: both replays see the message in the same state.             *)
LEMMA ReplayDayKeepsInv ==
    ASSUME Warm!WarmAssumption, WarmInv, Warm!ReplayDay PROVE WarmInv'
<1>1. PICK msg \in Warm!Messages : Warm!Recorded(msg) /\ day' = Warm!Feed(day, msg)
  BY DEF Warm!ReplayDay
<1>2. day # Warm!NotYet /\ DayInv /\ log' = log /\ WarmTypes
  BY DEF Warm!ReplayDay, WarmInv
<1>3. PICK m \in Messages : m = msg
  BY <1>1, <1>2, RecordedTypes
<1>4. /\ full' = Warm!Feed(full, m) /\ full' \in Replays /\ full \in Replays /\ day \in Replays
      /\ sequenced' = sequenced /\ sequenced \in BOOLEAN /\ atMidnight' = atMidnight /\ warm' = warm
      /\ day' = Warm!Feed(day, m) /\ day' \in Replays
  BY <1>1, <1>2, <1>3, RecordedTypes, FeedType DEF WarmTypes, DayInv
<1>5. WarmTypes'
  BY <1>1, <1>2, <1>3, RecordedTypes DEF WarmTypes
<1>6. day'.tracker.last = full'.tracker.last
  <2>1. \A x : Warm!Observe(x, m.seq).last = m.seq
    BY DEF Warm!Observe
  <2>2. CASE sequenced
    BY <1>4, <2>1, <2>2, FeedType
  <2>3. CASE ~sequenced
    BY <1>2, <1>4, <2>3, FeedType DEF DayInv
  <2> QED BY <2>2, <2>3
<1>7. day.tracker.last = full.tracker.last => SameOrder(day, full, m)
  BY DEF SameOrder, Warm!SeqOK
<1>8. ASSUME NEW s \in BookSymbols PROVE Alike(day, full, s)'
  <2>1. Alike(Warm!Feed(day, m), Warm!Feed(full, m), s)
    <3>1. CASE SnapshotOf(m, s)
      BY <1>4, <3>1, SnapshotAligns
    <3>2. CASE day.tracker.last = full.tracker.last
      BY <1>2, <1>4, <1>7, <3>2, StayAlike DEF DayInv
    <3>3. CASE ~SnapshotOf(m, s) /\ Cold(full, s)
      <4>1. full.books[s] \in Books /\ day.books[s] \in Books
        BY <1>4 DEF Replays
      <4>2. Cold(day, s)
        BY <1>2, <3>3, <4>1 DEF DayInv, Alike, Cold, Books
      <4>3. Cold(Warm!Feed(day, m), s) /\ Cold(Warm!Feed(full, m), s)
        BY <1>4, <3>3, <4>2, StaysCold
      <4>4. Warm!Feed(day, m).books[s] \in Books /\ Warm!Feed(full, m).books[s] \in Books
        BY <1>4 DEF Replays
      <4> QED BY <4>3, <4>4 DEF Alike, Cold, Books
    <3> QED BY <1>2, <3>1, <3>2, <3>3 DEF DayInv
  <2> QED BY <2>1, <1>4 DEF Alike
<1>9. ASSUME warm PROVE Counted'
  <2>1. day.tracker.last = full.tracker.last /\ Counted
    BY <1>2, <1>9 DEF DayInv
  <2>2. SameOrder(day, full, m)
    BY <1>7, <2>1
  <2>3. ASSUME NEW s \in BookSymbols, NEW c \in Warm!Counters
        PROVE  day'.books[s][c] = full'.books[s][c] - atMidnight.books[s][c]
    <3>1. Alike(day, full, s)
      BY <1>2 DEF DayInv
    <3>2. day'.books[s][c] - day.books[s][c] = full'.books[s][c] - full.books[s][c]
      BY <1>4, <2>2, <3>1, StayAlike
    <3>3. day.books[s][c] = full.books[s][c] - atMidnight.books[s][c]
      BY <2>1 DEF Counted
    <3>4. \A r \in Replays : r.books[s][c] \in Nat
      BY DEF Replays, Books, Warm!Counters
    <3>5. /\ day'.books[s][c] \in Nat /\ day.books[s][c] \in Nat /\ full'.books[s][c] \in Nat
          /\ full.books[s][c] \in Nat /\ atMidnight.books[s][c] \in Nat
      BY <1>2, <1>4, <3>4 DEF WarmTypes
    <3> QED BY <3>2, <3>3, <3>5
  <2>4. ASSUME NEW c \in {"gaps", "observations"}
        PROVE  day'.tracker[c] = full'.tracker[c] - atMidnight.tracker[c]
    <3>1. day.tracker[c] = full.tracker[c] - atMidnight.tracker[c]
      BY <2>1 DEF Counted
    <3>2. CASE ~sequenced
      BY <1>4, <3>1, <3>2, FeedType
    <3>3. CASE sequenced
      <4>1. day'.tracker = Warm!Observe(day.tracker, m.seq) /\ full'.tracker = Warm!Observe(full.tracker, m.seq)
        BY <1>4, <3>3, FeedType
      <4>2. Warm!SeqOK(day.tracker, m.seq) <=> Warm!SeqOK(full.tracker, m.seq)
        BY <2>2, <3>3 DEF SameOrder
      <4>3. \A r \in Replays : r.tracker[c] \in Nat
        BY DEF Replays, Trackers
      <4>4. day.tracker[c] \in Nat /\ full.tracker[c] \in Nat /\ atMidnight.tracker[c] \in Nat
        BY <1>2, <1>4, <4>3 DEF WarmTypes
      <4> QED BY <3>1, <4>1, <4>2, <4>4 DEF Warm!Observe
    <3> QED BY <3>2, <3>3
  <2> QED BY <1>4, <2>3, <2>4 DEF Counted
<1>10. DayInv'
  BY <1>4, <1>6, <1>8, <1>9 DEF DayInv
<1>11. day' # Warm!NotYet
  <2>1. "tracker" \in DOMAIN day' /\ DOMAIN Warm!NotYet = {}
    BY <1>4 DEF Replays, Warm!NotYet
  <2> QED BY <2>1
<1> QED BY <1>5, <1>10, <1>11 DEF WarmInv

(* Midnight: the warm-up has joined the full replay, or every book is      *)
(* empty in both.                                                          *)
LEMMA MidnightKeepsInv ==
    ASSUME Warm!WarmAssumption, WarmInv, Warm!Midnight PROVE WarmInv'
<1> DEFINE w == Warm!WarmUp
           z == Warm!ResetCounts(w)
<1>0. /\ day = Warm!NotYet /\ day' = z /\ (warm' <=> Warm!Found # {}) /\ atMidnight' = full /\ log' = <<>>
      /\ hour' = Hours /\ UNCHANGED <<sequenced, next, count, full>> /\ WarmTypes /\ sequenced \in BOOLEAN
      /\ full \in Replays /\ log \in Seq(Messages)
  BY DEF Warm!Midnight, WarmInv, WarmTypes
<1>1. PICK g : Played(g, log) /\ full = g[Len(log)]
  BY <1>0 DEF WarmInv, FullIsPlayed
<1>2. Len(log) \in Nat /\ Len(log) \in 0..Len(log)
  BY <1>0
<1>3. \A s \in BookSymbols : s \notin Warm!Found => Cold(full, s)
  BY <1>0, <1>1, <1>2, TailHasSnapshots, PlayedBooks
<1>4. /\ w \in Replays /\ (~sequenced => w.tracker = Warm!NewTracker)
      /\ \A s \in BookSymbols : Alike(w, full, s)
      /\ Warm!Found # {} => w.tracker.last = full.tracker.last
  <2>1. CASE Warm!Found = {}
    <3>1. w = Warm!NewReplay
      BY <2>1 DEF Warm!WarmUp
    <3>2. \A s \in BookSymbols : Cold(w, s) /\ Cold(full, s) /\ w.books[s] \in Books /\ full.books[s] \in Books
      BY <1>0, <1>3, <2>1, <3>1, FreshReplay DEF Replays
    <3>3. \A s \in BookSymbols : Alike(w, full, s)
      BY <3>2 DEF Alike, Cold, Books
    <3> QED BY <2>1, <3>1, <3>3, FreshReplay
  <2>2. CASE Warm!Found # {}
    <3>1. PICK tail : tail = Warm!WarmTail
      OBVIOUS
    <3>2. PICK start \in 1..Len(log) :
              /\ tail \in Seq(Messages) /\ Len(tail) = Len(log) - start + 1
              /\ \A k \in 1..Len(tail) : tail[k] = log[start - 1 + k]
              /\ \A s \in Warm!Found : \E j \in 1..Len(tail) : SnapshotOf(tail[j], s)
      BY <1>0, <2>2, <3>1, TailHasSnapshots
    <3>3. PICK h : Played(h, tail) /\ w = h[Len(tail)]
      BY <1>0, <2>2, <3>1, <3>2, WarmUpPlays
    <3>4. Len(tail) \in Nat /\ Len(tail) \in 0..Len(tail)
      BY <3>2
    <3>5. w \in Replays
      BY <3>3, <3>4 DEF Played
    <3>6. /\ ~sequenced => w.tracker = Warm!NewTracker
          /\ \A s \in BookSymbols : (\A j \in 1..Len(tail) : ~SnapshotOf(tail[j], s)) => Cold(w, s)
      BY <1>0, <3>2, <3>3, <3>4, PlayedBooks
    <3>7. /\ w.tracker.last = full.tracker.last
          /\ \A s \in BookSymbols : (\E j \in 1..Len(tail) : SnapshotOf(tail[j], s)) => Alike(w, full, s)
      BY <1>0, <1>1, <3>2, <3>3, TailJoins
    <3>8. ASSUME NEW s \in BookSymbols, s \notin Warm!Found PROVE Alike(w, full, s)
      <4>1. \A j \in 1..Len(log) : ~SnapshotOf(log[j], s)
        BY <1>0, <3>8, TailHasSnapshots
      <4>2. \A j \in 1..Len(tail) : start - 1 + j \in 1..Len(log)
        BY <1>2, <3>2
      <4>3. \A j \in 1..Len(tail) : ~SnapshotOf(tail[j], s)
        BY <3>2, <4>1, <4>2
      <4>4. Cold(w, s) /\ Cold(full, s)
        BY <1>3, <3>6, <3>8, <4>3
      <4>5. w.books[s] \in Books /\ full.books[s] \in Books
        BY <1>0, <3>5 DEF Replays
      <4> QED BY <4>4, <4>5 DEF Alike, Cold, Books
    <3>9. \A s \in BookSymbols : Alike(w, full, s)
      BY <3>2, <3>7, <3>8
    <3> QED BY <3>5, <3>6, <3>7, <3>9
  <2> QED BY <2>1, <2>2
<1> HIDE DEF w
<1>5. /\ z.tracker.last = w.tracker.last
      /\ z.tracker.gaps = 0 /\ z.tracker.observations = 0 /\ z.tracker \in Trackers
  <2>1. w.tracker.last \in Int
    BY <1>4 DEF Replays, Trackers
  <2>2. z.tracker = [Warm!NewTracker EXCEPT !.last = w.tracker.last]
    BY DEF Warm!ResetCounts
  <2> QED BY <2>1, <2>2 DEF Warm!NewTracker, Trackers
<1>6. /\ z.books \in [BookSymbols -> Books]
      /\ \A s \in BookSymbols : Alike(z, w, s) /\ \A c \in Warm!Counters : z.books[s][c] = 0
  <2>1. z.books = [s \in BookSymbols |-> Warm!ResetBook(w.books[s])]
    BY DEF Warm!ResetCounts
  <2>2. ASSUME NEW b \in Books
        PROVE  /\ Warm!ResetBook(b) \in Books /\ Warm!ResetBook(b).valid = b.valid
               /\ Warm!ResetBook(b).made = b.made /\ \A c \in Warm!Counters : Warm!ResetBook(b)[c] = 0
    <3>1. Warm!NewBook \in Books /\ b.valid \in BOOLEAN /\ b.made \in SUBSET Nat
      BY DEF Warm!NewBook, Books
    <3>2. Warm!ResetBook(b) \in Books /\ Warm!ResetBook(b).valid = b.valid /\ Warm!ResetBook(b).made = b.made
      BY <3>1 DEF Warm!ResetBook, Books
    <3>3. \A c \in Warm!Counters : Warm!ResetBook(b)[c] = 0
      <4>1. \A c \in Warm!Counters : c \in DOMAIN Warm!NewBook /\ c # "valid" /\ c # "made" /\ Warm!NewBook[c] = 0
        BY DEF Warm!NewBook, Warm!Counters
      <4>2. \A c \in Warm!Counters : Warm!ResetBook(b)[c] = Warm!NewBook[c]
        BY <4>1 DEF Warm!ResetBook
      <4> QED BY <4>1, <4>2
    <3> QED BY <3>2, <3>3
  <2>3. \A s \in BookSymbols : w.books[s] \in Books
    BY <1>4 DEF Replays
  <2> QED BY <2>1, <2>2, <2>3 DEF Alike
<1>7. z = [tracker |-> z.tracker, books |-> z.books]
  BY DEF Warm!ResetCounts
<1> HIDE DEF z
<1>8. z \in Replays
  BY <1>5, <1>6, <1>7 DEF Replays
<1>9. \A s \in BookSymbols : Alike(z, full, s)
  BY <1>4, <1>6 DEF Alike
<1>10. ~sequenced => w.tracker.last = full.tracker.last
  BY <1>0, <1>4 DEF WarmTypes
<1>11. Counted'
  <2>1. \A r \in Replays : r.tracker.gaps \in Nat /\ r.tracker.observations \in Nat
    BY DEF Replays, Trackers
  <2>2. \A r \in Replays : \A s \in BookSymbols : \A c \in Warm!Counters : r.books[s][c] \in Nat
    BY DEF Replays, Books, Warm!Counters
  <2>3. \A c \in {"gaps", "observations"} : full.tracker[c] - full.tracker[c] = 0
    BY <1>0, <2>1
  <2>4. \A s \in BookSymbols : \A c \in Warm!Counters : full.books[s][c] - full.books[s][c] = 0
    BY <1>0, <2>2
  <2> QED BY <1>0, <1>5, <1>6, <2>3, <2>4 DEF Counted
<1>12. DayInv'
  <2>1. z.tracker.last = full.tracker.last \/ \A s \in BookSymbols : Cold(full, s)
    BY <1>3, <1>4, <1>5
  <2> QED BY <1>0, <1>4, <1>5, <1>8, <1>9, <1>10, <1>11, <2>1 DEF DayInv, Alike, Cold
<1>13. day' # Warm!NotYet
  <2>1. "tracker" \in DOMAIN z /\ DOMAIN Warm!NotYet = {}
    BY <1>8 DEF Replays, Warm!NotYet
  <2> QED BY <1>0, <2>1
<1>14. WarmTypes'
  BY <1>0 DEF WarmTypes, Warm!WarmAssumption
<1> QED BY <1>12, <1>13, <1>14 DEF WarmInv

(* A step of the recorder, of midnight or of the day.                      *)
LEMMA WarmStep ==
    ASSUME Warm!WarmAssumption, WarmInv, [Warm!Next]_warmVars PROVE WarmInv'
<1>1. CASE Warm!NextHour \/ UNCHANGED warmVars
  <2>1. /\ UNCHANGED <<sequenced, log, next, count, full, atMidnight, day, warm>>
        /\ hour' \in 1..Hours
    BY <1>1 DEF Warm!NextHour, warmVars, WarmInv, WarmTypes, Warm!WarmAssumption
  <2>2. WarmTypes'
    BY <2>1 DEF WarmInv, WarmTypes, Warm!NewTracker, Warm!Unseen
  <2>3. \A r, x : Warm!Feed(r, x)' = Warm!Feed(r, x)
    BY <2>1 DEF Warm!Feed, Warm!Observe, Warm!SeqOK, Warm!Unseen, Warm!Apply, Warm!Update, Warm!Emptied
  <2>4. \A g : Played(g, log) => Played(g, log)'
    BY <2>1, <2>3 DEF Played, Warm!NewReplay, Warm!NewTracker, Warm!NewBook, Warm!Unseen
  <2>5. FullIsPlayed => FullIsPlayed'
    BY <2>1, <2>4 DEF FullIsPlayed
  <2>6. DayInv => DayInv'
    BY <2>1 DEF DayInv, Counted, Alike, Cold
  <2> QED BY <2>1, <2>2, <2>5, <2>6 DEF WarmInv, Warm!NotYet
<1>2. CASE Warm!Next /\ ~Warm!NextHour
  BY <1>2, RecordBeforeKeepsInv, MidnightKeepsInv, ReplayDayKeepsInv DEF Warm!Next
<1> QED BY <1>1, <1>2

(* Nothing recorded yet.                                                   *)
LEMMA WarmBegins == ASSUME Warm!WarmAssumption, Warm!Init PROVE WarmInv
<1>1. WarmTypes
  <2>1. <<>> \in Seq(Messages)
    OBVIOUS
  <2> QED BY <2>1, FreshReplay DEF Warm!Init, Warm!WarmAssumption, WarmTypes
<1>2. FullIsPlayed
  <2> DEFINE g == [k \in 0..0 |-> Warm!NewReplay]
  <2>1. g \in [0..0 -> Replays] /\ g[0] = Warm!NewReplay
    BY FreshReplay
  <2>2. Len(log) = 0 /\ full = Warm!NewReplay
    BY DEF Warm!Init
  <2> HIDE DEF g
  <2>3. Played(g, log)
    BY <2>1, <2>2 DEF Played
  <2> QED BY <2>1, <2>2, <2>3 DEF FullIsPlayed
<1>3. day = Warm!NotYet
  BY DEF Warm!Init
<1> QED BY <1>1, <1>2, <1>3 DEF WarmInv

(* The invariant says what is promised.                                    *)
LEMMA WarmPromise == ASSUME WarmInv PROVE Warm!WarmBooksAreFull /\ Warm!DayScoredAlone
BY DEF WarmInv, DayInv, Counted, Alike, Warm!WarmBooksAreFull, Warm!DayScoredAlone

-----------------------------------------------------------------------------
(***************************************************************************)
(* The rows of a day.                                                      *)
(***************************************************************************)
Stamp == Nat \X {"interval", "event"}
AnyRow == [ts : Nat, kind : {"interval", "event"}, book : Nat]

(* The library's operators, by either name.                                *)
LEMMA RowsLibrary ==
  /\ \A s : Rows!FlattenSeq(s) = FlattenSeq(s)
  /\ \A T : Rows!InTime(T) = Ascending(T)
BY DEF Rows!FlattenSeq, FlattenSeq, Rows!InTime, Ascending, Rows!Cardinality, Cardinality,
       Rows!IsFiniteSet, IsFiniteSet

(* The day's feed is times that do not run backwards.                      *)
FeedOK == feed \in Seq(0..Horizon) /\ Rows!InOrder(feed)
CursorAfter(n) == IF n = 0 THEN Rows!None ELSE Rows!BoundaryAfter(feed[n])
Chunk(i) == [k \in DOMAIN Rows!InTime(Rows!Passed(i)) |-> <<Rows!InTime(Rows!Passed(i))[k], "interval">>]
                \o <<<<feed[i], "event">>>>

(* The stamps of rows one after the other.                                 *)
LEMMA StampsConcat ==
  ASSUME NEW a \in Seq(AnyRow), NEW b \in Seq(AnyRow)
  PROVE  Rows!Stamps(a \o b) = Rows!Stamps(a) \o Rows!Stamps(b)
<1> DEFINE m == Len(a)
           n == Len(b)
           F(rows, k) == <<rows[k].ts, rows[k].kind>>
<1>1. /\ m \in Nat /\ n \in Nat /\ DOMAIN a = 1..m /\ DOMAIN b = 1..n /\ Len(a \o b) = m + n
      /\ DOMAIN (a \o b) = 1..(m + n)
      /\ \A k \in 1..(m + n) : (a \o b)[k] = IF k <= m THEN a[k] ELSE b[k - m]
  OBVIOUS
<1> DEFINE s == [k \in 1..m |-> F(a, k)]
           t == [k \in 1..n |-> F(b, k)]
           u == [k \in 1..(m + n) |-> F(a \o b, k)]
<1>2. Rows!Stamps(a) = s /\ Rows!Stamps(b) = t /\ Rows!Stamps(a \o b) = u
  BY <1>1 DEF Rows!Stamps
<1>3. ASSUME NEW k \in 1..(m + n) PROVE u[k] = IF k <= m THEN s[k] ELSE t[k - m]
  <2>1. CASE k <= m
    <3>1. k \in 1..m
      BY <1>1, <2>1
    <3> QED BY <1>1, <2>1, <3>1
  <2>2. CASE ~(k <= m)
    <3>1. k - m \in 1..n
      BY <1>1, <2>2
    <3> QED BY <1>1, <2>2, <3>1
  <2> QED BY <2>1, <2>2
<1>4. /\ \A k \in 1..m : F(a, k) \in Stamp
      /\ \A k \in 1..n : F(b, k) \in Stamp
      /\ \A k \in 1..(m + n) : F(a \o b, k) \in Stamp
  <2>1. ASSUME NEW c \in Seq(AnyRow), NEW k \in 1..Len(c) PROVE F(c, k) \in Stamp
    <3>1. c[k] \in AnyRow
      BY ElementOfSeq
    <3> QED BY <3>1 DEF AnyRow, Stamp
  <2>2. a \o b \in Seq(AnyRow)
    OBVIOUS
  <2> HIDE DEF F
  <2> QED BY <1>1, <2>1, <2>2
<1> HIDE DEF F
<1>5. s \in [1..m -> Stamp] /\ t \in [1..n -> Stamp] /\ u \in [1..(m + n) -> Stamp]
  BY <1>4
<1> HIDE DEF s, t, u, m, n
<1>6. /\ s \in Seq(Stamp) /\ t \in Seq(Stamp) /\ u \in Seq(Stamp)
      /\ Len(s) = m /\ Len(t) = n /\ Len(u) = m + n
  BY <1>1, <1>5
<1>7. u = s \o t
  <2>1. s \o t \in Seq(Stamp) /\ Len(s \o t) = m + n
    BY ONLY <1>6, ConcatProperties
  <2>2. \A k \in 1..(m + n) : (s \o t)[k] = IF k <= m THEN s[k] ELSE t[k - m]
    BY <1>1, <1>6
  <2>3. \A k \in 1..(m + n) : u[k] = (s \o t)[k]
    BY <1>3, <2>2
  <2> QED BY <1>6, <2>1, <2>3, SeqEqual
<1> QED BY <1>2, <1>7

(* From a cursor one past the event before, what is due is what was passed *)
(* and the cursor ends one past this event (emit.py 105-109).              *)
LEMMA DueIsPassed ==
  ASSUME Rows!DayRowsAssumption, FeedOK, NEW i \in 1..Len(feed), cursor = CursorAfter(i - 1)
  PROVE  /\ Rows!Due(feed[i]) = Rows!InTime(Rows!Passed(i))
         /\ Rows!Due(feed[i]) \in Seq(Nat)
         /\ Rows!Advanced(feed[i]) = Rows!BoundaryAfter(feed[i])
<1> DEFINE ts == feed[i]
<1>0. Interval \in Nat \ {0} /\ Horizon \in Nat /\ i \in Nat /\ Len(feed) \in Nat
  BY DEF Rows!DayRowsAssumption, FeedOK
<1>1. ts \in 0..Horizon /\ ts \in Nat
  <2>1. feed \in Seq(0..Horizon)
    BY DEF FeedOK
  <2>2. feed[i] \in 0..Horizon
    BY <2>1, ElementOfSeq
  <2> QED BY <1>0, <2>2
<1>2. CASE i = 1
  <2>1. cursor = Rows!None /\ Rows!Passed(i) = {}
    BY <1>2 DEF CursorAfter, Rows!Passed
  <2>2. Rows!Due(ts) = <<>> /\ Rows!Advanced(ts) = Rows!BoundaryAfter(ts)
    BY <2>1 DEF Rows!Due, Rows!Advanced
  <2>3. Ascending({}) = <<>>
    <3>1. Cardinality({}) = 0
      BY FS_EmptySet
    <3>2. 1..0 = {}
      OBVIOUS
    <3> QED BY <3>1, <3>2 DEF Ascending
  <2>4. <<>> \in Seq(Nat)
    OBVIOUS
  <2> QED BY <2>1, <2>2, <2>3, <2>4, RowsLibrary
<1>3. CASE i # 1
  <2> DEFINE a == feed[i - 1]
             q == a \div Interval
             p == ts \div Interval
  <2>1. a \in 0..Horizon /\ a <= ts
    <3>1. i - 1 \in 1..Len(feed) /\ i - 1 < i
      BY <1>0, <1>3
    <3>2. feed \in Seq(0..Horizon) /\ DOMAIN feed = 1..Len(feed)
      BY DEF FeedOK
    <3>3. a \in 0..Horizon
      BY <3>1, <3>2, ElementOfSeq
    <3>4. a <= ts
      BY <3>1, <3>2 DEF FeedOK, Rows!InOrder
    <3> QED BY <3>3, <3>4
  <2>2. cursor = (q + 1) * Interval
    <3>1. i - 1 # 0
      BY <1>0, <1>3
    <3> QED BY <3>1 DEF CursorAfter, Rows!BoundaryAfter
  <2> HIDE DEF a, ts
  <2>3. /\ q \in Nat /\ p \in Nat /\ q * Interval \in Nat /\ p * Interval \in Nat
        /\ p * Interval <= ts /\ ts < p * Interval + Interval /\ q * Interval <= a
        /\ (q + 1) * Interval = q * Interval + Interval
    <3>1. a \in Nat /\ ts \in Nat
      BY <1>0, <1>1, <2>1
    <3>2. a % Interval \in 0..(Interval - 1) /\ a = q * Interval + (a % Interval) /\ q \in Nat
      BY ONLY <1>0, <3>1, Multiples
    <3>3. ts % Interval \in 0..(Interval - 1) /\ ts = p * Interval + (ts % Interval) /\ p \in Nat
      BY ONLY <1>0, <3>1, Multiples
    <3>4. q * Interval \in Nat /\ p * Interval \in Nat
      BY ONLY <1>0, <3>2, <3>3, Multiples
    <3>5. (q + 1) * Interval = q * Interval + Interval
      BY ONLY <1>0, <3>2, MultiplesOrder
    <3> HIDE DEF q, p
    <3> QED BY ONLY <1>0, <3>1, <3>2, <3>3, <3>4, <3>5
  <2> HIDE DEF q, p
  <2>4. q <= p
    <3>1. q * Interval < (p + 1) * Interval
      <4>1. (p + 1) * Interval = p * Interval + Interval
        BY ONLY <1>0, <2>3, MultiplesOrder
      <4>2. a \in Nat /\ ts \in Nat
        BY <1>1, <2>1, <1>0
      <4> QED BY ONLY <1>0, <2>3, <2>1, <4>1, <4>2
    <3>2. q < p + 1
      <4>1. q \in Int /\ p + 1 \in Int
        BY <2>3
      <4> QED BY ONLY <1>0, <3>1, <4>1, MultiplesOrder
    <3> QED BY ONLY <3>2, <2>3
  <2>5. cursor \in Nat /\ cursor # Rows!None
    BY <1>0, <2>2, <2>3 DEF Rows!None
  <2> DEFINE c == IF cursor > ts THEN 0 ELSE (ts - cursor) \div Interval + 1
  <2>6. c = p - q
    <3>1. CASE cursor > ts
      <4>1. p * Interval < (q + 1) * Interval
        BY ONLY <1>0, <1>1, <2>2, <2>3, <3>1
      <4>2. p < q + 1
        <5>1. p \in Int /\ q + 1 \in Int
          BY <2>3
        <5> QED BY ONLY <1>0, <4>1, <5>1, MultiplesOrder
      <4> QED BY ONLY <2>3, <2>4, <3>1, <4>2
    <3>2. CASE ~(cursor > ts)
      <4> DEFINE d == p - q - 1
      <4>1. p * Interval > q * Interval
        <5>1. ts \in Nat /\ cursor <= ts
          BY ONLY <1>1, <2>5, <3>2
        <5> QED BY ONLY <1>0, <2>2, <2>3, <5>1
      <4>2. p > q
        <5>1. p \in Int /\ q \in Int
          BY <2>3
        <5> QED BY ONLY <1>0, <4>1, <5>1, MultiplesOrder
      <4>3. d \in Nat /\ p - (q + 1) = d /\ q + 1 \in Int /\ p \in Int
        BY ONLY <4>2, <2>3
      <4>4. d * Interval = p * Interval - (q + 1) * Interval
        BY ONLY <1>0, <4>3, MultiplesOrder
      <4>5. ts - cursor \in Nat /\ d * Interval <= ts - cursor /\ ts - cursor < d * Interval + Interval
        <5> HIDE DEF d
        <5> QED BY ONLY <1>0, <1>1, <2>2, <2>3, <2>5, <3>2, <4>4
      <4>6. (ts - cursor) \div Interval = d
        <5> DEFINE e == ts - cursor
        <5> HIDE DEF d, e
        <5>1. e \in Nat /\ d \in Nat /\ d * Interval <= e /\ e < d * Interval + Interval
          BY <4>3, <4>5 DEF e
        <5>2. e \div Interval = d
          BY ONLY <1>0, <5>1, QuotientIs
        <5> QED BY <5>2 DEF e
      <4> QED BY ONLY <2>3, <3>2, <4>6
    <3> QED BY <3>1, <3>2
  <2>7. Rows!Due(ts) = [k \in 1..c |-> cursor + (k - 1) * Interval]
    BY <2>5 DEF Rows!Due
  <2> HIDE DEF c
  <2>8. Rows!Due(ts) = MultiplesIn(a, ts, Interval)
    <3>1. ASSUME NEW k \in 1..(p - q) PROVE cursor + (k - 1) * Interval = (q + k) * Interval
      <4>1. q + 1 \in Int /\ k - 1 \in Int /\ (q + 1) + (k - 1) = q + k
        BY ONLY <2>3, k \in 1..(p - q)
      <4>2. ((q + 1) + (k - 1)) * Interval = (q + 1) * Interval + (k - 1) * Interval
        BY ONLY <1>0, <4>1, MultiplesOrder
      <4> QED BY ONLY <2>2, <4>1, <4>2
    <3>2. MultiplesIn(a, ts, Interval) = [k \in 1..(p - q) |-> (q + k) * Interval]
      BY DEF MultiplesIn, p, q
    <3> QED BY <2>6, <2>7, <3>1, <3>2
  <2>9. Rows!Passed(i) = {x \in 0..Horizon : x % Interval = 0 /\ a < x /\ x <= ts}
    BY <1>3 DEF Rows!Passed, a, ts
  <2>10. MultiplesIn(a, ts, Interval) = Ascending(Rows!Passed(i)) /\ MultiplesIn(a, ts, Interval) \in Seq(0..Horizon)
    <3>1. a \in Nat /\ ts \in Nat /\ ts <= Horizon
      BY <1>0, <1>1, <2>1
    <3> DEFINE T == {x \in 0..Horizon : x % Interval = 0 /\ a < x /\ x <= ts}
    <3>2. MultiplesIn(a, ts, Interval) = Ascending(T) /\ MultiplesIn(a, ts, Interval) \in Seq(0..Horizon)
      <4> HIDE DEF T
      <4>1. T = {x \in 0..Horizon : x % Interval = 0 /\ a < x /\ x <= ts}
        BY DEF T
      <4> QED BY ONLY <1>0, <2>1, <3>1, <4>1, MultiplesAscend
    <3> QED BY <2>9, <3>2
  <2>11. Rows!Advanced(ts) = Rows!BoundaryAfter(ts)
    <3>1. Len(Rows!Due(ts)) = p - q
      <4>1. DOMAIN MultiplesIn(a, ts, Interval) = 1..(p - q)
        BY DEF MultiplesIn, p, q
      <4>2. p - q \in Nat
        BY ONLY <2>3, <2>4
      <4> QED BY <2>8, <2>10, <4>1, <4>2
    <3>2. (p - q) * Interval = p * Interval - q * Interval /\ (p + 1) * Interval = p * Interval + Interval
      <4>1. p \in Int /\ q \in Int
        BY <2>3
      <4> QED BY ONLY <1>0, <4>1, MultiplesOrder
    <3>3. Rows!Advanced(ts) = cursor + (p - q) * Interval
      BY <2>5, <3>1 DEF Rows!Advanced
    <3>4. Rows!BoundaryAfter(ts) = (p + 1) * Interval
      BY DEF Rows!BoundaryAfter, p
    <3> QED BY ONLY <1>0, <2>2, <2>3, <3>2, <3>3, <3>4
  <2>12. MultiplesIn(a, ts, Interval) \in Seq(Nat)
    <3> DEFINE s == MultiplesIn(a, ts, Interval)
    <3> HIDE DEF s
    <3>1. s \in Seq(0..Horizon) /\ 0..Horizon \subseteq Nat
      BY <1>0, <2>10 DEF s
    <3>2. s \in Seq(Nat)
      BY <3>1, SeqMonotonic
    <3> QED BY <3>2 DEF s
  <2> QED BY <2>8, <2>10, <2>11, <2>12, RowsLibrary DEF ts
<1> QED BY <1>2, <1>3

(* So an event's rows are the next piece of the cadence.                   *)
LEMMA EmitsChunk ==
  ASSUME Rows!DayRowsAssumption, FeedOK, NEW i \in 1..Len(feed), cursor = CursorAfter(i - 1)
  PROVE  /\ Rows!Emitted(feed[i], i) \in Seq(AnyRow)
         /\ Rows!Stamps(Rows!Emitted(feed[i], i)) = Chunk(i)
         /\ Rows!Advanced(feed[i]) = CursorAfter(i)
<1> DEFINE due == Rows!Due(feed[i])
           m == Len(due)
<1>1. /\ due \in Seq(Nat) /\ due = Rows!InTime(Rows!Passed(i))
      /\ Rows!Advanced(feed[i]) = Rows!BoundaryAfter(feed[i])
  BY DueIsPassed
<1>2. feed[i] \in Nat /\ i \in Nat /\ i # 0
  <2>0. feed \in Seq(0..Horizon)
    BY DEF FeedOK
  <2>1. feed[i] \in 0..Horizon /\ Len(feed) \in Nat
    BY <2>0, ElementOfSeq, LenProperties
  <2>2. Horizon \in Nat
    BY DEF Rows!DayRowsAssumption
  <2> QED BY <2>1, <2>2
<1> DEFINE rows == [k \in DOMAIN due |-> Rows!Row(due[k], "interval", i)]
           last == <<Rows!Row(feed[i], "event", i)>>
           stamps == [k \in DOMAIN due |-> <<due[k], "interval">>]
<1>3. Rows!Emitted(feed[i], i) = rows \o last /\ Chunk(i) = stamps \o <<<<feed[i], "event">>>>
  BY <1>1 DEF Rows!Emitted, Chunk
<1> HIDE DEF due
<1>4. m \in Nat /\ DOMAIN due = 1..m
  BY <1>1
<1>5. rows \in Seq(AnyRow) /\ last \in Seq(AnyRow) /\ rows = [k \in 1..m |-> Rows!Row(due[k], "interval", i)]
  <2>1. \A k \in 1..m : Rows!Row(due[k], "interval", i) \in AnyRow
    BY <1>1, <1>2, <1>4 DEF Rows!Row, AnyRow
  <2>2. Rows!Row(feed[i], "event", i) \in AnyRow
    BY <1>2 DEF Rows!Row, AnyRow
  <2>3. rows \in [1..m -> AnyRow]
    BY <1>4, <2>1
  <2> QED BY <1>4, <2>2, <2>3
<1>6. Rows!Stamps(rows) = stamps
  BY <1>4 DEF Rows!Stamps, Rows!Row
<1>7. Rows!Stamps(last) = <<<<feed[i], "event">>>>
  <2>1. DOMAIN last = 1..1 /\ last[1].ts = feed[i] /\ last[1].kind = "event"
    BY DEF Rows!Row
  <2>2. Rows!Stamps(last) = [k \in 1..1 |-> <<feed[i], "event">>]
    <3> HIDE DEF last
    <3> QED BY <2>1 DEF Rows!Stamps
  <2> QED BY <2>2
<1>8. Rows!Stamps(rows \o last) = Rows!Stamps(rows) \o Rows!Stamps(last)
  <2> HIDE DEF rows, last
  <2> QED BY <1>5, StampsConcat
<1>9. rows \o last \in Seq(AnyRow)
  <2> HIDE DEF rows, last
  <2> QED BY <1>5
<1> QED BY <1>1, <1>2, <1>3, <1>6, <1>7, <1>8, <1>9 DEF CursorAfter

(* The cadence grows by it.                                                *)
LEMMA CadenceGrows ==
  ASSUME Rows!DayRowsAssumption, FeedOK, NEW n \in Nat, n + 1 <= Len(feed)
  PROVE  Rows!Cadence(n + 1) = Rows!Cadence(n) \o Chunk(n + 1)
<1> DEFINE chunks(m) == [i \in 1..m |-> Chunk(i)]
<1>1. \A m : Rows!Cadence(m) = FlattenSeq(chunks(m))
  BY RowsLibrary DEF Rows!Cadence, Chunk
<1>2. ASSUME NEW i \in 1..Len(feed) PROVE Chunk(i) \in Seq(Stamp)
  <2> DEFINE T == Rows!Passed(i)
             due == Rows!InTime(T)
  <2>0. Horizon \in Nat
    BY DEF Rows!DayRowsAssumption
  <2>1. IsFiniteSet(T) /\ T \subseteq Nat
    <3>1. T \subseteq 0..Horizon
      BY DEF Rows!Passed
    <3>2. IsFiniteSet(0..Horizon) /\ 0..Horizon \subseteq Nat
      BY <2>0, FS_Interval
    <3> QED BY <3>1, <3>2, FS_Subset
  <2>2. due \in Seq(Nat)
    BY <2>1, RowsLibrary, AscendingRises
  <2>3. feed[i] \in Nat
    BY <2>0 DEF FeedOK
  <2>4. Chunk(i) = [k \in DOMAIN due |-> <<due[k], "interval">>] \o <<<<feed[i], "event">>>>
    BY DEF Chunk
  <2> HIDE DEF due
  <2>5. [k \in DOMAIN due |-> <<due[k], "interval">>] \in Seq(Stamp)
    <3>1. Len(due) \in Nat /\ DOMAIN due = 1..Len(due)
      BY <2>2
    <3>2. \A k \in 1..Len(due) : <<due[k], "interval">> \in Stamp
      BY <2>2 DEF Stamp
    <3> QED BY <3>1, <3>2
  <2>6. <<<<feed[i], "event">>>> \in Seq(Stamp)
    BY <2>3 DEF Stamp
  <2> QED BY <2>4, <2>5, <2>6
<1>3. Len(feed) \in Nat /\ \A i \in 1..(n + 1) : i \in 1..Len(feed)
  BY DEF FeedOK
<1>4. chunks(n) \in Seq(Seq(Stamp)) /\ Chunk(n + 1) \in Seq(Stamp)
  BY <1>2, <1>3
<1>5. chunks(n + 1) = Append(chunks(n), Chunk(n + 1))
  <2>1. Len(chunks(n)) = n
    OBVIOUS
  <2> QED BY <1>4, <2>1
<1>6. FlattenSeq(chunks(n + 1)) = FlattenSeq(chunks(n)) \o Chunk(n + 1)
  <2> HIDE DEF chunks
  <2> QED BY <1>4, <1>5, FlattenAppend
<1> QED BY <1>1, <1>6

(* What a run and the files hold.                                          *)
Disk == IF open THEN tmp.rows ELSE <<>>
IsFile(f) == f = [rows |-> f.rows, footer |-> f.footer] /\ f.rows \in Seq(AnyRow)
RowsInv ==
  /\ FeedOK
  /\ open \in BOOLEAN /\ buffer \in Seq(AnyRow) /\ IsFile(tmp)
  /\ stage \in {"idle", "replay", "flushed", "footed"}
  /\ stage = "replay" => /\ applied \in 0..Len(feed) /\ cursor = CursorAfter(applied)
                         /\ Rows!Stamps(Disk \o buffer) = Rows!Cadence(applied)
  /\ stage = "flushed" => open /\ Rows!Stamps(tmp.rows) = Rows!Cadence(Len(feed))
  /\ stage = "footed" => tmp.footer /\ Rows!Stamps(tmp.rows) = Rows!Cadence(Len(feed))
  /\ Rows!FinalIsWholeDay

(* No row and no event.                                                    *)
LEMMA NoRows == Rows!Cadence(0) = <<>> /\ Rows!Stamps(<<>>) = <<>>
<1>1. \A F : [i \in 1..0 |-> F] = <<>>
  OBVIOUS
<1>2. 1..0 = {} /\ DOMAIN <<>> = {}
  OBVIOUS
<1>3. Rows!Stamps(<<>>) = <<>>
  BY <1>2 DEF Rows!Stamps
<1>4. Rows!Cadence(0) = Rows!FlattenSeq(<<>>)
  BY <1>2 DEF Rows!Cadence
<1>5. FlattenSeq(<<>>) = <<>>
  BY DEF FlattenSeq
<1> QED BY <1>3, <1>4, <1>5, RowsLibrary

(* What was flushed and buffered, in one file.                             *)
LEMMA RowsTypes ==
  ASSUME RowsInv
  PROVE  /\ Disk \in Seq(AnyRow) /\ Disk \o buffer \in Seq(AnyRow)
         /\ tmp.rows \in Seq(AnyRow) /\ buffer \in Seq(AnyRow) /\ Len(feed) \in Nat
<1>1. <<>> \in Seq(AnyRow)
  OBVIOUS
<1>2. feed \in Seq(0..Horizon) /\ buffer \in Seq(AnyRow) /\ tmp.rows \in Seq(AnyRow)
  BY DEF RowsInv, FeedOK, IsFile
<1>3. Len(feed) \in Nat
  BY <1>2, LenProperties
<1>4. Disk \in Seq(AnyRow)
  BY <1>1, <1>2 DEF Disk
<1> HIDE DEF Disk
<1> QED BY <1>2, <1>3, <1>4, ConcatProperties

(* A flush of rows after those on disk keeps both.                         *)
LEMMA FlushKeeps ==
  ASSUME RowsInv, NEW rows \in Seq(AnyRow), Rows!Flush(rows)
  PROVE  /\ open' \in BOOLEAN /\ buffer' = <<>> /\ IsFile(tmp)'
         /\ Disk' = Disk \o rows
         /\ open' => tmp'.rows = Disk \o rows
         /\ ~open' => Disk \o rows = <<>>
<1>0. IsFile(tmp) /\ open \in BOOLEAN /\ Disk \in Seq(AnyRow) /\ tmp.rows \in Seq(AnyRow)
  BY RowsTypes DEF RowsInv
<1>1. CASE rows = <<>>
  <2>1. buffer' = <<>> /\ open' = open /\ tmp' = tmp
    BY <1>1 DEF Rows!Flush
  <2>2. Disk \o rows = Disk
    BY <1>0, <1>1, ConcatEmptySeq
  <2>3. open => Disk = tmp.rows
    BY DEF Disk
  <2>4. ~open => Disk = <<>>
    BY DEF Disk
  <2> QED BY <1>0, <2>1, <2>2, <2>3, <2>4 DEF IsFile, Disk
<1>2. CASE rows # <<>>
  <2>1. /\ buffer' = <<>> /\ open' = TRUE
        /\ tmp' = [rows |-> IF open THEN tmp.rows \o rows ELSE rows, footer |-> FALSE]
    BY <1>2 DEF Rows!Flush
  <2>2. Disk \o rows = IF open THEN tmp.rows \o rows ELSE rows
    BY ConcatEmptySeq DEF Disk
  <2>3. tmp.rows \o rows \in Seq(AnyRow)
    BY <1>0, ConcatProperties
  <2>4. tmp' = [rows |-> tmp'.rows, footer |-> tmp'.footer] /\ tmp'.rows = Disk \o rows
    BY <2>1, <2>2
  <2>5. tmp'.rows \in Seq(AnyRow)
    BY <2>2, <2>3, <2>4
  <2>6. Disk' = tmp'.rows
    BY <2>1 DEF Disk
  <2> QED BY <2>1, <2>4, <2>5, <2>6 DEF IsFile
<1> QED BY <1>1, <1>2

(* What the feed alone says does not change.                               *)
LEMMA FeedStays ==
  ASSUME feed' = feed
  PROVE  /\ \A n : Rows!Cadence(n)' = Rows!Cadence(n)
         /\ FeedOK' <=> FeedOK
         /\ \A n : CursorAfter(n)' = CursorAfter(n)
BY DEF Rows!Cadence, Rows!Passed, FeedOK, Rows!InOrder, CursorAfter, Rows!BoundaryAfter

(* One event more: its rows follow those of the events before it.          *)
LEMMA ReplayKeepsRows == ASSUME Rows!DayRowsAssumption, RowsInv, Rows!Replay PROVE RowsInv'
<1>0. PICK i : i = applied + 1
  OBVIOUS
<1> DEFINE more == Rows!Emitted(feed[i], i)
           rows == buffer \o more
<1>1. /\ stage = "replay" /\ stage' = "replay" /\ applied < Len(feed) /\ applied' = i
      /\ feed' = feed /\ final' = final /\ cursor' = Rows!Advanced(feed[i])
      /\ \/ Rows!Flush(rows)
         \/ buffer' = rows /\ open' = open /\ tmp' = tmp
  BY <1>0 DEF Rows!Replay
<1>2. /\ FeedOK /\ applied \in Nat /\ i \in 1..Len(feed) /\ applied + 1 <= Len(feed) /\ i - 1 = applied
      /\ cursor = CursorAfter(i - 1)
      /\ Rows!Stamps(Disk \o buffer) = Rows!Cadence(applied) /\ Rows!FinalIsWholeDay
  <2>1. /\ FeedOK /\ applied \in 0..Len(feed) /\ cursor = CursorAfter(applied)
        /\ Rows!Stamps(Disk \o buffer) = Rows!Cadence(applied) /\ Rows!FinalIsWholeDay
    BY <1>1 DEF RowsInv
  <2>2. i - 1 = applied /\ applied \in Nat /\ i \in 1..Len(feed) /\ applied + 1 <= Len(feed)
    BY <1>0, <1>1, <2>1, RowsTypes
  <2> QED BY <2>1, <2>2
<1>3. more \in Seq(AnyRow) /\ Rows!Stamps(more) = Chunk(i) /\ cursor' = CursorAfter(i)
  BY <1>1, <1>2, EmitsChunk
<1> HIDE DEF more
<1>4. rows \in Seq(AnyRow) /\ Disk \o rows = (Disk \o buffer) \o more
  <2>1. Disk \in Seq(AnyRow) /\ buffer \in Seq(AnyRow)
    BY RowsTypes
  <2> HIDE DEF Disk
  <2>2. rows \in Seq(AnyRow)
    BY <1>3, <2>1, ConcatProperties
  <2>3. Disk \o (buffer \o more) = (Disk \o buffer) \o more
    BY ONLY <1>3, <2>1, ConcatAssociative
  <2> QED BY <2>2, <2>3
<1>5. Rows!Stamps(Disk \o rows) = Rows!Cadence(i)
  <2>1. Rows!Stamps((Disk \o buffer) \o more) = Rows!Stamps(Disk \o buffer) \o Rows!Stamps(more)
    BY <1>3, RowsTypes, StampsConcat
  <2>2. Rows!Cadence(applied + 1) = Rows!Cadence(applied) \o Chunk(applied + 1)
    BY <1>2, CadenceGrows
  <2> QED BY <1>0, <1>2, <1>3, <1>4, <2>1, <2>2
<1> HIDE DEF rows
<1>6. /\ open' \in BOOLEAN /\ buffer' \in Seq(AnyRow) /\ IsFile(tmp)'
      /\ Disk' \o buffer' = Disk \o rows
  <2>1. CASE Rows!Flush(rows)
    <3>1. /\ open' \in BOOLEAN /\ buffer' = <<>> /\ IsFile(tmp)' /\ Disk' = Disk \o rows
      BY <1>4, <2>1, FlushKeeps
    <3>2. Disk \o rows \in Seq(AnyRow) /\ <<>> \in Seq(AnyRow)
      <4>1. Disk \in Seq(AnyRow)
        BY RowsTypes
      <4>2. Disk \o rows \in Seq(AnyRow)
        BY ONLY <1>4, <4>1, ConcatProperties
      <4> QED BY <4>2
    <3> QED BY <3>1, <3>2, ConcatEmptySeq
  <2>2. CASE buffer' = rows /\ open' = open /\ tmp' = tmp
    BY <1>4, <2>2 DEF RowsInv, IsFile, Disk
  <2> QED BY <1>1, <2>1, <2>2
<1>7. FeedOK' /\ Rows!Cadence(i)' = Rows!Cadence(i) /\ CursorAfter(i)' = CursorAfter(i)
  BY <1>1, <1>2, FeedStays
<1>8. Rows!FinalIsWholeDay'
  BY <1>1, <1>2 DEF Rows!FinalIsWholeDay, Rows!NoFile, Rows!Stamps, Rows!Cadence, Rows!Passed
<1>9. (Rows!Stamps(Disk \o buffer) = Rows!Cadence(applied))'
  <2>1. Rows!Stamps(Disk' \o buffer') = Rows!Stamps(Disk \o rows)
    BY <1>6
  <2>2. Rows!Cadence(applied)' = Rows!Cadence(i)
    BY <1>1 DEF Rows!Cadence, Rows!Passed
  <2>3. Rows!Stamps(Disk \o buffer)' = Rows!Stamps(Disk' \o buffer')
    BY DEF Rows!Stamps
  <2> QED BY <1>5, <2>1, <2>2, <2>3
<1>10. (applied \in 0..Len(feed) /\ cursor = CursorAfter(applied))'
  <2>1. i \in 0..Len(feed)
    BY <1>2, RowsTypes
  <2>2. CursorAfter(applied)' = CursorAfter(i)
    BY <1>1 DEF CursorAfter, Rows!BoundaryAfter
  <2> QED BY <1>1, <1>3, <2>1, <2>2
<1> QED BY <1>1, <1>6, <1>7, <1>8, <1>9, <1>10 DEF RowsInv

(* A step of the replay, the close, the rename or a crash keeps the books. *)
LEMMA RowsStep == ASSUME Rows!DayRowsAssumption, RowsInv, [Rows!Next]_rowVars PROVE RowsInv'
<1>1. CASE Rows!StartRun
  <2>1. /\ UNCHANGED <<feed, tmp, final>> /\ stage' = "replay" /\ applied' = 0 /\ cursor' = Rows!None
        /\ buffer' = <<>> /\ open' = FALSE
    BY <1>1 DEF Rows!StartRun
  <2>2. Disk' \o buffer' = <<>> /\ <<>> \in Seq(AnyRow)
    BY <2>1 DEF Disk
  <2>3. (Rows!Stamps(Disk \o buffer) = Rows!Cadence(applied))'
    <3>1. Rows!Stamps(Disk \o buffer)' = Rows!Stamps(<<>>)
      BY <2>2 DEF Rows!Stamps
    <3>2. Rows!Cadence(applied)' = Rows!Cadence(0)
      BY <2>1 DEF Rows!Cadence, Rows!Passed
    <3> QED BY <3>1, <3>2, NoRows
  <2>4. (applied \in 0..Len(feed) /\ cursor = CursorAfter(applied))'
    BY <2>1, RowsTypes DEF CursorAfter
  <2>5. FeedOK' /\ Rows!FinalIsWholeDay' /\ IsFile(tmp)'
    BY <2>1 DEF RowsInv, FeedOK, Rows!InOrder, IsFile, Rows!FinalIsWholeDay, Rows!NoFile, Rows!Stamps,
                Rows!Cadence, Rows!Passed
  <2> QED BY <2>1, <2>2, <2>3, <2>4, <2>5 DEF RowsInv
<1>2. CASE Rows!Replay
  BY <1>2, ReplayKeepsRows
<1>3. CASE Rows!CloseFlush
  <2>1. /\ stage = "replay" /\ applied = Len(feed) /\ Rows!Flush(buffer)
        /\ stage' = IF open' THEN "flushed" ELSE "idle"
        /\ UNCHANGED <<feed, final>>
    BY <1>3 DEF Rows!CloseFlush
  <2>2. /\ open' \in BOOLEAN /\ buffer' = <<>> /\ IsFile(tmp)'
        /\ open' => tmp'.rows = Disk \o buffer
    BY <2>1, RowsTypes, FlushKeeps
  <2>3. Rows!Stamps(Disk \o buffer) = Rows!Cadence(Len(feed)) /\ FeedOK /\ Rows!FinalIsWholeDay
    BY <2>1 DEF RowsInv
  <2>4. Rows!Cadence(Len(feed))' = Rows!Cadence(Len(feed))
    BY <2>1 DEF Rows!Cadence, Rows!Passed
  <2>5. open' => (Rows!Stamps(tmp.rows) = Rows!Cadence(Len(feed)))'
    <3>1. Rows!Stamps(tmp.rows)' = Rows!Stamps(tmp'.rows)
      BY DEF Rows!Stamps
    <3> QED BY <2>2, <2>3, <2>4, <3>1
  <2>6. FeedOK' /\ Rows!FinalIsWholeDay'
    BY <2>1, <2>3 DEF FeedOK, Rows!InOrder, Rows!FinalIsWholeDay, Rows!NoFile, Rows!Stamps,
                      Rows!Cadence, Rows!Passed
  <2>7. <<>> \in Seq(AnyRow)
    OBVIOUS
  <2> QED BY <2>1, <2>2, <2>5, <2>6, <2>7 DEF RowsInv
<1>4. CASE Rows!CloseFooter
  <2>1. /\ stage = "flushed" /\ tmp' = [tmp EXCEPT !.footer = TRUE] /\ open' = FALSE /\ stage' = "footed"
        /\ UNCHANGED <<feed, final, buffer>>
    BY <1>4 DEF Rows!CloseFooter
  <2>2. tmp'.rows = tmp.rows /\ tmp'.footer = TRUE /\ IsFile(tmp)'
    BY <2>1 DEF RowsInv, IsFile
  <2>3. Rows!Stamps(tmp.rows) = Rows!Cadence(Len(feed)) /\ FeedOK /\ Rows!FinalIsWholeDay
    BY <2>1 DEF RowsInv
  <2>4. (Rows!Stamps(tmp.rows) = Rows!Cadence(Len(feed)))'
    <3>1. Rows!Stamps(tmp.rows)' = Rows!Stamps(tmp'.rows)
      BY DEF Rows!Stamps
    <3>2. Rows!Cadence(Len(feed))' = Rows!Cadence(Len(feed))
      BY <2>1 DEF Rows!Cadence, Rows!Passed
    <3> QED BY <2>2, <2>3, <3>1, <3>2
  <2>5. FeedOK' /\ Rows!FinalIsWholeDay'
    BY <2>1, <2>3 DEF FeedOK, Rows!InOrder, Rows!FinalIsWholeDay, Rows!NoFile, Rows!Stamps,
                      Rows!Cadence, Rows!Passed
  <2>6. buffer' \in Seq(AnyRow)
    BY <2>1 DEF RowsInv
  <2> QED BY <2>1, <2>2, <2>4, <2>5, <2>6 DEF RowsInv
<1>5. CASE Rows!CloseRename
  <2>1. /\ stage = "footed" /\ final' = tmp /\ tmp' = Rows!NoFile /\ stage' = "idle"
        /\ UNCHANGED <<feed, buffer, open>>
    BY <1>5 DEF Rows!CloseRename
  <2>2. /\ tmp.footer /\ Rows!Stamps(tmp.rows) = Rows!Cadence(Len(feed)) /\ FeedOK
        /\ buffer \in Seq(AnyRow) /\ open \in BOOLEAN
    BY <2>1 DEF RowsInv
  <2>3. Rows!FinalIsWholeDay'
    <3>1. Rows!Stamps(final.rows)' = Rows!Stamps(tmp.rows)
      BY <2>1 DEF Rows!Stamps
    <3>2. Rows!Cadence(Len(feed))' = Rows!Cadence(Len(feed))
      BY <2>1 DEF Rows!Cadence, Rows!Passed
    <3>3. final'.footer
      BY <2>1, <2>2
    <3> QED BY <2>2, <3>1, <3>2, <3>3 DEF Rows!FinalIsWholeDay
  <2>4. FeedOK'
    BY <2>1, <2>2 DEF FeedOK, Rows!InOrder
  <2>5. IsFile(tmp)'
    <3>1. <<>> \in Seq(AnyRow)
      OBVIOUS
    <3> QED BY <2>1, <3>1 DEF IsFile, Rows!NoFile
  <2> QED BY <2>1, <2>2, <2>3, <2>4, <2>5 DEF RowsInv
<1>6. CASE Rows!Crash
  <2>1. /\ stage' = "idle" /\ buffer' = <<>> /\ open' = FALSE /\ UNCHANGED <<feed, tmp, final>>
    BY <1>6 DEF Rows!Crash
  <2>2. FeedOK' /\ Rows!FinalIsWholeDay' /\ IsFile(tmp)'
    BY <2>1 DEF RowsInv, FeedOK, Rows!InOrder, IsFile, Rows!FinalIsWholeDay, Rows!NoFile, Rows!Stamps,
                Rows!Cadence, Rows!Passed
  <2>3. <<>> \in Seq(AnyRow)
    OBVIOUS
  <2> QED BY <2>1, <2>2, <2>3 DEF RowsInv
<1>7. CASE UNCHANGED rowVars
  <2>1. UNCHANGED <<feed, stage, applied, cursor, buffer, open, tmp, final>>
    BY <1>7 DEF rowVars
  <2>2. FeedOK' /\ Rows!FinalIsWholeDay' /\ IsFile(tmp)'
    BY <2>1 DEF RowsInv, FeedOK, Rows!InOrder, IsFile, Rows!FinalIsWholeDay, Rows!NoFile, Rows!Stamps,
                Rows!Cadence, Rows!Passed
  <2>3. /\ Rows!Stamps(Disk \o buffer)' = Rows!Stamps(Disk \o buffer)
        /\ Rows!Stamps(tmp.rows)' = Rows!Stamps(tmp.rows)
    BY <2>1 DEF Rows!Stamps, Disk
  <2>4. /\ Rows!Cadence(applied)' = Rows!Cadence(applied)
        /\ Rows!Cadence(Len(feed))' = Rows!Cadence(Len(feed))
        /\ CursorAfter(applied)' = CursorAfter(applied)
    BY <2>1 DEF Rows!Cadence, Rows!Passed, CursorAfter, Rows!BoundaryAfter
  <2> QED BY <2>1, <2>2, <2>3, <2>4 DEF RowsInv
<1> QED BY <1>1, <1>2, <1>3, <1>4, <1>5, <1>6, <1>7 DEF Rows!Next

(* Nothing replayed yet.                                                   *)
LEMMA RowsBegin == ASSUME Rows!DayRowsAssumption, ValidationInit PROVE RowsInv
<1>1. /\ stage = "idle" /\ buffer = <<>> /\ open = FALSE /\ tmp = Rows!NoFile /\ final = Rows!NoFile
      /\ \/ feed = <<>>
         \/ feed \in {f \in Rows!BoundedSeq(0..Horizon, MaxEvents) : Rows!InOrder(f)}
  BY DEF ValidationInit, Rows!Init
<1>2. FeedOK
  <2>1. CASE feed = <<>>
    <3>1. <<>> \in Seq(0..Horizon)
      OBVIOUS
    <3> QED BY <2>1, <3>1 DEF FeedOK, Rows!InOrder
  <2>2. CASE feed \in {f \in Rows!BoundedSeq(0..Horizon, MaxEvents) : Rows!InOrder(f)}
    <3>1. feed \in UNION {[1..m -> 0..Horizon] : m \in 0..MaxEvents} /\ Rows!InOrder(feed)
      BY <2>2 DEF Rows!BoundedSeq, Rows!SeqOf
    <3>2. PICK m \in 0..MaxEvents : feed \in [1..m -> 0..Horizon]
      BY <3>1
    <3>3. m \in Nat
      BY DEF Rows!DayRowsAssumption
    <3>4. feed \in Seq(0..Horizon)
      BY ONLY <3>2, <3>3, TableIsSeq
    <3> QED BY <3>1, <3>4 DEF FeedOK
  <2> QED BY <1>1, <2>1, <2>2
<1>3. <<>> \in Seq(AnyRow)
  OBVIOUS
<1> QED BY <1>1, <1>2, <1>3 DEF RowsInv, IsFile, Rows!NoFile, Rows!FinalIsWholeDay

-----------------------------------------------------------------------------
(***************************************************************************)
(* The score of a day.                                                     *)
(***************************************************************************)

(* The windows of the score are those of the lemmas.                       *)
LEMMA ScoreWindows ==
    /\ \A W : Score!MergeWindows(W) = Win!MergeWindows(W)
    /\ \A m, lo, hi : Score!Clip(m, lo, hi) = Win!Clip(m, lo, hi)
    /\ \A m : Score!TotalLength(m) = Win!TotalLength(m)
    /\ \A w, lo, hi : Score!ClipWindow(w, lo, hi) = Win!ClipWindow(w, lo, hi)
    /\ \A S : Score!Cardinality(S) = Cardinality(S)
<1>1. ASSUME NEW w, NEW lo, NEW hi PROVE Score!ClipWindow(w, lo, hi) = Win!ClipWindow(w, lo, hi)
  BY DEF Score!ClipWindow, Win!ClipWindow, Score!Begin, Score!End, Win!Begin, Win!End
<1>2. ASSUME NEW S PROVE Score!Cardinality(S) = Cardinality(S)
  BY DEF Score!Cardinality, Cardinality, Score!IsFiniteSet, IsFiniteSet
<1>3. ASSUME NEW W PROVE Score!MergeWindows(W) = Win!MergeWindows(W)
  BY DEF Score!MergeWindows, Win!MergeWindows, Score!FoldLeft, Win!FoldLeft, Score!MapThenFoldSet,
         Win!MapThenFoldSet, Score!Begin, Score!End, Win!Begin, Win!End, Score!Absorb, Win!Absorb,
         Score!Sorted, Win!Sorted, Score!Earlier, Win!Earlier, Score!Cardinality, Win!Cardinality,
         Score!IsFiniteSet, Win!IsFiniteSet, Score!Max, Win!Max, Score!Last, Win!Last,
         Score!Front, Win!Front
<1>4. ASSUME NEW m, NEW lo, NEW hi PROVE Score!Clip(m, lo, hi) = Win!Clip(m, lo, hi)
  BY DEF Score!Clip, Win!Clip, Score!FlattenSeq, Win!FlattenSeq, Score!Begin, Score!End, Win!Begin,
         Win!End, Score!ClipWindow, Win!ClipWindow
<1>5. ASSUME NEW m PROVE Score!TotalLength(m) = Win!TotalLength(m)
  BY DEF Score!TotalLength, Win!TotalLength, Score!FoldLeft, Win!FoldLeft, Score!MapThenFoldSet,
         Win!MapThenFoldSet, Score!Length, Win!Length, Score!Begin, Score!End, Win!Begin, Win!End,
         Score!Max, Win!Max
<1> QED BY <1>1, <1>2, <1>3, <1>4, <1>5

(* The ticks of some gap records.                                          *)
GapTime(records) == UNION {TicksIn(g.window) : g \in records}

(* Finitely many records have finitely many windows.                       *)
LEMMA WindowsFinite ==
    ASSUME NEW R, IsFiniteSet(R)
    PROVE  IsFiniteSet({g.window : g \in R})
<1> DEFINE W == {g.window : g \in R}
           f == [g \in R |-> g.window]
<1>1. f \in Surjection(R, W)
  BY DEF Surjection
<1> HIDE DEF f, W
<1>2. IsFiniteSet(W)
  BY <1>1, FS_Surjection DEF ExistsSurjection
<1> QED BY <1>2 DEF W

(* The records of a run: finitely many, each a window of time.             *)
Records == IsFiniteSet(dayGaps) /\ dayGaps \subseteq DayGapChoices

(* A record's window never runs backwards.                                 *)
LEMMA RecordWindows ==
    ASSUME Score!ScoreAssumption, Records, NEW g \in dayGaps
    PROVE  /\ g.window \in Window /\ g.window[1] \in Int /\ g.window[2] \in Int
           /\ g.window = <<g.window[1], g.window[2]>>
           /\ g.window[1] <= g.window[2] /\ g.kind \in {"feed", "downtime"}
<1>1. g \in [kind : Score!Kinds, window : Nat \X Nat] /\ g \in DayGapChoices
  BY DEF Score!ScoreAssumption, Records
<1>2. g.window \in Nat \X Nat /\ g.kind \in Score!Kinds
  BY <1>1
<1>3. g.window[1] <= g.window[2]
  BY <1>1 DEF Score!ScoreAssumption, Score!Begin, Score!End
<1> QED BY <1>2, <1>3 DEF Window, Score!Kinds

(* Merged, and clipped to the span and to the day, the windows of some of  *)
(* the records have the ticks of the records there, each counted once.     *)
LEMMA RecordTotals ==
    ASSUME Score!ScoreAssumption, Records, NEW R, R \subseteq dayGaps,
           daySpan[1] \in Int, daySpan[2] \in Int
    PROVE  /\ IsFiniteSet(GapTime(R))
           /\ Score!TotalLength(Score!MergeWindows(Score!Windows(R))) = Cardinality(GapTime(R))
           /\ Score!TotalLength(Score!SpanWindows(R))
                = Cardinality(GapTime(R) \cap (daySpan[1]..(daySpan[2] - 1)))
           /\ Score!TotalLength(Score!Clip(Score!SpanWindows(R), ScoredDay[1], ScoredDay[2]))
                = Cardinality((GapTime(R) \cap (daySpan[1]..(daySpan[2] - 1)))
                                \cap (ScoredDay[1]..(ScoredDay[2] - 1)))
<1> DEFINE W == Score!Windows(R)
           m == Win!MergeWindows(W)
           c == Win!Clip(m, daySpan[1], daySpan[2])
           d == Win!Clip(c, ScoredDay[1], ScoredDay[2])
<1>0. ScoredDay[1] \in Int /\ ScoredDay[2] \in Int
  BY DEF Score!ScoreAssumption
<1>1. W = {g.window : g \in R}
  BY DEF Score!Windows
<1>2. IsFiniteSet(W) /\ W \subseteq Window
  <2>1. IsFiniteSet(R)
    BY FS_Subset DEF Records
  <2>2. IsFiniteSet({g.window : g \in R})
    BY ONLY <2>1, WindowsFinite
  <2>3. \A g \in R : g.window \in Window
    BY RecordWindows
  <2> QED BY <1>1, <2>2, <2>3
<1>3. UNION {TicksIn(w) : w \in W} = GapTime(R)
  BY <1>1 DEF GapTime
<1> HIDE DEF W
<1>4. Apart(m) /\ TicksAll(m) = GapTime(R)
  BY <1>2, <1>3, MergedWindows
<1> HIDE DEF m
<1>5. Apart(c) /\ TicksAll(c) = GapTime(R) \cap (daySpan[1]..(daySpan[2] - 1))
  BY <1>4, ClippedWindows
<1> HIDE DEF c
<1>6. Apart(d) /\ TicksAll(d) = TicksAll(c) \cap (ScoredDay[1]..(ScoredDay[2] - 1))
  BY <1>0, <1>5, ClippedWindows
<1> HIDE DEF d
<1>7. /\ IsFiniteSet(GapTime(R)) /\ Win!TotalLength(m) = Cardinality(GapTime(R))
      /\ Win!TotalLength(c) = Cardinality(TicksAll(c))
      /\ Win!TotalLength(d) = Cardinality(TicksAll(d))
  BY <1>4, <1>5, <1>6, TotalIsTicks
<1>8. Score!MergeWindows(W) = m
  BY ScoreWindows DEF m
<1>9. Score!SpanWindows(R) = c
  BY <1>8, ScoreWindows DEF Score!SpanWindows, Score!Begin, Score!End, W, c
<1>10. Score!Clip(c, ScoredDay[1], ScoredDay[2]) = d
  BY ScoreWindows DEF d
<1> QED BY <1>5, <1>6, <1>7, <1>8, <1>9, <1>10, ScoreWindows DEF W

(* What an event credits is the time since the last one outside the gaps.  *)
LEMMA CreditIsTicks ==
    ASSUME Score!ScoreAssumption, Records, NEW start \in Int, NEW end \in Int
    PROVE  Score!CreditOutsideGaps(start, end)
             = Cardinality((start..(end - 1)) \ GapTime(dayGaps))
<1> DEFINE u == Win!MergeWindows(Score!Windows(dayGaps))
           m == Middle(u, start, end)
           inside == start..(end - 1)
<1>1. Apart(u) /\ TicksAll(u) = GapTime(dayGaps)
  <2> DEFINE W == Score!Windows(dayGaps)
  <2>1. W = {g.window : g \in dayGaps}
    BY DEF Score!Windows
  <2>2. IsFiniteSet({g.window : g \in dayGaps})
    BY WindowsFinite DEF Records
  <2>3. \A g \in dayGaps : g.window \in Window
    BY RecordWindows
  <2>4. UNION {TicksIn(w) : w \in W} = GapTime(dayGaps)
    BY <2>1 DEF GapTime
  <2>5. IsFiniteSet(W) /\ W \subseteq Window
    BY <2>1, <2>2, <2>3
  <2> HIDE DEF W
  <2>6. Apart(Win!MergeWindows(W)) /\ TicksAll(Win!MergeWindows(W)) = GapTime(dayGaps)
    BY <2>4, <2>5, MergedWindows
  <2> QED BY <2>6 DEF W
<1>3. DOMAIN u = 1..Len(u)
  <2> HIDE DEF u
  <2> QED BY <1>1 DEF Apart
<1>2. Score!CreditOutsideGaps(start, end)
        = IF end <= start THEN 0 ELSE (end - start) - Win!TotalLength(m)
  <2>1. Score!Union = u
    BY ScoreWindows DEF Score!Union
  <2> HIDE DEF u
  <2>2. /\ UpTo(u, end) = Score!Cardinality({i \in DOMAIN u : u[i][1] <= end})
        /\ Past(u, start, end) = Score!Cardinality({i \in 1..UpTo(u, end) : u[i][2] <= start})
    BY <1>3, ScoreWindows DEF UpTo, Past
  <2>3. m = [i \in 1..(UpTo(u, end) - Past(u, start, end)) |->
                Score!ClipWindow(u[Past(u, start, end) + i], start, end)]
    BY ScoreWindows DEF Middle
  <2> HIDE DEF m
  <2>4. Score!CreditOutsideGaps(start, end)
          = IF end <= start THEN 0 ELSE (end - start) - Score!TotalLength(m)
    BY <2>1, <2>2, <2>3 DEF Score!CreditOutsideGaps, Score!Begin, Score!End
  <2> QED BY <2>4, ScoreWindows
<1> HIDE DEF u
<1>4. CASE end <= start
  <2>1. inside = {}
    BY <1>4
  <2> HIDE DEF inside
  <2>2. inside \ GapTime(dayGaps) = {}
    BY <2>1
  <2>3. Cardinality(inside \ GapTime(dayGaps)) = 0
    BY <2>2, FS_EmptySet
  <2> QED BY <1>2, <1>4, <2>3 DEF inside
<1>5. CASE ~(end <= start)
  <2>0. start < end
    BY <1>5
  <2>1. Apart(m) /\ TicksAll(m) = TicksAll(u) \cap inside
    BY <1>1, <2>0, MiddleWindows
  <2> HIDE DEF m
  <2>2. Win!TotalLength(m) = Cardinality(inside \cap GapTime(dayGaps))
    <3>1. TicksAll(m) = inside \cap GapTime(dayGaps)
      BY <1>1, <2>1
    <3> QED BY <2>1, <3>1, TotalIsTicks
  <2>3. IsFiniteSet(inside) /\ Cardinality(inside) = end - start
    <3>1. end - 1 \in Int
      OBVIOUS
    <3>2. PICK b \in Int : b = end - 1
      BY <3>1
    <3>3. IsFiniteSet(start..b) /\ Cardinality(start..b) = IF start > b THEN 0 ELSE b - start + 1
      BY FS_Interval
    <3> QED BY <2>0, <3>2, <3>3
  <2> HIDE DEF inside
  <2>4. Cardinality(inside \ GapTime(dayGaps))
          = Cardinality(inside) - Cardinality(inside \cap GapTime(dayGaps))
    BY <2>3, FS_Difference
  <2> QED BY <1>2, <1>5, <2>2, <2>3, <2>4 DEF inside
<1> QED BY <1>4, <1>5

(* What a replay keeps of the day: the numerator counts the ticks between  *)
(* events over which the book was valid and no gap record covers; those    *)
(* ticks are before the last event, and the span is inside the day.        *)
ScoreInv ==
    /\ Records
    /\ now \in Int /\ ScoredDay[1] <= now /\ now < ScoredDay[2]
    /\ \/ lastEvent = -1 /\ trusted = {}
       \/ /\ lastEvent \in Int /\ ScoredDay[1] <= lastEvent /\ lastEvent <= now
          /\ trusted \subseteq ScoredDay[1]..(lastEvent - 1)
    /\ covered = Cardinality(trusted \ GapTime(dayGaps))
    /\ \/ daySpan = <<0, -1>>
       \/ /\ daySpan = <<daySpan[1], daySpan[2]>> /\ daySpan[1] \in Int /\ daySpan[2] \in Int
          /\ ScoredDay[1] <= daySpan[1] /\ daySpan[1] <= daySpan[2] /\ daySpan[2] <= now

(* What a snapshot stream keeps besides: every trusted tick is between two *)
(* snapshots, and a long interval between two snapshots in a row is noted. *)
StreamInv ==
    /\ stream => (valid => lastEvent # -1) /\ prevSnap = lastEvent
    /\ snaps \subseteq ScoredDay[1]..now
    /\ prevSnap = -1 => snaps = {}
    /\ prevSnap # -1 => prevSnap \in snaps /\ \A s \in snaps : s <= prevSnap
    /\ stream => \A x \in trusted : (\E s \in snaps : s <= x) /\ (\E s \in snaps : x < s)
    /\ \A s, t \in snaps :
          s < t /\ t - s > StaleAfter /\ (\A r \in snaps : r <= s \/ r >= t)
              => <<s, t>> \in stale

(* A few facts of the constants of the score.                              *)
LEMMA ScoreConstants ==
    ASSUME Score!ScoreAssumption
    PROVE  /\ ScoredDay[1] \in Nat /\ ScoredDay[2] \in Nat /\ ScoredDay[1] < ScoredDay[2]
           /\ Score!Never = -1 /\ Score!NoSpan = <<0, -1>>
BY DEF Score!ScoreAssumption, Score!Never, Score!NoSpan, Score!Begin, Score!End

(* A day begins with nothing credited and no snapshot.                     *)
LEMMA ScoreBegins ==
    ASSUME Score!ScoreAssumption, ValidationInit
    PROVE  ScoreInv /\ StreamInv
<1> DEFINE first == ScoredDay[1]
<1>1. first \in Nat /\ ScoredDay[2] \in Nat /\ first < ScoredDay[2]
  BY ScoreConstants
<1>2. /\ now = first /\ trusted = {} /\ covered = 0 /\ daySpan = <<0, -1>>
      /\ prevSnap = -1 /\ snaps = {} /\ stale = {}
      /\ lastEvent = (IF valid THEN first ELSE -1) /\ valid \in BOOLEAN
      /\ stream => ~valid
      /\ dayGaps = {} \/ (IsFiniteSet(dayGaps) /\ dayGaps \subseteq DayGapChoices)
  <2>1. CASE part = "score"
    <3>1. Score!DayInit
      BY <2>1 DEF ValidationInit
    <3>2. \A S : Score!IsFiniteSet(S) => IsFiniteSet(S)
      BY DEF Score!IsFiniteSet, IsFiniteSet
    <3> QED BY <3>1, <3>2, ScoreConstants DEF Score!DayInit, Score!Init, Score!Begin
  <2>2. CASE part # "score"
    BY <2>2, ScoreConstants DEF ValidationInit, Begin, Score!Begin, NoSpan
  <2> QED BY <2>1, <2>2
<1>3. Records
  BY <1>2, FS_EmptySet DEF Records
<1>4. Cardinality(trusted \ GapTime(dayGaps)) = 0
  <2>1. trusted \ GapTime(dayGaps) = {}
    BY <1>2
  <2> QED BY <2>1, FS_EmptySet
<1>5. ScoreInv
  BY <1>1, <1>2, <1>3, <1>4 DEF ScoreInv
<1>6. StreamInv
  BY <1>1, <1>2 DEF StreamInv
<1> QED BY <1>5, <1>6

(* The credit of an event that finds the book valid.                       *)
LEMMA CreditKept ==
    ASSUME Score!ScoreAssumption, ScoreInv, lastEvent # -1
    PROVE  LET more == trusted \cup (lastEvent..(now - 1))
           IN  /\ more \subseteq ScoredDay[1]..(now - 1)
               /\ covered + Score!CreditOutsideGaps(lastEvent, now)
                    = Cardinality(more \ GapTime(dayGaps))
<1> DEFINE first == ScoredDay[1]
           since == lastEvent..(now - 1)
           G == GapTime(dayGaps)
<1>1. first \in Int /\ lastEvent \in Int /\ now \in Int /\ first <= lastEvent /\ lastEvent <= now
      /\ trusted \subseteq first..(lastEvent - 1) /\ covered = Cardinality(trusted \ G) /\ Records
  BY ScoreConstants DEF ScoreInv
<1>2. trusted \cup since \subseteq first..(now - 1)
  BY <1>1
<1>3. IsFiniteSet(trusted \ G) /\ IsFiniteSet(since \ G)
  <2>1. \A a, b \in Int : IsFiniteSet(a..b)
    BY FS_Interval
  <2>2. IsFiniteSet(first..(lastEvent - 1)) /\ IsFiniteSet(since)
    BY <1>1, <2>1
  <2>3. \A S : \A T \in SUBSET S : IsFiniteSet(S) => IsFiniteSet(T)
    BY FS_Subset
  <2> QED BY <1>1, <2>2, <2>3
<1>4. Score!CreditOutsideGaps(lastEvent, now) = Cardinality(since \ G)
  BY <1>1, CreditIsTicks
<1>5. (trusted \ G) \cap (since \ G) = {}
  BY <1>1
<1> HIDE DEF since, G, first
<1>6. Cardinality((trusted \ G) \cup (since \ G)) = Cardinality(trusted \ G) + Cardinality(since \ G)
  <2>1. Cardinality((trusted \ G) \cup (since \ G)) = Cardinality(trusted \ G) + Cardinality(since \ G) - 0
    BY <1>3, <1>5, FS_Union, FS_EmptySet
  <2>2. Cardinality(trusted \ G) \in Nat /\ Cardinality(since \ G) \in Nat
    BY <1>3, FS_CardinalityType
  <2> QED BY <2>1, <2>2
<1>7. (trusted \ G) \cup (since \ G) = (trusted \cup since) \ G
  OBVIOUS
<1> QED BY <1>1, <1>2, <1>4, <1>6, <1>7 DEF since, G, first

(* Every message of the day keeps the account of the numerator.            *)
LEMMA ScoreStep ==
    ASSUME Score!ScoreAssumption, ScoreInv, [Score!DayNext]_scoreVars
    PROVE  ScoreInv'
<1> DEFINE first == ScoredDay[1]
<1>0. first \in Int /\ ScoredDay[2] \in Int
  BY ScoreConstants
<1>1. ASSUME Score!Received PROVE
           \/ daySpan' = <<0, -1>>
           \/ /\ daySpan' = <<daySpan'[1], daySpan'[2]>> /\ daySpan'[1] \in Int /\ daySpan'[2] \in Int
              /\ first <= daySpan'[1] /\ daySpan'[1] <= daySpan'[2] /\ daySpan'[2] <= now
  <2>1. daySpan' = IF daySpan = <<0, -1>> THEN <<now, now>> ELSE <<daySpan[1], now>>
    BY <1>1, ScoreConstants DEF Score!Received, Score!Begin
  <2>2. now \in Int /\ first <= now
    BY DEF ScoreInv
  <2>3. CASE daySpan = <<0, -1>>
    BY <2>1, <2>2, <2>3
  <2>4. CASE daySpan # <<0, -1>>
    <3>1. daySpan[1] \in Int /\ daySpan[2] \in Int /\ first <= daySpan[1]
          /\ daySpan[1] <= daySpan[2] /\ daySpan[2] <= now
      BY <2>4 DEF ScoreInv
    <3> QED BY <1>0, <2>1, <2>2, <2>4, <3>1
  <2> QED BY <2>3, <2>4
<1>2. ASSUME Score!OtherRecord PROVE ScoreInv'
  <2>1. UNCHANGED <<dayGaps, now, valid, lastEvent, covered, trusted>> /\ Score!Received
    BY <1>2 DEF Score!OtherRecord
  <2> QED BY <1>1, <2>1 DEF ScoreInv, Records, GapTime
<1>3. ASSUME Score!BookEvent PROVE ScoreInv'
  <2>1. dayGaps' = dayGaps /\ now' = now /\ lastEvent' = now /\ Score!Received /\ Score!Credit
    BY <1>3 DEF Score!BookEvent
  <2>2. CASE lastEvent # -1 /\ valid
    <3>1. /\ covered' = covered + Score!CreditOutsideGaps(lastEvent, now)
          /\ trusted' = trusted \cup (lastEvent..(now - 1))
      BY <2>1, <2>2, ScoreConstants DEF Score!Credit, Score!Ticks, Score!Begin, Score!End
    <3>2. /\ trusted' \subseteq first..(now - 1)
          /\ covered' = Cardinality(trusted' \ GapTime(dayGaps))
      BY <2>2, <3>1, CreditKept
    <3> QED BY <1>1, <2>1, <3>2 DEF ScoreInv, Records, GapTime
  <2>3. CASE ~(lastEvent # -1 /\ valid)
    <3>1. covered' = covered /\ trusted' = trusted
      BY <2>1, <2>3, ScoreConstants DEF Score!Credit
    <3>2. trusted \subseteq first..(now - 1)
      BY <1>0 DEF ScoreInv
    <3> QED BY <1>1, <2>1, <3>1, <3>2 DEF ScoreInv, Records, GapTime
  <2> QED BY <2>2, <2>3
<1>4. ASSUME Score!Tick PROVE ScoreInv'
  <2>1. /\ UNCHANGED <<dayGaps, valid, lastEvent, covered, daySpan, trusted>>
        /\ now' = now + 1 /\ now + 1 < ScoredDay[2]
    BY <1>4 DEF Score!Tick, Score!End
  <2>2. now \in Int /\ ScoredDay[1] <= now
    BY DEF ScoreInv
  <2>3. now' \in Int /\ ScoredDay[1] <= now' /\ now' < ScoredDay[2] /\ now < now'
    BY <1>0, <2>1, <2>2
  <2>4. Records' /\ GapTime(dayGaps)' = GapTime(dayGaps)
    BY <2>1 DEF Records, GapTime, ScoreInv
  <2>5. lastEvent = -1 \/ lastEvent <= now'
    <3>1. lastEvent = -1 \/ (lastEvent \in Int /\ lastEvent <= now)
      BY DEF ScoreInv
    <3> QED BY <2>2, <2>3, <3>1
  <2>6. daySpan = <<0, -1>> \/ daySpan[2] <= now'
    <3>1. daySpan = <<0, -1>> \/ (daySpan[2] \in Int /\ daySpan[2] <= now)
      BY DEF ScoreInv
    <3> QED BY <2>2, <2>3, <3>1
  <2> QED BY <2>1, <2>3, <2>4, <2>5, <2>6 DEF ScoreInv
<1>5. CASE UNCHANGED scoreVars
  BY <1>5 DEF scoreVars, ScoreInv, Records, GapTime
<1>6. CASE Score!DayNext
  BY <1>2, <1>3, <1>4, <1>6 DEF Score!DayNext, Score!DayOther, Score!Bbo, Score!Snapshot,
     Score!Incremental, Score!DayTick
<1> QED BY <1>5, <1>6

(* Every message of the day keeps what is known of the snapshots.          *)
LEMMA StreamStep ==
    ASSUME Score!ScoreAssumption, ScoreInv, StreamInv, StaleAfter \in Nat,
           [Score!DayNext]_scoreVars
    PROVE  StreamInv'
<1> DEFINE first == ScoredDay[1]
<1>0. /\ first \in Nat /\ now \in Int /\ first <= now
      /\ lastEvent = -1 \/ (lastEvent \in Int /\ first <= lastEvent /\ lastEvent <= now)
  BY ScoreConstants DEF ScoreInv
<1>1. CASE UNCHANGED scoreVars
  BY <1>1 DEF scoreVars, StreamInv
<1>2. ASSUME Score!OtherRecord, UNCHANGED <<stream, prevSnap, stale, snaps>> PROVE StreamInv'
  <2>1. UNCHANGED <<now, valid, lastEvent, trusted, stream, prevSnap, stale, snaps>>
    BY <1>2 DEF Score!OtherRecord
  <2> QED BY <2>1 DEF StreamInv
<1>3. ASSUME Score!Incremental PROVE StreamInv'
  <2>1. ~stream /\ UNCHANGED <<now, stream, prevSnap, stale, snaps>>
    BY <1>3 DEF Score!Incremental, Score!BookEvent
  <2> QED BY <2>1 DEF StreamInv
<1>4. ASSUME Score!DayTick PROVE StreamInv'
  <2>1. now' = now + 1 /\ UNCHANGED <<valid, lastEvent, trusted, stream, prevSnap, stale, snaps>>
    BY <1>4 DEF Score!DayTick, Score!Tick
  <2>2. first..now \subseteq first..(now + 1)
    BY <1>0
  <2> QED BY <2>1, <2>2 DEF StreamInv
<1>5. ASSUME Score!Snapshot PROVE StreamInv'
  <2>1. /\ stream /\ valid' /\ stream' = stream /\ now' = now /\ lastEvent' = now /\ prevSnap' = now
        /\ snaps' = snaps \cup {now}
        /\ stale' = IF prevSnap # -1 /\ now - prevSnap > StaleAfter
                    THEN stale \cup {<<prevSnap, now>>} ELSE stale
        /\ trusted' = IF lastEvent # -1 /\ valid THEN trusted \cup (lastEvent..(now - 1)) ELSE trusted
    BY <1>5, ScoreConstants DEF Score!Snapshot, Score!BookEvent, Score!Cadence, Score!Credit,
       Score!Ticks, Score!Begin, Score!End
  <2>2. /\ snaps \subseteq first..now /\ prevSnap = lastEvent
        /\ prevSnap = -1 => snaps = {}
        /\ prevSnap # -1 => prevSnap \in snaps /\ \A s \in snaps : s <= prevSnap
    BY <2>1 DEF StreamInv
  <2>3. now # -1 /\ now \in snaps' /\ snaps' \subseteq first..now
    BY <1>0, <2>1, <2>2
  <2>4. \A s \in snaps' : s <= now
    BY <1>0, <2>3
  <2>5. ASSUME NEW x \in trusted'
        PROVE  (\E s \in snaps' : s <= x) /\ (\E s \in snaps' : x < s)
    <3>1. CASE x \in trusted
      BY <2>1, <3>1 DEF StreamInv
    <3>2. CASE x \notin trusted
      <4>1. lastEvent # -1 /\ x \in lastEvent..(now - 1)
        BY <2>1, <2>5, <3>2
      <4>2. lastEvent <= x /\ x < now
        BY <1>0, <4>1
      <4>3. lastEvent \in snaps'
        BY <2>1, <2>2, <4>1
      <4> QED BY <2>3, <4>2, <4>3
    <3> QED BY <3>1, <3>2
  <2>6. ASSUME NEW s \in snaps', NEW t \in snaps', s < t, t - s > StaleAfter,
               \A r \in snaps' : r <= s \/ r >= t
        PROVE  <<s, t>> \in stale'
    <3>1. CASE t \in snaps /\ s \in snaps
      BY <2>1, <2>6, <3>1 DEF StreamInv
    <3>2. CASE ~(t \in snaps /\ s \in snaps)
      <4>0. s \in Int /\ t \in Int /\ s <= now /\ t <= now
        BY <1>0, <2>3
      <4>1. s # now /\ s \in snaps
        BY <2>1, <2>6, <4>0
      <4>2. t = now
        BY <2>1, <3>2, <4>1
      <4>3. prevSnap # -1 /\ prevSnap \in snaps /\ s <= prevSnap /\ prevSnap \in Int /\ prevSnap <= now
        <5>1. prevSnap # -1 /\ prevSnap \in snaps /\ s <= prevSnap
          BY <2>2, <4>1
        <5> QED BY <1>0, <2>2, <5>1
      <4>4. prevSnap <= s \/ prevSnap >= now
        BY <2>1, <2>6, <4>2, <4>3
      <4>5. prevSnap # now
        BY <2>1, <3>2, <4>1, <4>2, <4>3
      <4>6. prevSnap = s
        BY <1>0, <4>0, <4>3, <4>4, <4>5
      <4> QED BY <2>1, <2>6, <4>2, <4>3, <4>6
    <3> QED BY <3>1, <3>2
  <2> QED BY <2>1, <2>3, <2>4, <2>5, <2>6 DEF StreamInv
<1>6. CASE Score!DayNext
  <2>1. CASE Score!DayOther
    BY <1>2, <2>1 DEF Score!DayOther
  <2>2. CASE Score!Bbo
    BY <1>2, <2>2 DEF Score!Bbo
  <2> QED BY <1>3, <1>4, <1>5, <1>6, <2>1, <2>2 DEF Score!DayNext
<1> QED BY <1>1, <1>6

(* The records of the day, and those that meet the span.                   *)
LEMMA RecordsInScope ==
    ASSUME Score!ScoreAssumption, ScoreInv
    PROVE  /\ Score!InDay = {g \in dayGaps : g.window[1] < ScoredDay[2] /\ g.window[2] > ScoredDay[1]}
           /\ daySpan = <<0, -1>> => Score!InSpan = {}
           /\ daySpan # <<0, -1>> =>
                 Score!InSpan = {g \in Score!InDay : g.window[1] < daySpan[2] /\ g.window[2] > daySpan[1]}
           /\ Score!InSpan \subseteq Score!InDay /\ Score!InDay \subseteq dayGaps
           /\ daySpan[1] \in Int /\ daySpan[2] \in Int
<1>1. daySpan[1] \in Int /\ daySpan[2] \in Int
  BY DEF ScoreInv
<1>2. /\ Score!InDay = {g \in dayGaps : g.window[1] < ScoredDay[2] /\ g.window[2] > ScoredDay[1]}
      /\ daySpan = <<0, -1>> => Score!InSpan = {}
      /\ daySpan # <<0, -1>> =>
            Score!InSpan = {g \in Score!InDay : g.window[1] < daySpan[2] /\ g.window[2] > daySpan[1]}
  BY ScoreConstants DEF Score!InDay, Score!InSpan, Score!Overlaps, Score!Begin, Score!End
<1> QED BY <1>1, <1>2

(* What is excluded from the day is the ticks of the span in a gap.        *)
LEMMA ExcludedIsTicks ==
    ASSUME Score!ScoreAssumption, ScoreInv
    PROVE  LET out == (GapTime(Score!InSpan) \cap (daySpan[1]..(daySpan[2] - 1)))
                         \cap (ScoredDay[1]..(ScoredDay[2] - 1))
           IN  /\ Score!ExcludedFromDay = Cardinality(out) /\ IsFiniteSet(out)
               /\ Score!Denominator = IF (ScoredDay[2] - ScoredDay[1]) - Cardinality(out) > 1
                                      THEN (ScoredDay[2] - ScoredDay[1]) - Cardinality(out) ELSE 1
<1> DEFINE out == (GapTime(Score!InSpan) \cap (daySpan[1]..(daySpan[2] - 1)))
                         \cap (ScoredDay[1]..(ScoredDay[2] - 1))
<1>1. Score!InSpan \subseteq dayGaps /\ Records /\ daySpan[1] \in Int /\ daySpan[2] \in Int
  BY RecordsInScope DEF ScoreInv
<1> DEFINE R == Score!InSpan
<1> HIDE DEF R
<1>2. /\ IsFiniteSet(GapTime(R))
      /\ Score!TotalLength(Score!Clip(Score!SpanWindows(R), ScoredDay[1], ScoredDay[2]))
           = Cardinality((GapTime(R) \cap (daySpan[1]..(daySpan[2] - 1)))
                           \cap (ScoredDay[1]..(ScoredDay[2] - 1)))
  <2>1. R \subseteq dayGaps
    BY <1>1 DEF R
  <2> QED BY <1>1, <2>1, RecordTotals
<1>3. Score!ExcludedFromDay = Cardinality(out)
  BY <1>2 DEF Score!ExcludedFromDay, Score!Begin, Score!End, R
<1>4. IsFiniteSet(out)
  BY <1>2, FS_Subset DEF R
<1> HIDE DEF out
<1>5. Score!Denominator = IF (ScoredDay[2] - ScoredDay[1]) - Cardinality(out) > 1
                          THEN (ScoredDay[2] - ScoredDay[1]) - Cardinality(out) ELSE 1
  BY <1>3 DEF Score!Denominator, Score!Length, Score!Begin, Score!End
<1> QED BY <1>3, <1>4, <1>5 DEF out

(* What is credited and what is excluded are apart, and inside the day:    *)
(* with any other ticks of the day they never come to more than the day.   *)
LEMMA DayIsShared ==
    ASSUME Score!ScoreAssumption, ScoreInv, NEW free,
           free \subseteq ScoredDay[1]..(ScoredDay[2] - 1), free \cap trusted = {},
           free \cap GapTime(Score!InSpan) = {}
    PROVE  /\ IsFiniteSet(free) /\ Score!ExcludedFromDay \in Nat /\ covered \in Nat
           /\ Cardinality(free) \in Nat
           /\ covered + Score!ExcludedFromDay + Cardinality(free) <= ScoredDay[2] - ScoredDay[1]
<1> DEFINE D == ScoredDay[1]..(ScoredDay[2] - 1)
           good == trusted \ GapTime(dayGaps)
           out == (GapTime(Score!InSpan) \cap (daySpan[1]..(daySpan[2] - 1))) \cap D
<1>0. ScoredDay[1] \in Nat /\ ScoredDay[2] \in Nat /\ ScoredDay[1] < ScoredDay[2]
  BY ScoreConstants
<1>1. IsFiniteSet(D) /\ Cardinality(D) = ScoredDay[2] - ScoredDay[1]
  <2>1. PICK a \in Int : a = ScoredDay[1]
    BY <1>0
  <2>2. PICK b \in Int : b = ScoredDay[2] - 1
    BY <1>0
  <2>3. IsFiniteSet(a..b) /\ Cardinality(a..b) = IF a > b THEN 0 ELSE b - a + 1
    BY FS_Interval
  <2> QED BY <1>0, <2>1, <2>2, <2>3
<1>2. Score!ExcludedFromDay = Cardinality(out) /\ covered = Cardinality(good)
  BY ExcludedIsTicks DEF ScoreInv
<1>3. good \subseteq D
  <2>1. trusted = {} \/ (/\ lastEvent \in Int /\ lastEvent <= now /\ now < ScoredDay[2] /\ now \in Int
                         /\ trusted \subseteq ScoredDay[1]..(lastEvent - 1))
    BY DEF ScoreInv
  <2> QED BY <1>0, <2>1
<1>4. out \subseteq D /\ good \cap out = {}
  <2>1. GapTime(Score!InSpan) \subseteq GapTime(dayGaps)
    BY RecordsInScope DEF GapTime
  <2> QED BY <2>1
<1>5. free \cap good = {} /\ free \cap out = {} /\ free \subseteq D
  OBVIOUS
<1> HIDE DEF D, good, out
<1>6. IsFiniteSet(good) /\ IsFiniteSet(out) /\ IsFiniteSet(free)
  <2>1. \A T \in SUBSET D : IsFiniteSet(T)
    BY <1>1, FS_Subset
  <2> QED BY <1>3, <1>4, <1>5, <2>1
<1>7. IsFiniteSet(good \cup out) /\ Cardinality(good \cup out) = Cardinality(good) + Cardinality(out)
  <2>1. IsFiniteSet(good \cup out)
        /\ Cardinality(good \cup out) = Cardinality(good) + Cardinality(out) - Cardinality(good \cap out)
    BY <1>6, FS_Union
  <2>2. Cardinality(good \cap out) = 0
    BY <1>4, FS_EmptySet
  <2>3. Cardinality(good) \in Nat /\ Cardinality(out) \in Nat
    BY <1>6, FS_CardinalityType
  <2> QED BY <2>1, <2>2, <2>3
<1> DEFINE two == good \cup out
<1>8. two \cap free = {} /\ two \cup free \subseteq D
  BY <1>3, <1>4, <1>5
<1> HIDE DEF two
<1>9. Cardinality(two \cup free) = Cardinality(two) + Cardinality(free) - 0
  BY <1>6, <1>7, <1>8, FS_Union, FS_EmptySet DEF two
<1>10. Cardinality(two \cup free) <= Cardinality(D)
  BY <1>1, <1>8, FS_Subset
<1>11. Cardinality(good) \in Nat /\ Cardinality(out) \in Nat /\ Cardinality(free) \in Nat
  BY <1>6, FS_CardinalityType
<1>12. Cardinality(two) = Cardinality(good) + Cardinality(out)
  BY <1>7 DEF two
<1>13. Cardinality(good) + Cardinality(out) + Cardinality(free) <= ScoredDay[2] - ScoredDay[1]
  <2>1. Cardinality(good) + Cardinality(out) + Cardinality(free) - 0 = Cardinality(two \cup free)
    BY <1>9, <1>12
  <2>2. Cardinality(two \cup free) <= ScoredDay[2] - ScoredDay[1]
    BY <1>1, <1>10
  <2> QED BY <1>11, <2>1, <2>2
<1> QED BY <1>2, <1>6, <1>11, <1>13

(* The numerator is exact, and the account of the gaps too; coverage is at *)
(* most the whole day.                                                     *)
LEMMA GapsAreTicks ==
    ASSUME Score!ScoreAssumption, ScoreInv
    PROVE  Score!CreditIsExact /\ Score!CoverageAtMostFull /\ Score!GapTimeIsExact
<1>0. \A R : Score!GapTicks(R) = GapTime(R)
  BY DEF Score!GapTicks, Score!TicksOf, Score!Windows, Score!Ticks, Score!Begin, Score!End,
     GapTime, TicksIn
<1>1. Score!CreditIsExact
  BY <1>0, ScoreWindows DEF Score!CreditIsExact, ScoreInv
<1>2. Score!CoverageAtMostFull
  <2>1. /\ covered \in Nat /\ Score!ExcludedFromDay \in Nat
        /\ covered + Score!ExcludedFromDay + Cardinality({}) <= ScoredDay[2] - ScoredDay[1]
    BY DayIsShared
  <2>2. covered + Score!ExcludedFromDay + 0 <= ScoredDay[2] - ScoredDay[1]
    BY <2>1, FS_EmptySet
  <2>3. ScoredDay[1] \in Nat /\ ScoredDay[2] \in Nat
    BY ScoreConstants
  <2>4. Score!Denominator = IF (ScoredDay[2] - ScoredDay[1]) - Score!ExcludedFromDay > 1
                            THEN (ScoredDay[2] - ScoredDay[1]) - Score!ExcludedFromDay ELSE 1
    BY DEF Score!Denominator, Score!Length, Score!Begin, Score!End
  <2>5. covered <= Score!Denominator
    BY <2>1, <2>2, <2>3, <2>4
  <2> QED BY <2>5 DEF Score!CoverageAtMostFull
<1>3. ASSUME daySpan # <<0, -1>> PROVE Score!GapTimeInSpan = Cardinality(GapTime(dayGaps) \cap Score!SpanTicks)
  <2> DEFINE R == Score!InSpan
             S == daySpan[1]..(daySpan[2] - 1)
  <2>1. /\ R \subseteq dayGaps /\ Records /\ daySpan[1] \in Int /\ daySpan[2] \in Int
        /\ ScoredDay[1] <= daySpan[1] /\ daySpan[2] < ScoredDay[2]
        /\ ScoredDay[1] \in Int /\ ScoredDay[2] \in Int
    <3>1. ScoredDay[1] \in Int /\ ScoredDay[2] \in Int
      BY ScoreConstants
    <3> QED BY <1>3, <3>1, RecordsInScope DEF ScoreInv
  <2>2. GapTime(R) \cap S = GapTime(dayGaps) \cap S
    <3>1. ASSUME NEW x \in S, NEW g \in dayGaps, x \in TicksIn(g.window) PROVE g \in R
      <4>1. g.window[1] \in Int /\ g.window[2] \in Int
        BY <2>1, RecordWindows
      <4>2. g.window[1] < daySpan[2] /\ g.window[2] > daySpan[1]
            /\ g.window[1] < ScoredDay[2] /\ g.window[2] > ScoredDay[1]
        BY <2>1, <3>1, <4>1 DEF TicksIn
      <4> QED BY <1>3, <4>2, RecordsInScope
    <3> QED BY <2>1, <3>1 DEF GapTime
  <2>3. Score!GapTimeInSpan = Cardinality(GapTime(R) \cap S)
    BY <2>1, RecordTotals DEF Score!GapTimeInSpan
  <2>4. Score!SpanTicks = S
    BY DEF Score!SpanTicks, Score!Ticks, Score!Begin, Score!End
  <2> QED BY <2>2, <2>3, <2>4
<1>4. Score!GapTimeIsExact
  BY <1>0, <1>3, ScoreConstants, ScoreWindows DEF Score!GapTimeIsExact
<1> QED BY <1>1, <1>2, <1>4

(* The numbers of the account agree with each other.                       *)
LEMMA AccountAgrees ==
    ASSUME Score!ScoreAssumption, ScoreInv
    PROVE  Score!AccountsAgree
<1> SUFFICES ASSUME daySpan # <<0, -1>> PROVE Score!AccountsAgree
  BY ScoreConstants DEF Score!AccountsAgree
<1> DEFINE R == Score!InSpan
           O == Score!OutsideSpan
           S == daySpan[1]..(daySpan[2] - 1)
           D == ScoredDay[1]..(ScoredDay[2] - 1)
           T(X) == GapTime(X)
           ofKind(k) == {g \in R : g.kind = k}
           account == Score!AccountGaps
<1>0. \A X : Score!GapTicks(X) = T(X)
  BY DEF Score!GapTicks, Score!TicksOf, Score!Windows, Score!Ticks, Score!Begin, Score!End,
     GapTime, TicksIn
<1>1. /\ R \subseteq Score!InDay /\ Score!InDay \subseteq dayGaps /\ O = Score!InDay \ R
      /\ R = {g \in Score!InDay : g.window[1] < daySpan[2] /\ g.window[2] > daySpan[1]}
      /\ Records /\ daySpan[1] \in Int /\ daySpan[2] \in Int
  BY RecordsInScope DEF ScoreInv, Score!OutsideSpan
<1>2. \A g \in dayGaps : /\ g.window[1] \in Int /\ g.window[2] \in Int
                         /\ g.window[1] <= g.window[2] /\ g.kind \in {"feed", "downtime"}
  BY <1>1, RecordWindows
<1>3. \A X \in SUBSET dayGaps :
          /\ IsFiniteSet(T(X))
          /\ Score!TotalLength(Score!MergeWindows(Score!Windows(X))) = Cardinality(T(X))
          /\ Score!TotalLength(Score!SpanWindows(X)) = Cardinality(T(X) \cap S)
          /\ Score!TotalLength(Score!Clip(Score!SpanWindows(X), ScoredDay[1], ScoredDay[2]))
               = Cardinality((T(X) \cap S) \cap D)
  BY <1>1, RecordTotals
<1>4. /\ account.gapTime = Cardinality(T(R) \cap S)
      /\ \A k \in {"feed", "downtime"} : account.ofKind[k] = Cardinality(T(ofKind(k)) \cap S)
      /\ account.clipped = Cardinality(T(R)) - Cardinality(T(R) \cap S)
      /\ account.outsideTime = Cardinality(T(O))
      /\ account.excluded = Cardinality((T(R) \cap S) \cap D)
      /\ account.outside = Cardinality(O)
      /\ account.partly = Score!PartlyOutside
  <2>1. account = [gapTime |-> Score!GapTimeInSpan,
                   ofKind |-> [k \in {"feed", "downtime"} |-> Score!KindInSpan(k)],
                   partly |-> Score!PartlyOutside, clipped |-> Score!GapTimeClipped,
                   outside |-> Score!Cardinality(O),
                   outsideTime |-> Score!TotalLength(Score!MergeWindows(Score!Windows(O))),
                   excluded |-> Score!ExcludedFromDay]
    BY DEF Score!AccountGaps, Score!Kinds
  <2>2. R \in SUBSET dayGaps /\ O \in SUBSET dayGaps
    BY <1>1
  <2>3. ASSUME NEW k \in {"feed", "downtime"}
        PROVE  Score!KindInSpan(k) = Cardinality(T(ofKind(k)) \cap S)
    <3>1. Score!KindInSpan(k) = Score!TotalLength(Score!SpanWindows(ofKind(k)))
      BY DEF Score!KindInSpan
    <3>2. ofKind(k) \in SUBSET dayGaps
      BY <2>2
    <3> QED BY <1>3, <3>1, <3>2
  <2>4. Score!GapTimeInSpan = Cardinality(T(R) \cap S)
    BY <1>3, <2>2 DEF Score!GapTimeInSpan
  <2>5. Score!GapTimeClipped = Cardinality(T(R)) - Cardinality(T(R) \cap S)
    BY <1>3, <2>2, <2>4 DEF Score!GapTimeClipped
  <2>6. Score!ExcludedFromDay = Cardinality((T(R) \cap S) \cap D)
    BY <1>3, <2>2 DEF Score!ExcludedFromDay, Score!Begin, Score!End
  <2>7. Score!TotalLength(Score!MergeWindows(Score!Windows(O))) = Cardinality(T(O))
    BY <1>3, <2>2
  <2>8. Score!Cardinality(O) = Cardinality(O)
    BY ScoreWindows
  <2> HIDE DEF R, O, S, D, T, ofKind, account
  <2> QED BY <2>1, <2>3, <2>4, <2>5, <2>6, <2>7, <2>8
<1>5. IsFiniteSet(R) /\ IsFiniteSet(O) /\ IsFiniteSet(T(R)) /\ IsFiniteSet(T(O))
  <2>1. \A X \in SUBSET dayGaps : IsFiniteSet(X)
    BY <1>1, FS_Subset DEF Records
  <2> QED BY <1>1, <1>3, <2>1
<1> DEFINE late == {g \in R : g.window[1] < daySpan[1] \/ g.window[2] > daySpan[2]}
<1>6. Score!PartlyOutside = Cardinality(late)
  BY ScoreWindows DEF Score!PartlyOutside, Score!Begin, Score!End
<1>7. late = {} <=> T(R) \subseteq S
  <2>1. ASSUME NEW g \in late PROVE \E x \in T(R) : x \notin S
    <3>1. g \in R /\ g.window[1] \in Int /\ g.window[2] \in Int
          /\ g.window[1] < daySpan[2] /\ g.window[2] > daySpan[1]
          /\ (g.window[1] < daySpan[1] \/ g.window[2] > daySpan[2])
      BY <1>1, <1>2
    <3>2. CASE g.window[1] < daySpan[1]
      <4>1. g.window[1] \in TicksIn(g.window) /\ g.window[1] \notin S
        BY <1>1, <3>1, <3>2 DEF TicksIn
      <4> QED BY <3>1, <4>1 DEF GapTime
    <3>3. CASE g.window[2] > daySpan[2]
      <4>1. g.window[2] - 1 \in TicksIn(g.window) /\ g.window[2] - 1 \notin S
        BY <1>1, <3>1, <3>3 DEF TicksIn
      <4> QED BY <3>1, <4>1 DEF GapTime
    <3> QED BY <3>1, <3>2, <3>3
  <2>2. ASSUME NEW x \in T(R), x \notin S PROVE \E g \in R : g \in late
    <3>1. PICK g \in R : x \in TicksIn(g.window)
      BY DEF GapTime
    <3>2. g.window[1] \in Int /\ g.window[2] \in Int
      BY <1>1, <1>2
    <3>3. g.window[1] < daySpan[1] \/ g.window[2] > daySpan[2]
      BY <1>1, <2>2, <3>1, <3>2 DEF TicksIn
    <3> QED BY <3>1, <3>3
  <2> HIDE DEF late, S, T
  <2> QED BY <2>1, <2>2 DEF late
<1>8. T(ofKind("feed")) \cup T(ofKind("downtime")) = T(R) /\ \A k : T(ofKind(k)) \subseteq T(R)
  <2>1. \A g \in R : g.kind \in {"feed", "downtime"}
    BY <1>1, <1>2
  <2> HIDE DEF R
  <2> QED BY <2>1 DEF GapTime
<1>9. T(Score!InDay) = T(R) \cup T(O)
  BY <1>1 DEF GapTime
<1>10. T(O) \cap S = {}
  <2> SUFFICES ASSUME NEW g \in O, NEW x \in TicksIn(g.window), x \in S PROVE FALSE
    BY DEF GapTime
  <2>1. g.window[1] \in Int /\ g.window[2] \in Int /\ g \in Score!InDay /\ g \notin R
    BY <1>1, <1>2
  <2>2. g.window[1] < daySpan[2] /\ g.window[2] > daySpan[1]
    BY <1>1, <2>1 DEF TicksIn
  <2> QED BY <1>1, <2>1, <2>2
<1>11. Score!SpanTicks = S
  BY DEF Score!SpanTicks, Score!Ticks, Score!Begin, Score!End
<1>12. /\ IsFiniteSet(late)
       /\ IsFiniteSet(T(R) \cap S) /\ IsFiniteSet((T(R) \cap S) \cap D)
       /\ \A k : IsFiniteSet(T(ofKind(k)) \cap S)
  <2>1. \A X : \A Y \in SUBSET X : IsFiniteSet(X) => IsFiniteSet(Y)
    BY FS_Subset
  <2>2. late \subseteq R /\ T(R) \cap S \subseteq T(R) /\ (T(R) \cap S) \cap D \subseteq T(R)
        /\ \A k : T(ofKind(k)) \cap S \subseteq T(R)
    BY <1>8
  <2> HIDE DEF R, T, S, D, late, ofKind
  <2> QED BY <1>5, <2>1, <2>2
<1> HIDE DEF R, O, S, D, T, ofKind, account, late
<1>13. account.clipped > 0 <=> account.partly > 0
  <2>1. Cardinality(T(R) \ S) = Cardinality(T(R)) - Cardinality(T(R) \cap S) /\ IsFiniteSet(T(R) \ S)
    BY <1>5, FS_Difference
  <2>2. Cardinality(late) \in Nat /\ (Cardinality(late) = 0 <=> late = {})
    BY <1>12, FS_CardinalityType, FS_EmptySet
  <2>3. Cardinality(T(R) \ S) \in Nat /\ (Cardinality(T(R) \ S) = 0 <=> T(R) \ S = {})
    BY <2>1, FS_CardinalityType, FS_EmptySet
  <2>4. T(R) \ S = {} <=> late = {}
    BY <1>7
  <2>5. Cardinality(late) > 0 <=> Cardinality(T(R) \ S) > 0
    BY <2>2, <2>3, <2>4
  <2>6. account.clipped = Cardinality(T(R) \ S) /\ account.partly = Cardinality(late)
    BY <1>4, <1>6, <2>1
  <2> QED BY <2>5, <2>6
<1>14. ASSUME NEW k \in {"feed", "downtime"} PROVE account.ofKind[k] <= account.gapTime
  <2>1. T(ofKind(k)) \cap S \in SUBSET (T(R) \cap S)
    BY <1>8
  <2>2. Cardinality(T(ofKind(k)) \cap S) <= Cardinality(T(R) \cap S)
    BY <1>12, <2>1, FS_Subset
  <2> QED BY <1>4, <2>2
<1>15. account.gapTime <= account.ofKind["feed"] + account.ofKind["downtime"]
  <2> DEFINE A == T(ofKind("feed")) \cap S
             B == T(ofKind("downtime")) \cap S
  <2>1. T(R) \cap S = A \cup B /\ IsFiniteSet(A) /\ IsFiniteSet(B)
    BY <1>8, <1>12
  <2>2. account.ofKind["feed"] = Cardinality(A) /\ account.ofKind["downtime"] = Cardinality(B)
        /\ account.gapTime = Cardinality(T(R) \cap S)
    BY <1>4
  <2> HIDE DEF A, B
  <2>3. Cardinality(A \cup B) = Cardinality(A) + Cardinality(B) - Cardinality(A \cap B)
        /\ IsFiniteSet(A \cap B)
    BY <2>1, FS_Union, FS_Subset
  <2>4. Cardinality(A) \in Nat /\ Cardinality(B) \in Nat /\ Cardinality(A \cap B) \in Nat
    BY <2>1, <2>3, FS_CardinalityType
  <2>5. Cardinality(A \cup B) <= Cardinality(A) + Cardinality(B)
    BY ONLY <2>3, <2>4
  <2>6. account.gapTime = Cardinality(A \cup B)
    BY <2>1, <2>2
  <2> QED BY ONLY <2>2, <2>5, <2>6
<1>16. Cardinality(T(Score!InDay)) <= account.gapTime + account.clipped + account.outsideTime
  <2>1. Cardinality(T(R) \cup T(O)) = Cardinality(T(R)) + Cardinality(T(O)) - Cardinality(T(R) \cap T(O))
        /\ IsFiniteSet(T(R) \cap T(O))
    BY <1>5, FS_Union, FS_Subset
  <2>2. Cardinality(T(R)) \in Nat /\ Cardinality(T(O)) \in Nat /\ Cardinality(T(R) \cap T(O)) \in Nat
        /\ Cardinality(T(R) \cap S) \in Nat
    BY <1>5, <1>12, <2>1, FS_CardinalityType
  <2>3. Cardinality(T(Score!InDay))
          = Cardinality(T(R)) + Cardinality(T(O)) - Cardinality(T(R) \cap T(O))
    BY <1>9, <2>1
  <2> QED BY <1>4, <2>2, <2>3
<1>17. account.excluded <= account.gapTime
  <2>1. (T(R) \cap S) \cap D \in SUBSET (T(R) \cap S)
    OBVIOUS
  <2>2. Cardinality((T(R) \cap S) \cap D) <= Cardinality(T(R) \cap S)
    BY <1>12, <2>1, FS_Subset
  <2> QED BY <1>4, <2>2
<1>18. account.outside = 0 => account.outsideTime = 0
  <2> SUFFICES ASSUME account.outside = 0 PROVE account.outsideTime = 0
    OBVIOUS
  <2>1. O = {}
    BY <1>4, <1>5, FS_EmptySet
  <2>2. T(O) = {}
    BY <2>1 DEF T, GapTime
  <2> QED BY <1>4, <2>2, FS_EmptySet
<1>19. /\ Cardinality(T(Score!InDay)) = Score!Cardinality(Score!GapTicks(Score!InDay))
       /\ Score!GapTicks(O) \cap Score!SpanTicks = {}
  BY <1>0, <1>10, <1>11, ScoreWindows
<1> QED BY <1>13, <1>14, <1>15, <1>16, <1>17, <1>18, <1>19 DEF Score!AccountsAgree, Score!Kinds, account, O

(* Coverage above the threshold leaves less than the shortfall of a day.   *)
LEMMA ShortfallBounds ==
    ASSUME NEW whole \in Nat, NEW good \in Nat, NEW out \in Nat, NEW free \in Nat,
           NEW most \in Nat \ {0}, NEW least \in Nat, least <= most, free > 0,
           good + out + free <= whole, good * most >= least * (whole - out)
    PROVE  free <= (whole * (most - least)) \div most
<1>1. PICK rest \in Nat : rest = whole - out
  OBVIOUS
<1>2. PICK spare \in Nat : spare = most - least
  OBVIOUS
<1>3. rest <= whole /\ good <= rest - free /\ least = most - spare
  BY <1>1, <1>2
<1>4. good * most <= (rest - free) * most
  BY <1>3
<1>5. least * rest = rest * most - rest * spare
  BY <1>3
<1>6. (rest - free) * most = rest * most - free * most
  OBVIOUS
<1>7. free * most <= rest * spare
  <2>1. PICK a \in Int : a = good * most
    OBVIOUS
  <2>2. PICK b \in Int : b = rest * most
    OBVIOUS
  <2>3. PICK c \in Int : c = free * most
    OBVIOUS
  <2>4. PICK d \in Int : d = rest * spare
    OBVIOUS
  <2>5. PICK e \in Int : e = least * rest
    OBVIOUS
  <2>6. a >= e /\ a <= b - c /\ e = b - d
    BY <1>1, <1>4, <1>5, <1>6, <2>1, <2>2, <2>3, <2>4, <2>5
  <2>7. c <= d
    BY ONLY <2>6
  <2> QED BY <2>3, <2>4, <2>7
<1>8. rest * spare <= whole * spare
  BY <1>3
<1>9. free * most <= whole * spare
  <2>1. free * most \in Int /\ rest * spare \in Int /\ whole * spare \in Int
    OBVIOUS
  <2> QED BY ONLY <1>7, <1>8, <2>1
<1>10. PICK product \in Nat : product = whole * spare
  OBVIOUS
<1>11. free <= product \div most
  <2>1. free * most <= product
    BY <1>9, <1>10
  <2>2. PICK q \in Int : q = product \div most
    OBVIOUS
  <2>3. product < (q + 1) * most
    BY <2>2
  <2>4. CASE free <= q
    BY <2>2, <2>4
  <2>5. CASE q + 1 <= free
    <3>1. (q + 1) * most <= free * most
      BY <2>5
    <3>2. (q + 1) * most \in Int /\ free * most \in Int
      OBVIOUS
    <3> QED BY ONLY <2>1, <2>3, <3>1, <3>2, product \in Nat
  <2> QED BY <2>2, <2>4, <2>5
<1> QED BY <1>2, <1>10, <1>11

(* The two criteria of a passing day close every hole between them.        *)
LEMMA SilenceIsLogged ==
    ASSUME Score!ScoreAssumption, Score!CadenceAssumption, ScoreInv, StreamInv
    PROVE  Score!LongSilenceIsLogged
<1> DEFINE first == ScoredDay[1]
           last == ScoredDay[2]
<1>0. first \in Nat /\ last \in Nat /\ first < last
  BY ScoreConstants
<1>1. /\ StaleAfter \in Nat /\ SilentAfter \in Nat /\ StaleAfter <= SilentAfter
      /\ Scale \in Nat /\ Threshold \in Nat /\ 0 < Threshold /\ Threshold <= Scale
  BY DEF Score!CadenceAssumption
<1> SUFFICES ASSUME stream, Score!Passed, NEW w \in Score!Stretches,
                    Score!Length(w) > SilentAfter, Score!Length(w) > Score!Shortfall,
                    \A g \in Score!InSpan : ~Score!Overlaps(g.window, w[1], w[2])
             PROVE  FALSE
  BY DEF Score!LongSilenceIsLogged, Score!Begin, Score!End
<1>2. /\ w = <<w[1], w[2]>> /\ w[1] < w[2]
      /\ w[1] \in snaps \cup {first, last} /\ w[2] \in snaps \cup {first, last}
      /\ \A t \in snaps : t <= w[1] \/ t >= w[2]
  BY DEF Score!Stretches, Score!Marks, Score!Begin, Score!End
<1>3. /\ snaps \subseteq first..now /\ now \in Int /\ now < last
  BY DEF StreamInv, ScoreInv
<1>4. /\ w[1] \in Int /\ w[2] \in Int /\ first <= w[1] /\ w[2] <= last
      /\ \A s \in snaps : s \in Int /\ first <= s /\ s < last
  BY <1>0, <1>2, <1>3
<1>5. w[2] - w[1] > SilentAfter /\ w[2] - w[1] > Score!Shortfall
  BY DEF Score!Length, Score!Begin, Score!End
<1>6. CASE w[1] \in snaps /\ w[2] \in snaps
  <2>1. w \in stale
    <3>1. w[2] - w[1] > StaleAfter
      BY <1>1, <1>4, <1>5
    <3> QED BY <1>2, <1>6, <3>1 DEF StreamInv
  <2>2. w \in Score!Silent
    BY <2>1 DEF Score!Silent, Score!Unexplained, Score!Explains, Score!Begin, Score!End
  <2> QED BY <2>2 DEF Score!Passed
<1>7. CASE w[1] \notin snaps \/ w[2] \notin snaps
  <2> DEFINE free == w[1]..(w[2] - 1)
  <2>1. free \cap trusted = {}
    <3> SUFFICES ASSUME NEW x \in free, x \in trusted PROVE FALSE
      OBVIOUS
    <3>1. x \in Int /\ w[1] <= x /\ x < w[2]
      BY <1>4
    <3>2. (\E s \in snaps : s <= x) /\ (\E s \in snaps : x < s)
      BY DEF StreamInv
    <3>3. PICK s \in snaps : s <= x
      BY <3>2
    <3>4. PICK t \in snaps : x < t
      BY <3>2
    <3>5. s <= w[1] /\ t >= w[2]
      BY <1>2, <1>4, <3>1, <3>3, <3>4
    <3>6. CASE w[1] \notin snaps
      BY <1>0, <1>2, <1>4, <3>5, <3>6
    <3>7. CASE w[2] \notin snaps
      BY <1>0, <1>2, <1>4, <3>5, <3>7
    <3> QED BY <1>7, <3>6, <3>7
  <2>2. free \cap GapTime(Score!InSpan) = {}
    <3> SUFFICES ASSUME NEW g \in Score!InSpan, NEW x \in TicksIn(g.window), x \in free PROVE FALSE
      BY DEF GapTime
    <3>1. g.window[1] \in Int /\ g.window[2] \in Int
      BY RecordsInScope, RecordWindows DEF ScoreInv
    <3>2. g.window[1] < w[2] /\ g.window[2] > w[1]
      BY <1>4, <3>1 DEF TicksIn
    <3> QED BY <3>2 DEF Score!Overlaps, Score!Begin, Score!End
  <2>3. free \subseteq first..(last - 1)
    BY <1>0, <1>4
  <2>4. Cardinality(free) = w[2] - w[1]
    <3>1. PICK a \in Int : a = w[1]
      BY <1>4
    <3>2. PICK b \in Int : b = w[2] - 1
      BY <1>4
    <3>3. IsFiniteSet(a..b) /\ Cardinality(a..b) = IF a > b THEN 0 ELSE b - a + 1
      BY FS_Interval
    <3> QED BY <1>2, <1>4, <3>1, <3>2, <3>3
  <2> HIDE DEF free
  <2>5. /\ Score!ExcludedFromDay \in Nat /\ covered \in Nat /\ Cardinality(free) \in Nat
        /\ covered + Score!ExcludedFromDay + Cardinality(free) <= last - first
    BY <2>1, <2>2, <2>3, DayIsShared
  <2>6. PICK gone \in Nat : gone = Score!ExcludedFromDay
    BY <2>5
  <2>7. PICK long \in Nat : long = w[2] - w[1]
    BY <2>4, <2>5
  <2>8. PICK whole \in Nat : whole = last - first
    BY <1>0
  <2>9. covered \in Nat /\ covered + gone + long <= whole /\ long > 0
    BY <1>2, <1>4, <2>4, <2>5, <2>6, <2>7, <2>8
  <2>10. Score!Denominator = whole - gone
    <3>1. Score!Denominator = IF whole - gone > 1 THEN whole - gone ELSE 1
      BY <2>6, <2>8 DEF Score!Denominator, Score!Length, Score!Begin, Score!End
    <3> QED BY <2>9, <3>1
  <2>11. covered * Scale >= Threshold * (whole - gone)
    BY <2>10 DEF Score!Passed, Score!Covered
  <2>12. Scale \in Nat \ {0}
    BY <1>1
  <2>13. long <= (whole * (Scale - Threshold)) \div Scale
    BY <1>1, <2>9, <2>11, <2>12, ShortfallBounds
  <2>14. Score!Shortfall = (whole * (Scale - Threshold)) \div Scale
    BY <2>8 DEF Score!Shortfall, Score!Length, Score!Begin, Score!End
  <2>15. (whole * (Scale - Threshold)) \div Scale \in Int
    BY <1>1, <2>12
  <2> QED BY <1>5, <2>7, <2>13, <2>14, <2>15
<1> QED BY <1>6, <1>7

-----------------------------------------------------------------------------
(***************************************************************************)
(* The parts together: a part that does not run keeps its invariant.       *)
(***************************************************************************)

(* Before the first record every part's books are in order.                *)
LEMMA ValidationBegins == ASSUME ValidationInit PROVE LedgerInv /\ WarmInv /\ WholeInv
<1>1. gaps \subseteq GapChoices /\ span = NoSpan /\ marks = {} /\ verdict = Open /\ definite = 0 /\ near = {}
  BY DEF ValidationInit, Init, InitVerdict
<1>2. LedgerInv
  BY <1>1, FS_EmptySet DEF LedgerInv
<1>3. Warm!Init /\ Whole!Init
  BY DEF ValidationInit
<1> QED BY <1>2, <1>3, WarmBegins, WholeBegins, PartsAssumption

(* A step of the composition is a step of each part or leaves it alone.    *)
LEMMA PartsStep ==
    ASSUME [ValidationNext]_validationVars
    PROVE  [Next]_vars /\ [Warm!Next]_warmVars /\ [Whole!Next]_wholeVars
BY DEF ValidationNext, validationVars

(* A step of the composition is a message of the scored day or leaves its    *)
(* score alone.                                                              *)
LEMMA ScorePart ==
    ASSUME [ValidationNext]_validationVars
    PROVE  [Score!DayNext]_scoreVars
BY DEF ValidationNext, validationVars

(* So every step keeps every part's invariant.                             *)
LEMMA ValidationStep ==
    ASSUME LedgerInv, WarmInv, WholeInv, [ValidationNext]_validationVars
    PROVE  LedgerInv' /\ WarmInv' /\ WholeInv'
BY PartsStep, StepKeepsInv, WarmStep, WholeStep, VerdictAssumption, PartsAssumption

(* The ledger always holds exactly the anomalies that a gap may explain,   *)
(* and the number of the others; and the warm start and the run keep their *)
(* books.                                                                  *)
THEOREM PartsKeepBooks == ValidationSpec => [](LedgerInv /\ WarmInv /\ WholeInv)
<1>1. ValidationInit => LedgerInv /\ WarmInv /\ WholeInv
  BY ValidationBegins
<1>2. (LedgerInv /\ WarmInv /\ WholeInv) /\ [ValidationNext]_validationVars
          => (LedgerInv /\ WarmInv /\ WholeInv)'
  BY ValidationStep
<1> QED BY <1>1, <1>2, PTL DEF ValidationSpec

(* The report of the ledger is the verdict of judging every anomaly of the *)
(* day at its end: bounded memory costs no accuracy (replay.py: "semantics *)
(* are identical to evaluating everything at the end").                    *)
THEOREM LedgerImplementsVerdict == ValidationSpec => ImplementsVerdict
<1> DEFINE seen == <<gaps, span, marks, verdict>>
<1>1. ValidationInit => InitVerdict
  BY DEF ValidationInit, Init, InitVerdict
<1>2. LedgerInv /\ [ValidationNext]_validationVars => [NextVerdict]_seen
  <2> SUFFICES ASSUME LedgerInv, [Next]_vars
               PROVE  [NextVerdict]_seen
    BY PartsStep
  <2>1. CASE \E ts \in 0..MaxTime : ReplayQuiet(ts)
    BY <2>1 DEF ReplayQuiet, NextVerdict
  <2>2. CASE \E ts \in 0..MaxTime : \E n \in Number : ReplayAnomaly(n, ts)
    BY <2>2 DEF ReplayAnomaly, NextVerdict
  <2>3. CASE Report
    BY <2>3, CountsOnce DEF Report, Judge, NextVerdict
  <2>4. CASE UNCHANGED vars
    BY <2>4 DEF vars
  <2> QED
    BY <2>1, <2>2, <2>3, <2>4 DEF Next
<1> HIDE DEF seen
<1>3. Verdict <=> InitVerdict /\ [][NextVerdict]_seen
  BY DEF Verdict, seen
<1> QED
  BY <1>1, <1>2, <1>3, PartsKeepBooks, PTL DEF ValidationSpec, ImplementsVerdict

(* Where the replay of a day's books began never shows in them, and the    *)
(* day is scored on its own messages (warmup.py, validate_venue_day).      *)
THEOREM WarmStartDoesNotShow == ValidationSpec => []WarmStartInvisible
<1>1. WarmInv => WarmStartInvisible
  BY WarmPromise DEF WarmStartInvisible
<1> QED BY <1>1, PartsKeepBooks, PTL

(* Whatever fails, is skipped or dies, a section answers for all that was  *)
(* asked of its run, and a summary is of a reported section               *)
(* (validate/__main__.py, report_writer.py).                               *)
THEOREM ReportsAnswer == ValidationSpec => []ReportsAnswerForAll
<1>1. WholeInv => ReportsAnswerForAll
  BY DEF WholeInv, ReportsAnswerForAll
<1> QED BY <1>1, PartsKeepBooks, PTL

(* What is on disk and buffered is the cadence of the events so far, and   *)
(* the final path holds a whole day or nothing (emit.py, parquet_writer.py).*)
THEOREM RowsAreWhole == ValidationSpec => []RowsAreTheDay
<1>1. ValidationInit => RowsInv
  BY RowsBegin, PartsAssumption
<1>2. RowsInv /\ [ValidationNext]_validationVars => RowsInv'
  <2>1. [ValidationNext]_validationVars => [Rows!Next]_rowVars
    BY DEF ValidationNext, validationVars
  <2> QED BY <2>1, RowsStep, PartsAssumption
<1>3. RowsInv => RowsAreTheDay
  BY DEF RowsInv, RowsAreTheDay, Rows!RowsSoFar, Disk, Rows!FinalIsWholeDay
<1> QED BY <1>1, <1>2, <1>3, PTL DEF ValidationSpec

(* The numerator of coverage counts the ticks over which the book was valid  *)
(* and no gap record covers, the gap time of the span is its ticks inside a  *)
(* gap, coverage is at most the day, and the numbers of the account agree    *)
(* (replay.py: credit_outside_gaps, account_gaps).                           *)
THEOREM AccountsAreExact == ValidationSpec => []DayAccountsExact
<1>1. ValidationInit => ScoreInv
  BY ScoreBegins, PartsAssumption
<1>2. ScoreInv /\ [ValidationNext]_validationVars => ScoreInv'
  BY ScorePart, ScoreStep, PartsAssumption
<1>3. ScoreInv => DayAccountsExact
  BY GapsAreTicks, AccountAgrees, PartsAssumption DEF DayAccountsExact
<1> QED BY <1>1, <1>2, <1>3, PTL DEF ValidationSpec

(* A passing day of a snapshot stream has no long silence, between snapshots *)
(* or at an edge of the day, that no gap in scope meets: what the cadence    *)
(* does not see, coverage does (replay.py: the cadence check, FULL_DAY).     *)
THEOREM SilencesAreLogged == ValidationSpec => []LongSilenceIsLogged
<1>1. ValidationInit => ScoreInv /\ StreamInv
  BY ScoreBegins, PartsAssumption
<1>2. (ScoreInv /\ StreamInv) /\ [ValidationNext]_validationVars => (ScoreInv /\ StreamInv)'
  BY ScorePart, ScoreStep, StreamStep, PartsAssumption DEF Score!CadenceAssumption
<1>3. ScoreInv /\ StreamInv => LongSilenceIsLogged
  BY SilenceIsLogged, PartsAssumption DEF LongSilenceIsLogged
<1> QED BY <1>1, <1>2, <1>3, PTL DEF ValidationSpec
=============================================================================
