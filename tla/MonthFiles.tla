----------------------------- MODULE MonthFiles -----------------------------
(* Monthly archive files for a point-in-time universe: the symbols that       *)
(* traded most in the first month, each with every month it has, downloaded   *)
(* by a few threads into .partial files that are renamed when complete.       *)
(* Source: data/archive/universe.py, binance.py, series.py, http.py,          *)
(* manifest.py                                                                *)
EXTENDS Integers, FiniteSets, FiniteSetsExt, Functions

CONSTANTS Symbols, Months, Size,
          Pegged,       \* symbols whose base is a stablecoin or a wrapped asset
          Volume,       \* Volume[s]: what s traded in the first month
          Archives,     \* what the archive may hold: functions Symbols -> SUBSET Months
          Splices,      \* <<s, month>>: from that month s names another asset
          Retries, MaxThreads,
          MaxStops, MaxFaults   \* bounds: failed or killed runs, faults of the network

MonthsAssumption ==
  /\ Months \subseteq Nat /\ Months # {} /\ IsFiniteSet(Months)
  /\ Archives \subseteq [Symbols -> SUBSET Months] /\ Splices \subseteq Symbols \X Months

VARIABLES archive,    \* the months the archive has of each symbol
          phase,      \* select, history, done, loaded; failed or down between runs
          members, spans, \* the universe: symbols, each with its first and last period
          loaded,
          final, partial,  \* file per symbol and month: "none", "cut" or "whole"
          manifest,   \* the files that have a line
          job,        \* the download of a file: what its thread is at
          attempt, stops, faults,
          cutByNet, dropped \* history: bodies that ended early, lines lost to a kill
mvars == <<archive, phase, members, spans, loaded, final, partial, manifest, job, attempt, stops, faults, cutByNet, dropped>>
rest  == <<archive, members, spans, loaded, stops, dropped>>

First == Min(Months)
Files == Symbols \X Months
\* candidate_symbols, of everything listed.
Candidates == Symbols \ Pegged
\* The running phase maps fetch_month over these files.
Jobs == IF phase = "select" THEN Candidates \X {First}
        ELSE IF phase = "history" THEN members \X Months ELSE {}
Running == {f \in Files : job[f] \in {"asking", "streaming", "landed"}}
Ended   == {f \in Files : job[f] \in {"have", "nothing", "failed"}}

Fresh == /\ job' = [f \in Files |-> "todo"] /\ attempt' = [f \in Files |-> 0]
Init == /\ archive \in Archives /\ phase = "down" /\ members = {} /\ spans = <<>> /\ loaded = <<>>
        /\ final = [f \in Files |-> "none"] /\ partial = [f \in Files |-> "none"]
        /\ manifest = {} /\ cutByNet = {} /\ dropped = {}
        /\ job = [f \in Files |-> "todo"] /\ attempt = [f \in Files |-> 0]
        /\ stops = 0 /\ faults = 0

StartRun == /\ phase = "down" /\ phase' = "select" /\ members' = {} /\ spans' = <<>> /\ loaded' = <<>> /\ Fresh
            /\ UNCHANGED <<archive, final, partial, manifest, stops, faults, cutByNet, dropped>>

-----------------------------------------------------------------------------
\* fetch_month: a file that is there is taken; otherwise fetch_to_file starts.
StartJob(f) ==
  /\ f \in Jobs /\ job[f] = "todo" /\ Cardinality(Running) < MaxThreads
  /\ job' = [job EXCEPT ![f] = IF final[f] # "none" THEN "have" ELSE "asking"]
  /\ partial' = IF final[f] # "none" THEN partial ELSE [partial EXCEPT ![f] = "none"]
  /\ UNCHANGED <<phase, final, manifest, attempt, faults, cutByNet, rest>>

\* Mutant: the body is streamed into the final name.
AnswerInPlace(f) == /\ job[f] = "asking" /\ f[2] \in archive[f[1]]
                    /\ job' = [job EXCEPT ![f] = "streaming"] /\ final' = [final EXCEPT ![f] = "cut"]
                    /\ UNCHANGED <<phase, partial, manifest, attempt, faults, cutByNet, rest>>
\* A body begins: the .partial file exists, and holds less than the body.
Answer(f) == /\ job[f] = "asking" /\ f[2] \in archive[f[1]]
             /\ job' = [job EXCEPT ![f] = "streaming"] /\ partial' = [partial EXCEPT ![f] = "cut"]
             /\ UNCHANGED <<phase, final, manifest, attempt, faults, cutByNet, rest>>
\* 404: information, not retried.
NoSuchFile(f) == /\ job[f] = "asking" /\ f[2] \notin archive[f[1]]
                 /\ job' = [job EXCEPT ![f] = "nothing"]
                 /\ UNCHANGED <<phase, final, partial, manifest, attempt, faults, cutByNet, rest>>
GiveUp(f) == job' = [job EXCEPT ![f] = "failed"]
\* A transport error at any point of the attempt.
TransportFails(f) ==
  /\ job[f] \in {"asking", "streaming"} /\ faults < MaxFaults /\ faults' = faults + 1
  /\ partial' = [partial EXCEPT ![f] = "none"]
  /\ IF attempt[f] + 1 < Retries
     THEN /\ attempt' = [attempt EXCEPT ![f] = @ + 1] /\ job' = [job EXCEPT ![f] = "asking"]
     ELSE GiveUp(f) /\ UNCHANGED attempt
  /\ UNCHANGED <<phase, final, manifest, cutByNet, rest>>
\* read() returns b"" at the end of the body, wherever the connection ended it.
EndOfBody(f, content) ==
  /\ final' = [final EXCEPT ![f] = content] /\ partial' = [partial EXCEPT ![f] = "none"]
Land(f) ==
  /\ job[f] = "streaming" /\ job' = [job EXCEPT ![f] = "landed"]
  /\ \/ EndOfBody(f, "whole") /\ UNCHANGED <<faults, cutByNet>>
     \/ /\ faults < MaxFaults /\ faults' = faults + 1
        /\ EndOfBody(f, "cut") /\ cutByNet' = cutByNet \cup {f}
  /\ UNCHANGED <<phase, manifest, attempt, rest>>
Record(f) == /\ job[f] = "landed" /\ job' = [job EXCEPT ![f] = "have"]
             /\ manifest' = manifest \cup {f}
             /\ UNCHANGED <<phase, final, partial, attempt, faults, cutByNet, rest>>

-----------------------------------------------------------------------------
Had == {f \in Jobs : job[f] = "have"}
MapEnded == Jobs # {} /\ Jobs \subseteq Ended /\ \A f \in Jobs : job[f] # "failed"
Readable == \A f \in Had : final[f] = "whole"

\* The Size symbols that traded most, of those with a file and any volume.
Pool == {f[1] : f \in {g \in Had : Volume[g[1]] > 0}}
Ranked == {s \in Pool : Cardinality({r \in Pool : Volume[r] > Volume[s]}) < Size}
\* available_periods: what the archive's listing shows of a symbol.
AvailablePeriods(s) == archive[s]
\* build: rank on the first month's bars (a cut zip raises), then list periods.
Select == /\ phase = "select" /\ MapEnded /\ Readable
          /\ members' = Ranked /\ phase' = "history" /\ Fresh
          /\ spans' = [s \in Ranked |-> <<Min(AvailablePeriods(s)), Max(AvailablePeriods(s))>>]
          /\ UNCHANGED <<archive, loaded, final, partial, manifest, stops, faults, cutByNet, dropped>>
\* fetch_history has every file the archive has.
FetchedHistory == /\ phase = "history" /\ (MapEnded \/ members = {})
                  /\ phase' = "done"
                  /\ loaded' = [s \in members |-> {m \in Months : job[<<s, m>>] = "have"}]
                  /\ UNCHANGED <<archive, members, spans, final, partial, manifest, job, attempt, stops, faults, cutByNet, dropped>>
\* load_symbol reads the files on disk; one cut zip raises.
OnDisk(s) == {m \in Months : final[<<s, m>>] # "none"}
\* find_discontinuities: a bar against the bar before it, whatever lies between.
Spliced(s, months) ==
  \E m, earlier \in months :
    /\ earlier < m /\ \A n \in months : ~(earlier < n /\ n < m)
    /\ \E n \in (earlier + 1)..m : <<s, n>> \in Splices
\* build_matrix leaves out what has no bars and what is spliced.
LoadMatrix == /\ phase = "done"
              /\ \A s \in members : \A m \in Months : final[<<s, m>>] # "cut"
              /\ phase' = "loaded"
              /\ loaded' = [s \in {t \in members : OnDisk(t) # {} /\ ~Spliced(t, OnDisk(t))} |->
                              OnDisk(s)]
              /\ UNCHANGED <<archive, members, spans, final, partial, manifest, job, attempt, stops, faults, cutByNet, dropped>>

\* The error of a worker ends the run once the other threads have finished.
RunFails == /\ \/ Running = {} /\ \E f \in Jobs : job[f] = "failed"
               \/ phase = "select" /\ MapEnded   \* an unreadable zip, or a listing that fails
               \/ phase = "done" /\ \E s \in members, m \in Months : final[<<s, m>>] = "cut"
            /\ stops < MaxStops /\ stops' = stops + 1 /\ phase' = "down"
            /\ UNCHANGED <<archive, members, spans, loaded, final, partial, manifest, job, attempt, faults, cutByNet, dropped>>
\* The process is killed: .partial files stay, a landed file gets no line.
Crash == /\ phase \in {"select", "history"} /\ stops < MaxStops /\ stops' = stops + 1 /\ phase' = "down"
         /\ dropped' = dropped \cup {f \in Files : job[f] = "landed"}
         /\ Fresh
         /\ UNCHANGED <<archive, members, spans, loaded, final, partial, manifest, faults, cutByNet>>

Download(f) == StartJob(f) \/ Answer(f) \/ NoSuchFile(f) \/ TransportFails(f) \/ Land(f) \/ Record(f)
Next == \/ StartRun \/ Select \/ FetchedHistory \/ LoadMatrix \/ RunFails \/ Crash
        \/ \E f \in Files : Download(f)
Spec == Init /\ [][Next]_mvars

-----------------------------------------------------------------------------
OneAsset(s) == \A m, n \in archive[s] : \A k \in Months :
                 m < k /\ k <= n => <<s, k>> \notin Splices
Traded == {s \in Symbols \ Pegged : First \in archive[s] /\ Volume[s] > 0}
\* Universe.deaths: the members whose bars stop before the sample ends.
Deaths == {s \in members : spans[s][2] < Max(Months)}

(* A finished history is the archive's: the members are the Size most traded  *)
(* of the first month among all symbols then listed, and each has exactly the *)
(* months the archive has, so that a month is missing only where the symbol   *)
(* did not trade and never because a download failed; the matrix keeps the    *)
(* members whose months are all of one asset, even across a hole.  The        *)
(* members called dead are those whose loaded months stop early.              *)
HistoryIsTheArchives ==
  phase \in {"done", "loaded"} =>
    /\ members = {s \in Traded : Cardinality({r \in Traded : Volume[r] > Volume[s]}) < Size}
    /\ \A s \in DOMAIN loaded : loaded[s] = archive[s]
    /\ \A s \in DOMAIN loaded : s \in Deaths <=> Max(Months) \notin loaded[s]
    /\ DOMAIN loaded = IF phase = "done" THEN members ELSE {s \in members : OneAsset(s)}

(* A file under its final name is complete unless the network ended its body  *)
(* early, and has a manifest line unless it just landed or a kill came first; *)
(* no line speaks of a file that is not there.                                *)
FinalsVouchedFor ==
  /\ \A f \in Files : final[f] # "none" =>
       /\ final[f] = "whole" \/ f \in cutByNet
       /\ f \in manifest \cup dropped \/ job[f] = "landed"
  /\ \A f \in manifest : final[f] # "none"

(* Stated by http.py ("a half-written file that keeps its final name is      *)
(* indistinguishable from a complete one"), and broken by a body that ends    *)
(* early: no file under its final name is cut.                                *)
NoHalfFileUnderFinalName == \A f \in Files : final[f] # "cut"
=============================================================================
