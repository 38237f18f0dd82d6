-------------------------- MODULE Acquisition_proof --------------------------
(***************************************************************************)
(* What MCAcquisition checks of the funding pages, of the archives'        *)
(* histories, of the vendor purchases, of the days of a vendor file and of *)
(* the trade files, proved for every value of its constants: any coins,    *)
(* page lengths, symbols, months, threads, retries, buyers, files, prices, *)
(* cap, records, rolls, thresholds, venues, reconnects and runs.  Each     *)
(* part has an inductive invariant; a step of the composition is a step of *)
(* the part or leaves it alone.                                            *)
(***************************************************************************)
EXTENDS MCAcquisition, DataLemmas
-----------------------------------------------------------------------------
(* Why no file is without its line: a file that landed stays landed until its *)
(* line is written or a kill comes, because a phase ends only when every job  *)
(* of it has ended, and only jobs of the phase are at work.                   *)
JobStates == {"todo", "asking", "streaming", "landed", "have", "nothing", "failed"}
AtWork(f) == job[f] \in {"asking", "streaming", "landed"}
VouchedInv ==
  /\ job \in [Archives!Files -> JobStates] /\ whole \in [Archives!Files -> {"none", "cut", "whole"}]
  /\ \A f \in Archives!Files : AtWork(f) => phase \in {"select", "history"} /\ f \in Archives!Jobs
  /\ \A f \in Archives!Files : job[f] = "landed" => whole[f] # "none"
  /\ manifest \subseteq Archives!Files
  /\ Archives!FinalsVouchedFor

(* When the map over a phase's files has ended, no job is at work.            *)
LEMMA EndedMeansIdle == ASSUME VouchedInv, Archives!Jobs \subseteq Archives!Ended PROVE \A f \in Archives!Files : ~AtWork(f)
BY DEF VouchedInv, Archives!Ended, AtWork

(* A step that keeps the files and leaves no job at work.                     *)
LEMMA IdleKeepsInv ==
  ASSUME VouchedInv, \A f \in Archives!Files : ~AtWork(f), UNCHANGED <<whole, manifest, cutByNet, dropped>>,
         job' = job \/ Archives!Fresh
  PROVE  VouchedInv'
<1>1. job' \in [Archives!Files -> JobStates] /\ \A f \in Archives!Files : ~AtWork(f)'
  BY DEF VouchedInv, Archives!Fresh, AtWork, JobStates
<1> QED
  BY <1>1 DEF VouchedInv, Archives!FinalsVouchedFor, AtWork

(* The steps of one download.                                                 *)
LEMMA DownloadKeepsInv ==
  ASSUME VouchedInv, NEW f \in Archives!Files, Archives!Download(f) PROVE VouchedInv'
<1>1. UNCHANGED <<phase, members, dropped>> /\ Archives!Jobs' = Archives!Jobs
  BY DEF Archives!Download, Archives!StartJob, Archives!Answer, Archives!NoSuchFile, Archives!TransportFails, Archives!Land, Archives!Record, Archives!rest, Archives!Jobs
<1>2. CASE Archives!StartJob(f) \/ Archives!Answer(f) \/ Archives!NoSuchFile(f) \/ Archives!TransportFails(f)
  <2>1. /\ UNCHANGED <<whole, manifest, cutByNet>>
        /\ \E stage1 \in JobStates \ {"landed"} : job' = [job EXCEPT ![f] = stage1]
        /\ job[f] # "landed" /\ (AtWork(f) \/ (f \in Archives!Jobs /\ phase \in {"select", "history"}))
    <3>1. CASE Archives!StartJob(f)
      BY <3>1 DEF Archives!StartJob, JobStates, Archives!Jobs
    <3>2. CASE Archives!Answer(f) \/ Archives!NoSuchFile(f)
      BY <3>2 DEF Archives!Answer, Archives!NoSuchFile, AtWork, JobStates
    <3>3. CASE Archives!TransportFails(f)
      <4>1. job' = [job EXCEPT ![f] = "asking"] \/ job' = [job EXCEPT ![f] = "failed"]
        BY <3>3 DEF Archives!TransportFails, Archives!GiveUp
      <4> QED
        BY <3>3, <4>1 DEF Archives!TransportFails, AtWork, JobStates
    <3> QED
      BY <1>2, <3>1, <3>2, <3>3
  <2> QED
    BY <1>1, <2>1 DEF VouchedInv, Archives!FinalsVouchedFor, AtWork
<1>3. CASE Archives!Land(f)
  <2>1. /\ job' = [job EXCEPT ![f] = "landed"] /\ AtWork(f) /\ manifest' = manifest
        /\ \E held \in {"cut", "whole"} :
              /\ whole' = [whole EXCEPT ![f] = held]
              /\ cutByNet' = IF held = "cut" THEN cutByNet \cup {f} ELSE cutByNet
    BY <1>3 DEF Archives!Land, Archives!EndOfBody, AtWork
  <2> QED
    BY <1>1, <2>1 DEF VouchedInv, Archives!FinalsVouchedFor, AtWork, JobStates
<1>4. CASE Archives!Record(f)
  BY <1>1, <1>4 DEF Archives!Record, VouchedInv, Archives!FinalsVouchedFor, AtWork, JobStates
<1> QED
  BY <1>2, <1>3, <1>4 DEF Archives!Download

(* A step of the job keeps the invariant, whatever it fetches.                *)
LEMMA ArchivesStepKeepsInv == ASSUME VouchedInv, [Archives!Next]_(Archives!mvars) PROVE VouchedInv'
<1>1. CASE Archives!StartRun \/ Archives!LoadMatrix
  <2>1. \A f \in Archives!Files : ~AtWork(f)
    BY <1>1 DEF Archives!StartRun, Archives!LoadMatrix, VouchedInv
  <2> QED
    BY <1>1, <2>1, IdleKeepsInv DEF Archives!StartRun, Archives!LoadMatrix
<1>2. CASE Archives!Select \/ Archives!FetchedHistory
  <2>1. Archives!Jobs \subseteq Archives!Ended
    BY <1>2 DEF Archives!Select, Archives!FetchedHistory, Archives!MapEnded, Archives!Jobs
  <2> QED
    BY <1>2, <2>1, EndedMeansIdle, IdleKeepsInv DEF Archives!Select, Archives!FetchedHistory
<1>3. CASE Archives!RunFails
  <2>1. \A f \in Archives!Files : ~AtWork(f)
    <3>1. CASE Archives!Running = {}
      BY <3>1 DEF Archives!Running, AtWork
    <3>2. CASE phase = "select" /\ Archives!MapEnded
      BY <3>2, EndedMeansIdle DEF Archives!MapEnded
    <3>3. CASE phase = "done"
      BY <3>3 DEF VouchedInv
    <3> QED
      BY <1>3, <3>1, <3>2, <3>3 DEF Archives!RunFails
  <2> QED
    BY <1>3, <2>1, IdleKeepsInv DEF Archives!RunFails
<1>4. CASE Archives!Crash
  <2>1. /\ UNCHANGED <<whole, manifest, cutByNet>> /\ job' = [f \in Archives!Files |-> "todo"]
        /\ dropped' = dropped \cup {f \in Archives!Files : job[f] = "landed"}
    BY <1>4 DEF Archives!Crash, Archives!Fresh
  <2> QED
    BY <2>1 DEF VouchedInv, Archives!FinalsVouchedFor, AtWork, JobStates
<1>5. CASE \E f \in Archives!Files : Archives!Download(f)
  BY <1>5, DownloadKeepsInv
<1>6. CASE UNCHANGED Archives!mvars
  BY <1>6 DEF Archives!mvars, VouchedInv, Archives!FinalsVouchedFor, AtWork, Archives!Jobs, Archives!Candidates
<1> QED
  BY <1>1, <1>2, <1>3, <1>4, <1>5, <1>6 DEF Archives!Next

-----------------------------------------------------------------------------
(* Why a history is the archive's: a job ends "have" only where the archive   *)
(* has the month and "nothing" only where it has not, and a phase ends when   *)
(* each of its jobs has.                                                      *)
Most(s) == Archives!Cardinality({r \in Archives!Traded : Volume[r] > Volume[s]}) < Size
HistoryInv ==
  /\ archive \in [Symbols -> SUBSET Months]
  /\ \A f \in Archives!Files : whole[f] # "none" => f[2] \in archive[f[1]]
  /\ \A f \in Archives!Files : job[f] \in {"streaming", "landed", "have"} => f[2] \in archive[f[1]]
  /\ \A f \in Archives!Files : job[f] = "have" => whole[f] # "none"
  /\ \A f \in Archives!Files : job[f] = "nothing" => f[2] \notin archive[f[1]]
  /\ phase \in {"history", "done", "loaded"} =>
       /\ members = {s \in Archives!Traded : Most(s)}
       /\ spans = [s \in members |-> <<Archives!Min(archive[s]), Archives!Max(archive[s])>>]
  /\ phase \in {"done", "loaded"} =>
       \A s \in members : \A m \in archive[s] : whole[<<s, m>>] # "none"
  /\ phase = "done" => loaded = [s \in members |-> archive[s]]
  /\ phase = "loaded" =>
       loaded = [s \in {t \in members : archive[t] # {} /\ ~Archives!Spliced(t, archive[t])} |-> archive[s]]

(* Before the first run every file is to do.                                 *)
LEMMA HistoryStarts == ASSUME Archives!MonthsAssumption, Archives!Init PROVE HistoryInv
BY DEF Archives!Init, Archives!MonthsAssumption, HistoryInv

(* The steps of one download.                                                 *)
LEMMA DownloadKeepsHistory ==
  ASSUME VouchedInv, HistoryInv, NEW f \in Archives!Files, Archives!Download(f) PROVE HistoryInv'
<1>0. UNCHANGED <<archive, phase, members, spans, loaded>>
  BY DEF Archives!Download, Archives!StartJob, Archives!Answer, Archives!NoSuchFile,
         Archives!TransportFails, Archives!Land, Archives!Record, Archives!rest
<1>1. /\ job' \in [Archives!Files -> JobStates] /\ whole \in [Archives!Files -> {"none", "cut", "whole"}]
      /\ \A g \in Archives!Files \ {f} : job'[g] = job[g] /\ whole'[g] = whole[g]
      /\ whole[f] # "none" => whole'[f] # "none"
  BY DEF VouchedInv, Archives!Download, Archives!StartJob, Archives!Answer, Archives!NoSuchFile,
         Archives!TransportFails, Archives!GiveUp, Archives!Land, Archives!EndOfBody, Archives!Record,
         JobStates
<1>2. /\ whole'[f] # "none" => f[2] \in archive[f[1]]
      /\ job'[f] \in {"streaming", "landed", "have"} => f[2] \in archive[f[1]]
      /\ job'[f] = "have" => whole'[f] # "none"
      /\ job'[f] = "nothing" => f[2] \notin archive[f[1]]
  <2>1. CASE Archives!StartJob(f) \/ Archives!Answer(f) \/ Archives!NoSuchFile(f) \/ Archives!TransportFails(f)
    BY <2>1 DEF VouchedInv, HistoryInv, Archives!StartJob, Archives!Answer, Archives!NoSuchFile,
                Archives!TransportFails, Archives!GiveUp
  <2>2. CASE Archives!Land(f) \/ Archives!Record(f)
    BY <2>2 DEF VouchedInv, HistoryInv, Archives!Land, Archives!EndOfBody, Archives!Record
  <2> QED BY <2>1, <2>2 DEF Archives!Download
<1>3. Archives!Traded' = Archives!Traded
  BY <1>0 DEF Archives!Traded
<1>4. \A g \in Archives!Files : whole[g] # "none" => whole'[g] # "none"
  BY <1>1
<1>5. members' = members /\ phase' = phase /\ archive' = archive /\ spans' = spans /\ loaded' = loaded
      /\ \A s : Most(s)' <=> Most(s)
  BY <1>0, <1>3 DEF Most
<1>6. ASSUME phase' \in {"history", "done", "loaded"}
      PROVE  /\ members' = {s \in Archives!Traded' : Most(s)'}
             /\ spans' = [s \in members' |-> <<Archives!Min(archive'[s]), Archives!Max(archive'[s])>>]
  <2>1. /\ members = {s \in Archives!Traded : Most(s)}
        /\ spans = [s \in members |-> <<Archives!Min(archive[s]), Archives!Max(archive[s])>>]
    BY <1>5, <1>6 DEF HistoryInv
  <2> QED BY ONLY <2>1, <1>5, <1>3
<1>7. ASSUME phase' \in {"done", "loaded"}, NEW s \in members', NEW m \in archive'[s]
      PROVE  whole'[<<s, m>>] # "none"
  <2>1. s \in Symbols /\ m \in Months
    BY <1>5, <1>7 DEF HistoryInv, Archives!Traded
  <2>2. <<s, m>> \in Archives!Files /\ whole[<<s, m>>] # "none"
    BY <2>1, <1>5, <1>7 DEF HistoryInv, Archives!Files
  <2> QED BY <2>2, <1>4
<1>8. /\ phase' = "done" => loaded' = [s \in members' |-> archive'[s]]
      /\ phase' = "loaded" =>
           loaded' = [s \in {t \in members' : archive'[t] # {} /\ ~Archives!Spliced(t, archive'[t])} |-> archive'[s]]
  BY <1>5 DEF HistoryInv, Archives!Spliced
<1>9. /\ \A g \in Archives!Files : whole'[g] # "none" => g[2] \in archive'[g[1]]
      /\ \A g \in Archives!Files : job'[g] \in {"streaming", "landed", "have"} => g[2] \in archive'[g[1]]
      /\ \A g \in Archives!Files : job'[g] = "have" => whole'[g] # "none"
      /\ \A g \in Archives!Files : job'[g] = "nothing" => g[2] \notin archive'[g[1]]
  <2> SUFFICES ASSUME NEW g \in Archives!Files
               PROVE  /\ whole'[g] # "none" => g[2] \in archive[g[1]]
                      /\ job'[g] \in {"streaming", "landed", "have"} => g[2] \in archive[g[1]]
                      /\ job'[g] = "have" => whole'[g] # "none"
                      /\ job'[g] = "nothing" => g[2] \notin archive[g[1]]
    BY <1>5
  <2>1. CASE g = f
    BY <2>1, <1>2
  <2>2. CASE g # f
    BY <2>2, <1>1 DEF HistoryInv
  <2> QED BY <2>1, <2>2
<1>10. archive' \in [Symbols -> SUBSET Months]
  BY <1>5 DEF HistoryInv
<1> QED BY <1>6, <1>7, <1>8, <1>9, <1>10 DEF HistoryInv

(* A step that moves no file, no job, or starts all jobs anew.                *)
LEMMA FilesAsBefore ==
  ASSUME HistoryInv, UNCHANGED <<archive, whole>>, job' = job \/ Archives!Fresh
  PROVE  /\ archive' \in [Symbols -> SUBSET Months]
         /\ \A g \in Archives!Files : whole'[g] # "none" => g[2] \in archive'[g[1]]
         /\ \A g \in Archives!Files : job'[g] \in {"streaming", "landed", "have"} => g[2] \in archive'[g[1]]
         /\ \A g \in Archives!Files : job'[g] = "have" => whole'[g] # "none"
         /\ \A g \in Archives!Files : job'[g] = "nothing" => g[2] \notin archive'[g[1]]
BY DEF HistoryInv, Archives!Fresh

(* Once its map has ended, the first phase has a file exactly of the symbols  *)
(* that traded, and the second exactly of the months of each member.          *)
LEMMA MapEndedHas ==
  ASSUME VouchedInv, HistoryInv, Archives!MapEnded
  PROVE  \A f \in Archives!Jobs \cap Archives!Files : job[f] = "have" <=> f[2] \in archive[f[1]]
BY DEF VouchedInv, HistoryInv, Archives!MapEnded, Archives!Ended

(* The universe is picked from the files that were had, so from the archive.  *)
LEMMA SelectKeepsHistory ==
  ASSUME Archives!MonthsAssumption, VouchedInv, HistoryInv, Archives!Select PROVE HistoryInv'
<1>1. /\ phase = "select" /\ Archives!MapEnded /\ phase' = "history" /\ Archives!Fresh
      /\ members' = Archives!Ranked /\ UNCHANGED <<archive, whole>>
      /\ spans' = [s \in Archives!Ranked |-> <<Archives!Min(archive[s]), Archives!Max(archive[s])>>]
  BY DEF Archives!Select, Archives!AvailablePeriods
<1>2. Archives!First \in Months
  <2>1. PICK x \in Months : \A y \in Months : x <= y
    BY LeastExists DEF Archives!MonthsAssumption
  <2> QED BY <2>1 DEF Archives!First, Archives!Min
<1>3. Archives!Jobs = Archives!Candidates \X {Archives!First} /\ Archives!Candidates = Symbols \ Pegged
  BY <1>1 DEF Archives!Jobs, Archives!Candidates
<1>4. Archives!Jobs \subseteq Archives!Files
  BY <1>2, <1>3 DEF Archives!Files
<1>5. \A f \in Archives!Jobs : job[f] = "have" <=> f[2] \in archive[f[1]]
  BY <1>1, <1>4, MapEndedHas
<1>6. Archives!Pool = Archives!Traded
  <2>1. ASSUME NEW s \in Archives!Pool PROVE s \in Archives!Traded
    <3>1. PICK f \in Archives!Had : f[1] = s /\ Volume[s] > 0
      BY <2>1 DEF Archives!Pool
    <3>2. f \in Archives!Jobs /\ job[f] = "have"
      BY DEF Archives!Had
    <3>3. s \in Symbols \ Pegged /\ f[2] = Archives!First
      BY <3>1, <3>2, <1>3
    <3>4. Archives!First \in archive[s]
      BY <3>1, <3>2, <3>3, <1>5
    <3> QED BY <3>1, <3>3, <3>4 DEF Archives!Traded
  <2>2. ASSUME NEW s \in Archives!Traded PROVE s \in Archives!Pool
    <3>1. s \in Symbols \ Pegged /\ Archives!First \in archive[s] /\ Volume[s] > 0
      BY DEF Archives!Traded
    <3> DEFINE f == <<s, Archives!First>>
    <3>2. f \in Archives!Jobs /\ f[1] = s /\ f[2] = Archives!First
      BY <3>1, <1>3
    <3>3. f \in Archives!Had
      BY <3>1, <3>2, <1>5 DEF Archives!Had
    <3> QED BY <3>1, <3>2, <3>3 DEF Archives!Pool
  <2> QED BY <2>1, <2>2
<1>7. Archives!Ranked = {s \in Archives!Traded : Most(s)}
  BY <1>6 DEF Archives!Ranked, Most
<1>8. Archives!Traded' = Archives!Traded /\ \A s : Most(s)' <=> Most(s)
  BY <1>1 DEF Archives!Traded, Most
<1>9. /\ members' = {s \in Archives!Traded' : Most(s)'}
      /\ spans' = [s \in members' |-> <<Archives!Min(archive'[s]), Archives!Max(archive'[s])>>]
  BY <1>1, <1>7, <1>8
<1> QED BY <1>1, <1>9, FilesAsBefore DEF HistoryInv

(* A fetched history has what its jobs had: the months the archive has.       *)
LEMMA FetchedKeepsHistory ==
  ASSUME VouchedInv, HistoryInv, Archives!FetchedHistory PROVE HistoryInv'
<1>1. /\ phase = "history" /\ phase' = "done" /\ (Archives!MapEnded \/ members = {})
      /\ loaded' = [s \in members |-> {m \in Months : job[<<s, m>>] = "have"}]
      /\ UNCHANGED <<archive, members, spans, whole, job>>
  BY DEF Archives!FetchedHistory
<1>2. members \subseteq Symbols
  BY <1>1 DEF HistoryInv, Archives!Traded
<1>3. Archives!Jobs = members \X Months
  BY <1>1 DEF Archives!Jobs
<1>4. ASSUME NEW s \in members, NEW m \in Months
      PROVE  (job[<<s, m>>] = "have" <=> m \in archive[s]) /\ (job[<<s, m>>] = "have" => whole[<<s, m>>] # "none")
  <2>1. <<s, m>> \in Archives!Jobs \cap Archives!Files /\ Archives!MapEnded
    BY <1>1, <1>2, <1>3 DEF Archives!Files
  <2>2. job[<<s, m>>] = "have" <=> m \in archive[s]
    BY <2>1, MapEndedHas
  <2> QED BY <2>1, <2>2 DEF HistoryInv
<1>5. \A s \in members : archive[s] \subseteq Months
  BY <1>2 DEF HistoryInv
<1>6. \A s \in members : {m \in Months : job[<<s, m>>] = "have"} = archive[s]
  BY <1>4, <1>5
<1>7. loaded' = [s \in members' |-> archive'[s]]
  BY <1>1, <1>6
<1>8. \A s \in members' : \A m \in archive'[s] : whole'[<<s, m>>] # "none"
  BY <1>1, <1>4, <1>5
<1>9. Archives!Traded' = Archives!Traded /\ \A s : Most(s)' <=> Most(s)
  BY <1>1 DEF Archives!Traded, Most
<1>10. /\ members' = {s \in Archives!Traded' : Most(s)'}
       /\ spans' = [s \in members' |-> <<Archives!Min(archive'[s]), Archives!Max(archive'[s])>>]
  <2>1. /\ members = {s \in Archives!Traded : Most(s)}
        /\ spans = [s \in members |-> <<Archives!Min(archive[s]), Archives!Max(archive[s])>>]
    BY <1>1 DEF HistoryInv
  <2> QED BY ONLY <2>1, <1>1, <1>9
<1> QED BY <1>1, <1>7, <1>8, <1>10, FilesAsBefore DEF HistoryInv

(* The matrix reads the files on disk, which are those months again.          *)
LEMMA LoadKeepsHistory ==
  ASSUME HistoryInv, Archives!LoadMatrix PROVE HistoryInv'
<1>1. /\ phase = "done" /\ phase' = "loaded" /\ UNCHANGED <<archive, members, spans, whole, job>>
      /\ loaded' = [s \in {t \in members : /\ Archives!OnDisk(t) # {}
                                           /\ ~Archives!Spliced(t, Archives!OnDisk(t))} |-> Archives!OnDisk(s)]
  BY DEF Archives!LoadMatrix
<1>2. members \subseteq Symbols
  BY <1>1 DEF HistoryInv, Archives!Traded
<1>3. ASSUME NEW s \in members PROVE Archives!OnDisk(s) = archive[s]
  <2>1. archive[s] \subseteq Months /\ \A m \in Months : <<s, m>> \in Archives!Files
    BY <1>2 DEF HistoryInv, Archives!Files
  <2>2. \A m \in Months : whole[<<s, m>>] # "none" => m \in archive[s]
    BY <2>1 DEF HistoryInv
  <2>3. \A m \in archive[s] : whole[<<s, m>>] # "none"
    BY <1>1 DEF HistoryInv
  <2> QED BY <2>1, <2>2, <2>3 DEF Archives!OnDisk
<1>4. {t \in members : Archives!OnDisk(t) # {} /\ ~Archives!Spliced(t, Archives!OnDisk(t))}
         = {t \in members : archive[t] # {} /\ ~Archives!Spliced(t, archive[t])}
  BY <1>3
<1>5. loaded' = [s \in {t \in members : archive[t] # {} /\ ~Archives!Spliced(t, archive[t])} |-> archive[s]]
  BY <1>1, <1>3, <1>4
<1>6. Archives!Traded' = Archives!Traded /\ \A s : Most(s)' <=> Most(s)
  BY <1>1 DEF Archives!Traded, Most
<1>7. /\ members' = {s \in Archives!Traded' : Most(s)'}
      /\ spans' = [s \in members' |-> <<Archives!Min(archive'[s]), Archives!Max(archive'[s])>>]
  <2>1. /\ members = {s \in Archives!Traded : Most(s)}
        /\ spans = [s \in members |-> <<Archives!Min(archive[s]), Archives!Max(archive[s])>>]
    BY <1>1 DEF HistoryInv
  <2> QED BY ONLY <2>1, <1>1, <1>6
<1>8. \A s \in members' : \A m \in archive'[s] : whole'[<<s, m>>] # "none"
  BY <1>1 DEF HistoryInv
<1>9. loaded' = [s \in {t \in members' : archive'[t] # {} /\ ~Archives!Spliced(t, archive'[t])} |-> archive'[s]]
  <2>1. members' = members /\ archive' = archive
    BY <1>1
  <2> QED BY ONLY <2>1, <1>5
<1> QED BY <1>1, <1>7, <1>8, <1>9, FilesAsBefore DEF HistoryInv

(* Every step of the job keeps the invariant.                                 *)
LEMMA ArchiveStepKeepsHistory ==
  ASSUME Archives!MonthsAssumption, VouchedInv, HistoryInv, [Archives!Next]_(Archives!mvars)
  PROVE  HistoryInv'
<1>1. CASE Archives!StartRun
  <2>1. phase' = "select" /\ UNCHANGED <<archive, whole>> /\ Archives!Fresh
    BY <1>1 DEF Archives!StartRun
  <2> QED BY <2>1, FilesAsBefore DEF HistoryInv
<1>2. CASE Archives!RunFails
  <2>1. phase' = "down" /\ UNCHANGED <<archive, whole, job>>
    BY <1>2 DEF Archives!RunFails
  <2> QED BY <2>1, FilesAsBefore DEF HistoryInv
<1>3. CASE Archives!Crash
  <2>1. phase' = "down" /\ UNCHANGED <<archive, whole>> /\ Archives!Fresh
    BY <1>3 DEF Archives!Crash
  <2> QED BY <2>1, FilesAsBefore DEF HistoryInv
<1>4. CASE UNCHANGED Archives!mvars
  <2>1. UNCHANGED <<archive, phase, members, spans, loaded, whole, job>>
    BY <1>4 DEF Archives!mvars
  <2>2. Archives!Traded' = Archives!Traded /\ \A s : Most(s)' <=> Most(s)
    BY <2>1 DEF Archives!Traded, Most
  <2>3. \A s : Archives!Spliced(s, archive'[s]) <=> Archives!Spliced(s, archive[s])
    BY <2>1
  <2> QED BY <2>1, <2>2, <2>3, FilesAsBefore DEF HistoryInv
<1> QED BY <1>1, <1>2, <1>3, <1>4, DownloadKeepsHistory, SelectKeepsHistory, FetchedKeepsHistory,
           LoadKeepsHistory DEF Archives!Next
-----------------------------------------------------------------------------
(* The greatest and the least of a finite set of months.                      *)
LEMMA EndsOfMonths ==
  ASSUME NEW S \in SUBSET Nat, IsFiniteSet(S), S # {}
  PROVE  /\ Archives!Max(S) \in S /\ \A x \in S : x <= Archives!Max(S)
         /\ Archives!Min(S) \in S /\ \A x \in S : Archives!Min(S) <= x
<1>1. \E x \in S : \A y \in S : x >= y
  BY GreatestExists
<1>2. \E x \in S : \A y \in S : x <= y
  BY LeastExists
<1>3. /\ Archives!Max(S) \in S /\ \A y \in S : Archives!Max(S) >= y
      /\ Archives!Min(S) \in S /\ \A x \in S : Archives!Min(S) <= x
  BY <1>1, <1>2 DEF Archives!Max, Archives!Min
<1> QED BY <1>3

(* A splice between two months the archive has lies between two neighbours.   *)
LEMMA OneAssetIsUnspliced ==
  ASSUME Archives!MonthsAssumption, IsFiniteSet(Months), NEW s \in Symbols, archive[s] \subseteq Months
  PROVE  Archives!OneAsset(s) <=> ~Archives!Spliced(s, archive[s])
<1> DEFINE A == archive[s]
<1>0. A \subseteq Nat /\ Months \subseteq Nat
  BY DEF Archives!MonthsAssumption
<1>1. ASSUME Archives!Spliced(s, A) PROVE ~Archives!OneAsset(s)
  <2>1. PICK m \in A, e \in A : e < m /\ \E n \in (e + 1)..m : <<s, n>> \in Splices
    BY <1>1 DEF Archives!Spliced
  <2>2. PICK n \in (e + 1)..m : <<s, n>> \in Splices
    BY <2>1
  <2>3. n \in Months /\ e < n /\ n <= m
    <3>1. n \in Months
      BY <2>2 DEF Archives!MonthsAssumption
    <3> QED BY <3>1, <1>0
  <2> QED BY <2>2, <2>3 DEF Archives!OneAsset
<1>2. ASSUME ~Archives!OneAsset(s) PROVE Archives!Spliced(s, A)
  <2>1. PICK m \in A, n \in A, k \in Months : m < k /\ k <= n /\ <<s, k>> \in Splices
    BY <1>2 DEF Archives!OneAsset
  <2> DEFINE Before == {x \in A : x < k}
             After  == {x \in A : k <= x}
  <2>2. m \in Before /\ n \in After /\ Before \subseteq Nat /\ After \subseteq Nat
    BY <2>1, <1>0
  <2>3. IsFiniteSet(Before)
    BY FS_Subset
  <2>4. PICK e \in Before : \A y \in Before : e >= y
    <3> HIDE DEF Before
    <3> QED BY <2>2, <2>3, GreatestExists
  <2>5. PICK l \in After : \A y \in After : l <= y
    <3> HIDE DEF After
    <3> QED BY <2>2, LeastExists
  <2>6. e \in A /\ l \in A /\ e < k /\ k <= l /\ e \in Nat /\ l \in Nat /\ k \in Nat
    BY <2>4, <2>5, <2>1, <1>0
  <2>7. \A y \in A : ~(e < y /\ y < l)
    <3> SUFFICES ASSUME NEW y \in A, e < y, y < l PROVE FALSE
      OBVIOUS
    <3>1. y \in Nat
      BY <1>0
    <3>2. CASE y < k
      BY <3>1, <3>2, <2>4, <2>6
    <3>3. CASE k <= y
      BY <3>1, <3>3, <2>5, <2>6
    <3> QED BY <3>1, <3>2, <3>3, <2>6
  <2>8. k \in (e + 1)..l /\ e < l
    BY <2>6
  <2> QED BY <2>1, <2>6, <2>7, <2>8 DEF Archives!Spliced
<1> QED BY <1>1, <1>2

(* What the invariant says of a finished history.                             *)
LEMMA HistoryInvShows ==
  ASSUME Archives!MonthsAssumption, HistoryInv PROVE Archives!HistoryIsTheArchives
<1> SUFFICES ASSUME phase \in {"done", "loaded"} PROVE Archives!HistoryIsTheArchives
  BY DEF Archives!HistoryIsTheArchives
<1>1. /\ archive \in [Symbols -> SUBSET Months]
      /\ members = {s \in Archives!Traded : Most(s)}
      /\ spans = [s \in members |-> <<Archives!Min(archive[s]), Archives!Max(archive[s])>>]
      /\ phase = "done" => loaded = [s \in members |-> archive[s]]
      /\ phase = "loaded" =>
           loaded = [s \in {t \in members : archive[t] # {} /\ ~Archives!Spliced(t, archive[t])} |-> archive[s]]
  BY DEF HistoryInv
<1>2. IsFiniteSet(Months) /\ Months \subseteq Nat /\ Months # {}
  BY DEF Archives!MonthsAssumption, Archives!IsFiniteSet, IsFiniteSet
<1>3. \A s \in members : s \in Symbols /\ Archives!First \in archive[s] /\ archive[s] \subseteq Months
  BY <1>1 DEF Archives!Traded
<1>4. DOMAIN loaded = IF phase = "done" THEN members ELSE {s \in members : Archives!OneAsset(s)}
  <2>1. CASE phase = "done"
    BY <2>1, <1>1
  <2>2. CASE phase = "loaded"
    <3>1. \A s \in members : archive[s] # {} /\ (Archives!OneAsset(s) <=> ~Archives!Spliced(s, archive[s]))
      BY <1>2, <1>3, OneAssetIsUnspliced
    <3> QED BY <2>2, <1>1, <3>1
  <2> QED BY <2>1, <2>2
<1>5. \A s \in DOMAIN loaded : s \in members /\ loaded[s] = archive[s]
  BY <1>1
<1>6. ASSUME NEW s \in members PROVE s \in Archives!Deaths <=> Archives!Max(Months) \notin archive[s]
  <2> DEFINE A == archive[s]
  <2>1. A \in SUBSET Nat /\ A # {} /\ IsFiniteSet(A) /\ A \subseteq Months
    BY <1>2, <1>3, FS_Subset
  <2>2. /\ Archives!Max(A) \in A /\ \A x \in A : x <= Archives!Max(A)
    <3> HIDE DEF A
    <3> QED BY <2>1, EndsOfMonths
  <2>3. /\ Archives!Max(Months) \in Months /\ \A x \in Months : x <= Archives!Max(Months)
    BY <1>2, EndsOfMonths
  <2>4. s \in Archives!Deaths <=> Archives!Max(A) < Archives!Max(Months)
    BY <1>1 DEF Archives!Deaths
  <2> QED
    <3> HIDE DEF A
    <3>1. Archives!Max(A) \in Nat /\ Archives!Max(Months) \in Nat /\ Archives!Max(A) <= Archives!Max(Months)
      BY <2>1, <2>2, <2>3, <1>2
    <3>2. CASE Archives!Max(Months) \in A
      BY <3>1, <3>2, <2>2, <2>4 DEF A
    <3>3. CASE Archives!Max(Months) \notin A
      <4>1. Archives!Max(A) # Archives!Max(Months)
        BY <3>3, <2>2
      <4>2. Archives!Max(A) < Archives!Max(Months)
        BY ONLY <3>1, <4>1
      <4> QED BY <4>2, <3>3, <2>4 DEF A
    <3> QED BY <3>2, <3>3
<1>7. members = {s \in Archives!Traded :
                   Archives!Cardinality({r \in Archives!Traded : Volume[r] > Volume[s]}) < Size}
  BY <1>1 DEF Most
<1>8. \A s \in DOMAIN loaded : s \in Archives!Deaths <=> Archives!Max(Months) \notin loaded[s]
  BY <1>5, <1>6
<1> QED BY <1>4, <1>5, <1>7, <1>8 DEF Archives!HistoryIsTheArchives

(* A history is the archive's: for any symbols, months, archive, splices,     *)
(* threads, retries, failed and killed runs and faults of the network.        *)
THEOREM HistoriesOfTheArchive == Spec => []HistoriesAreTheArchives
<1> DEFINE Inv == VouchedInv /\ HistoryInv
<1>1. Init => Archives!Init
  BY DEF Init
<1>2. [Next]_vars => [Archives!Next]_(Archives!mvars)
  BY DEF Next, vars, archiveVars, Archives!mvars
<1>3. Archives!Init => Inv
  BY HistoryStarts, PartsAssumption DEF PartsAssumption, Archives!Init, VouchedInv, Archives!FinalsVouchedFor, AtWork, JobStates
<1>4. Inv /\ [Archives!Next]_(Archives!mvars) => Inv'
  BY ArchivesStepKeepsInv, ArchiveStepKeepsHistory, PartsAssumption DEF PartsAssumption
<1>5. Inv => HistoriesAreTheArchives
  BY HistoryInvShows, PartsAssumption DEF PartsAssumption, VouchedInv, HistoriesAreTheArchives
<1> QED
  BY <1>1, <1>2, <1>3, <1>4, <1>5, PTL DEF Spec
-----------------------------------------------------------------------------
(* Why no request goes uncharged: every buyer that has committed and not yet  *)
(* asked holds a charge that no request has used.                             *)
BuyerSteps == {"idle", "priced", "cleared", "committed", "streaming", "delivered"}
Paying(f) == {b \in Buyers : step[b] = "committed" /\ wants[b] = f}
ChargeInv ==
  /\ step \in [Buyers -> BuyerSteps] /\ wants \in [Buyers -> Wares]
  /\ ledger \in [Wares -> Nat] /\ issued \in [Wares -> Nat]
  /\ \A f \in Wares : issued[f] + Cardinality(Paying(f)) <= ledger[f]

(* The instance's finite sets are the library's.                              *)
LEMMA SameFinite == \A S : Purchase!IsFiniteSet(S) <=> IsFiniteSet(S)
BY DEF Purchase!IsFiniteSet, IsFiniteSet

(* The buyers about to ask for a file can be counted.                         *)
LEMMA PayingIsFinite ==
  ASSUME Purchase!PurchaseAssumption
  PROVE  \A f : IsFiniteSet(Paying(f)) /\ Cardinality(Paying(f)) \in Nat
BY SameFinite, FS_Subset, FS_CardinalityType DEF Purchase!PurchaseAssumption, Paying

(* A buyer that commits, asks or leaves changes who pays for its own file.    *)
LEMMA CommitKeepsCharges ==
  ASSUME Purchase!PurchaseAssumption, ChargeInv, NEW b \in Buyers, Purchase!Commit(b) PROVE ChargeInv'
<1>1. wants[b] \in Wares /\ wants' = wants /\ issued' = issued
      /\ step' = [step EXCEPT ![b] = "committed"] /\ step[b] = "cleared"
      /\ ledger' = [ledger EXCEPT ![wants[b]] = @ + 1]
  BY DEF Purchase!Commit, Purchase!Goto, Purchase!Charge, ChargeInv
<1>2. step' \in [Buyers -> BuyerSteps] /\ wants' \in [Buyers -> Wares] /\ ledger' \in [Wares -> Nat]
  BY <1>1 DEF ChargeInv, BuyerSteps
<1>3. ASSUME NEW f \in Wares
      PROVE  issued'[f] + Cardinality(Paying(f)') <= ledger'[f]
  <2>1. CASE f = wants[b]
    <3>1. Paying(f)' = Paying(f) \cup {b} /\ b \notin Paying(f)
      BY <1>1, <2>1 DEF Paying, ChargeInv
    <3>2. Cardinality(Paying(f)') = Cardinality(Paying(f)) + 1
      BY <3>1, PayingIsFinite, FS_AddElement
    <3>3. ledger'[f] = ledger[f] + 1 /\ issued'[f] = issued[f]
      BY <1>1, <2>1 DEF ChargeInv
    <3> QED
      BY <3>2, <3>3, PayingIsFinite DEF ChargeInv
  <2>2. CASE f # wants[b]
    <3>1. Paying(f)' = Paying(f)
      BY <1>1, <2>2 DEF Paying, ChargeInv
    <3>2. ledger'[f] = ledger[f] /\ issued'[f] = issued[f]
      BY <1>1, <2>2 DEF ChargeInv
    <3> QED
      BY <3>1, <3>2 DEF ChargeInv
  <2> QED
    BY <2>1, <2>2
<1> QED
  BY <1>1, <1>2, <1>3 DEF ChargeInv

(* A request uses the charge its buyer committed.                             *)
LEMMA DownloadKeepsCharges ==
  ASSUME Purchase!PurchaseAssumption, ChargeInv, NEW b \in Buyers, Purchase!Download(b) PROVE ChargeInv'
<1>1. wants[b] \in Wares /\ wants' = wants /\ ledger' = ledger
      /\ step' = [step EXCEPT ![b] = "streaming"] /\ step[b] = "committed"
      /\ issued' = [issued EXCEPT ![wants[b]] = @ + 1]
  BY DEF Purchase!Download, Purchase!Goto, ChargeInv
<1>2. step' \in [Buyers -> BuyerSteps] /\ wants' \in [Buyers -> Wares] /\ issued' \in [Wares -> Nat]
  BY <1>1 DEF ChargeInv, BuyerSteps
<1>3. ASSUME NEW f \in Wares
      PROVE  issued'[f] + Cardinality(Paying(f)') <= ledger'[f]
  <2>1. CASE f = wants[b]
    <3>1. Paying(f)' = Paying(f) \ {b} /\ b \in Paying(f)
      BY <1>1, <2>1 DEF Paying, ChargeInv
    <3>2. Cardinality(Paying(f)') = Cardinality(Paying(f)) - 1
      BY <3>1, PayingIsFinite, FS_RemoveElement
    <3>3. issued'[f] = issued[f] + 1
      BY <1>1, <2>1 DEF ChargeInv
    <3> QED
      BY <1>1, <3>2, <3>3, PayingIsFinite DEF ChargeInv
  <2>2. CASE f # wants[b]
    <3>1. Paying(f)' = Paying(f)
      BY <1>1, <2>2 DEF Paying, ChargeInv
    <3>2. issued'[f] = issued[f]
      BY <1>1, <2>2 DEF ChargeInv
    <3> QED
      BY <1>1, <3>1, <3>2 DEF ChargeInv
  <2> QED
    BY <2>1, <2>2
<1> QED
  BY <1>1, <1>2, <1>3 DEF ChargeInv

(* Every other step has at most as many buyers paying for a file as before.   *)
LEMMA FewerPayKeepsCharges ==
  ASSUME Purchase!PurchaseAssumption, ChargeInv, ledger' = ledger, issued' = issued,
         step' \in [Buyers -> BuyerSteps], wants' \in [Buyers -> Wares],
         \A f \in Wares : Paying(f)' \subseteq Paying(f)
  PROVE  ChargeInv'
<1>1. ASSUME NEW f \in Wares
      PROVE  /\ Cardinality(Paying(f)') \in Nat
             /\ Cardinality(Paying(f)') <= Cardinality(Paying(f))
  BY PayingIsFinite, FS_Subset, FS_CardinalityType
<1>2. ASSUME NEW f \in Wares
      PROVE  issued'[f] + Cardinality(Paying(f)') <= ledger'[f]
  BY <1>1, PayingIsFinite DEF ChargeInv
<1> QED
  BY <1>2 DEF ChargeInv

(* Every step keeps a charge for every request.                               *)
LEMMA StepKeepsCharges == ASSUME Purchase!PurchaseAssumption, ChargeInv, [Purchase!Next]_(Purchase!pvars) PROVE ChargeInv'
<1>1. ASSUME NEW b \in Buyers, NEW f \in Wares, Purchase!Quote(b, f) \/ Purchase!QuoteRange(b, f)
      PROVE  ChargeInv'
  BY <1>1, FewerPayKeepsCharges DEF Purchase!Quote, Purchase!QuoteRange, Purchase!Ask, Purchase!Goto, Paying, ChargeInv, BuyerSteps
<1>2. ASSUME NEW b \in Buyers, Purchase!Check(b) \/ Purchase!Deliver(b) \/ Purchase!Rename(b) \/ Purchase!DownloadFails(b) \/ Purchase!Kill(b)
      PROVE  ChargeInv'
  <2>1. /\ ledger' = ledger /\ issued' = issued /\ wants' = wants
        /\ \E s \in BuyerSteps \ {"committed"} : step' = [step EXCEPT ![b] = s]
    BY <1>2 DEF Purchase!Check, Purchase!Deliver, Purchase!Rename, Purchase!DownloadFails, Purchase!Kill, Purchase!Goto, BuyerSteps
  <2> QED
    BY <2>1, FewerPayKeepsCharges DEF Paying, ChargeInv
<1>3. CASE UNCHANGED Purchase!pvars
  BY <1>3, FewerPayKeepsCharges DEF Purchase!pvars, Paying, ChargeInv
<1> QED
  BY <1>1, <1>2, <1>3, CommitKeepsCharges, DownloadKeepsCharges DEF Purchase!Next

(* No request has been sent at first.                                         *)
LEMMA ChargesStart == ASSUME Purchase!PurchaseAssumption, Purchase!Init PROVE ChargeInv
<1>1. wants \in [Buyers -> Wares]
  BY DEF Purchase!Init, Purchase!PurchaseAssumption
<1>2. \A f : Paying(f) = {}
  BY DEF Purchase!Init, Paying
<1>3. \A f : Cardinality(Paying(f)) = 0
  BY <1>2, FS_EmptySet
<1>4. /\ ledger = [f \in Wares |-> 0] /\ issued = [f \in Wares |-> 0]
      /\ step = [b \in Buyers |-> "idle"]
  BY DEF Purchase!Init
<1> QED BY <1>1, <1>3, <1>4 DEF ChargeInv, BuyerSteps

-----------------------------------------------------------------------------
(* Why a file under its final name is whole: until two buyers download one    *)
(* file at once, what a buyer renames is what it downloaded itself, and who   *)
(* downloaded a file that is there never asks for it again.                   *)
Loading(b, f) == step[b] \in {"streaming", "delivered"} /\ wants[b] = f
FilesInv ==
  /\ step \in [Buyers -> BuyerSteps] /\ wants \in [Buyers -> Wares]
  /\ content \in [Purchase!Downloads -> {"nothing", "cut", "whole"}]
  /\ draft \in [Wares -> {Purchase!None} \cup Purchase!Downloads]
  /\ final \in [Wares -> {Purchase!None} \cup Purchase!Downloads]
  /\ \A b \in Buyers : step[b] = "delivered" => content[<<b, wants[b]>>] = "whole"
  /\ "file" \notin raced =>
       /\ \A b, c \in Buyers, f \in Wares : Loading(b, f) /\ Loading(c, f) => b = c
       /\ \A b \in Buyers, f \in Wares : Loading(b, f) => draft[f] = <<b, f>>
       /\ \A b \in Buyers, f \in Wares : final[f] = <<b, f>> =>
            content[<<b, f>>] = "whole" /\ ~(step[b] # "idle" /\ wants[b] = f)
       /\ \A f \in Wares : final[f] # Purchase!None => \E b \in Buyers : final[f] = <<b, f>>

(* A quote touches no file.                                                   *)
LEMMA AskKeepsFiles ==
  ASSUME FilesInv, NEW b \in Buyers, NEW f \in Wares, Purchase!Ask(b, f) PROVE FilesInv'
<1>1. /\ step[b] = "idle" /\ step' = [step EXCEPT ![b] = "priced"] /\ wants' = [wants EXCEPT ![b] = f]
      /\ UNCHANGED <<draft, final, content, raced>> /\ final[f] = Purchase!None
  BY DEF Purchase!Ask, Purchase!Goto
<1>2. \A c \in Buyers, g \in Wares : Loading(c, g)' => Loading(c, g)
  BY <1>1 DEF Loading, FilesInv
<1>3. step' \in [Buyers -> BuyerSteps] /\ wants' \in [Buyers -> Wares]
  BY <1>1 DEF FilesInv, BuyerSteps
<1>4. <<b, f>> # Purchase!None
  BY DEF Purchase!None
<1>5. \A c \in Buyers : step'[c] = "delivered" => step[c] = "delivered" /\ wants'[c] = wants[c]
  BY <1>1 DEF FilesInv
<1>6. \A c \in Buyers, g \in Wares : final[g] = <<c, g>> /\ ~(step[c] # "idle" /\ wants[c] = g)
                                      => ~(step'[c] # "idle" /\ wants'[c] = g)
  BY <1>1, <1>4 DEF FilesInv
<1> QED
  BY <1>1, <1>2, <1>3, <1>5, <1>6 DEF FilesInv

(* Steps that touch no file and begin no download.                            *)
LEMMA PaperworkKeepsFiles ==
  ASSUME FilesInv, NEW b \in Buyers, Purchase!Check(b) \/ Purchase!Commit(b) \/ Purchase!Kill(b) PROVE FilesInv'
<1>1. /\ UNCHANGED <<wants, draft, final, content>>
      /\ "file" \in raced => "file" \in raced'
      /\ step[b] # "idle" /\ \E s \in {"idle", "cleared", "committed"} : step' = [step EXCEPT ![b] = s]
  BY DEF Purchase!Check, Purchase!Commit, Purchase!Kill, Purchase!Goto
<1>2. \A c \in Buyers, g \in Wares : Loading(c, g)' => Loading(c, g)
  BY <1>1 DEF Loading, FilesInv
<1>3. step' \in [Buyers -> BuyerSteps] /\ \A c \in Buyers : step'[c] = "delivered" => step[c] = "delivered"
  BY <1>1 DEF FilesInv, BuyerSteps
<1>4. \A c \in Buyers : step'[c] # "idle" => step[c] # "idle"
  BY <1>1 DEF FilesInv
<1> QED
  BY <1>1, <1>2, <1>3, <1>4 DEF FilesInv

(* A download begins: unless it races, it is alone with its file.             *)
LEMMA DownloadKeepsFiles ==
  ASSUME FilesInv, NEW b \in Buyers, Purchase!Download(b) PROVE FilesInv'
<1> DEFINE f == wants[b]
<1>1. /\ step[b] = "committed" /\ step' = [step EXCEPT ![b] = "streaming"] /\ wants' = wants
      /\ final' = final /\ f \in Wares /\ <<b, f>> \in Purchase!Downloads
      /\ draft' = [draft EXCEPT ![f] = <<b, f>>] /\ content' = [content EXCEPT ![<<b, f>>] = "cut"]
  BY DEF Purchase!Download, Purchase!Goto, FilesInv, Purchase!Downloads
<1>2. step' \in [Buyers -> BuyerSteps] /\ content' \in [Purchase!Downloads -> {"nothing", "cut", "whole"}]
      /\ draft' \in [Wares -> {Purchase!None} \cup Purchase!Downloads]
  BY <1>1 DEF FilesInv, BuyerSteps
<1>3. \A c \in Buyers \ {b}, g \in Wares :
         /\ step'[c] = step[c] /\ <<c, g>> \in Purchase!Downloads /\ content'[<<c, g>>] = content[<<c, g>>]
         /\ Loading(c, g)' <=> Loading(c, g)
  BY <1>1 DEF FilesInv, Loading, Purchase!Downloads
<1>4. \A c \in Buyers : step'[c] = "delivered" => content'[<<c, wants'[c]>>] = "whole"
  BY <1>1, <1>3 DEF FilesInv
<1>5. ASSUME "file" \notin raced'
      PROVE  "file" \notin raced /\ \A c \in Buyers \ {b} : ~Loading(c, f)
  BY <1>5 DEF Purchase!Download, Loading
<1>6. \A g \in Wares : Loading(b, g)' <=> g = f
  BY <1>1 DEF Loading, FilesInv
<1>7. ASSUME "file" \notin raced', NEW c \in Buyers, NEW g \in Wares, final[g] = <<c, g>>
      PROVE  content'[<<c, g>>] = "whole" /\ ~(step'[c] # "idle" /\ wants'[c] = g)
  <2>1. content[<<c, g>>] = "whole" /\ ~(step[c] # "idle" /\ wants[c] = g)
    BY <1>5, <1>7 DEF FilesInv
  <2>2. c = b => g # f
    BY <2>1, <1>1
  <2>3. <<c, g>> \in Purchase!Downloads /\ <<c, g>> # <<b, f>>
    BY <2>2 DEF Purchase!Downloads
  <2> QED
    BY <2>1, <2>2, <2>3, <1>1, <1>3 DEF FilesInv
<1>8. ASSUME "file" \notin raced', NEW c \in Buyers, NEW g \in Wares, Loading(c, g)'
      PROVE  draft'[g] = <<c, g>>
  <2>1. CASE c = b
    BY <2>1, <1>1, <1>6, <1>8 DEF FilesInv
  <2>2. CASE c # b
    <3>1. Loading(c, g) /\ g # f
      BY <2>2, <1>3, <1>5, <1>8
    <3> QED
      BY <3>1, <1>1, <1>5, <1>8 DEF FilesInv
  <2> QED
    BY <2>1, <2>2
<1>9. ASSUME "file" \notin raced', NEW c \in Buyers, NEW d \in Buyers, NEW g \in Wares,
             Loading(c, g)', Loading(d, g)'
      PROVE  c = d
  <2>1. draft'[g] = <<c, g>> /\ draft'[g] = <<d, g>>
    BY <1>8, <1>9
  <2> QED
    BY <2>1
<1>10. ASSUME "file" \notin raced', NEW g \in Wares, final'[g] # Purchase!None
       PROVE  \E c \in Buyers : final'[g] = <<c, g>>
  BY <1>1, <1>5, <1>10 DEF FilesInv
<1> QED
  BY <1>1, <1>2, <1>4, <1>7, <1>8, <1>9, <1>10 DEF FilesInv

(* A delivery completes the download of the one buyer at work on it.          *)
LEMMA DeliverKeepsFiles ==
  ASSUME FilesInv, NEW b \in Buyers, Purchase!Deliver(b) PROVE FilesInv'
<1> DEFINE f == wants[b]
<1>1. /\ step[b] = "streaming" /\ step' = [step EXCEPT ![b] = "delivered"] /\ f \in Wares
      /\ content' = [content EXCEPT ![<<b, f>>] = "whole"] /\ <<b, f>> \in Purchase!Downloads
      /\ UNCHANGED <<wants, draft, final, raced>>
  BY DEF Purchase!Deliver, Purchase!Goto, FilesInv, Purchase!Downloads
<1>2. step' \in [Buyers -> BuyerSteps] /\ content' \in [Purchase!Downloads -> {"nothing", "cut", "whole"}]
  BY <1>1 DEF FilesInv, BuyerSteps
<1>3. \A d \in Purchase!Downloads : content[d] = "whole" => content'[d] = "whole"
  BY <1>1 DEF FilesInv
<1>4. \A c \in Buyers, g \in Wares :
         /\ <<c, g>> \in Purchase!Downloads /\ (Loading(c, g)' <=> Loading(c, g))
         /\ step'[c] # "idle" => step[c] # "idle"
  BY <1>1 DEF FilesInv, Loading, Purchase!Downloads
<1>5. \A c \in Buyers : step'[c] = "delivered" => content'[<<c, wants'[c]>>] = "whole"
  BY <1>1, <1>3, <1>4 DEF FilesInv
<1>6. ASSUME "file" \notin raced', NEW c \in Buyers, NEW g \in Wares, final'[g] = <<c, g>>
      PROVE  content'[<<c, g>>] = "whole" /\ ~(step'[c] # "idle" /\ wants'[c] = g)
  <2>1. content[<<c, g>>] = "whole" /\ ~(step[c] # "idle" /\ wants[c] = g)
    BY <1>1, <1>6 DEF FilesInv
  <2> QED
    BY <2>1, <1>1, <1>3, <1>4
<1>7. ASSUME "file" \notin raced', NEW c \in Buyers, NEW g \in Wares, Loading(c, g)'
      PROVE  draft'[g] = <<c, g>> /\ \A d \in Buyers : Loading(d, g)' => c = d
  BY <1>1, <1>4, <1>7 DEF FilesInv
<1>8. ASSUME "file" \notin raced', NEW g \in Wares, final'[g] # Purchase!None
      PROVE  \E c \in Buyers : final'[g] = <<c, g>>
  BY <1>1, <1>8 DEF FilesInv
<1> QED
  BY <1>1, <1>2, <1>5, <1>6, <1>7, <1>8 DEF FilesInv

(* A rename moves the buyer's own whole download; a failed one is removed.    *)
LEMMA LandingKeepsFiles ==
  ASSUME FilesInv, NEW b \in Buyers, Purchase!Rename(b) \/ Purchase!DownloadFails(b) PROVE FilesInv'
<1> DEFINE f == wants[b]
<1>1. /\ step[b] \in {"streaming", "delivered"} /\ step' = [step EXCEPT ![b] = "idle"] /\ f \in Wares
      /\ draft' = [draft EXCEPT ![f] = Purchase!None]
      /\ UNCHANGED <<wants, content, raced>>
  BY DEF Purchase!Rename, Purchase!DownloadFails, Purchase!Goto, FilesInv
<1>2. /\ step' \in [Buyers -> BuyerSteps] /\ draft' \in [Wares -> {Purchase!None} \cup Purchase!Downloads]
      /\ final' \in [Wares -> {Purchase!None} \cup Purchase!Downloads]
  BY <1>1 DEF FilesInv, BuyerSteps, Purchase!Rename, Purchase!DownloadFails
<1>3. \A c \in Buyers, g \in Wares : Loading(c, g)' => c # b /\ Loading(c, g)
  BY <1>1 DEF FilesInv, Loading
<1>4. \A c \in Buyers : step'[c] # "idle" => c # b /\ step'[c] = step[c]
  BY <1>1 DEF FilesInv
<1>5. ASSUME "file" \notin raced', NEW c \in Buyers, NEW g \in Wares, Loading(c, g)'
      PROVE  draft'[g] = <<c, g>>
  <2>1. c # b /\ Loading(c, g) /\ Loading(b, f)
    BY <1>1, <1>3, <1>5 DEF Loading
  <2>2. g # f
    BY <2>1, <1>1, <1>5 DEF FilesInv
  <2> QED
    BY <2>1, <2>2, <1>1, <1>5 DEF FilesInv
<1>6. ASSUME "file" \notin raced, NEW g \in Wares, final'[g] # final[g]
      PROVE  g = f /\ final'[g] = <<b, g>> /\ content[<<b, g>>] = "whole"
  <2>1. Purchase!Rename(b)
    BY <1>6 DEF Purchase!DownloadFails
  <2>2. g = f /\ final'[g] = draft[g]
    BY <2>1, <1>6 DEF Purchase!Rename, FilesInv
  <2>3. draft[f] = <<b, f>> /\ content[<<b, f>>] = "whole"
    BY <2>1, <1>1, <1>6 DEF Purchase!Rename, Loading, FilesInv
  <2> QED
    BY <2>2, <2>3
<1>7. ASSUME "file" \notin raced', NEW c \in Buyers, NEW g \in Wares, final'[g] = <<c, g>>
      PROVE  content'[<<c, g>>] = "whole" /\ ~(step'[c] # "idle" /\ wants'[c] = g)
  <2>1. CASE final'[g] = final[g]
    <3>1. final[g] = <<c, g>> /\ "file" \notin raced
      BY <2>1, <1>1, <1>7
    <3>2. content[<<c, g>>] = "whole" /\ ~(step[c] # "idle" /\ wants[c] = g)
      BY <3>1 DEF FilesInv
    <3> QED
      BY <3>2, <1>1, <1>4
  <2>2. CASE final'[g] # final[g]
    <3>1. final'[g] = <<b, g>> /\ content[<<b, g>>] = "whole"
      BY <2>2, <1>1, <1>6, <1>7
    <3>2. c = b
      BY <3>1, <1>7
    <3> QED
      BY <3>1, <3>2, <1>1, <1>4
  <2> QED
    BY <2>1, <2>2
<1>8. ASSUME "file" \notin raced', NEW g \in Wares, final'[g] # Purchase!None
      PROVE  \E c \in Buyers : final'[g] = <<c, g>>
  <2>1. CASE final'[g] = final[g]
    BY <2>1, <1>1, <1>8 DEF FilesInv
  <2>2. CASE final'[g] # final[g]
    BY <2>2, <1>1, <1>6, <1>8
  <2> QED
    BY <2>1, <2>2
<1>9. \A c \in Buyers : step'[c] = "delivered" => content'[<<c, wants'[c]>>] = "whole"
  BY <1>1, <1>4 DEF FilesInv
<1>10. ASSUME "file" \notin raced', NEW c \in Buyers, NEW d \in Buyers, NEW g \in Wares,
              Loading(c, g)', Loading(d, g)'
       PROVE  c = d
  BY <1>1, <1>3, <1>10 DEF FilesInv
<1> QED
  BY <1>1, <1>2, <1>5, <1>7, <1>8, <1>9, <1>10 DEF FilesInv

(* Every step keeps the files whole.                                          *)
LEMMA StepKeepsFiles == ASSUME FilesInv, [Purchase!Next]_(Purchase!pvars) PROVE FilesInv'
<1>1. CASE UNCHANGED Purchase!pvars
  BY <1>1 DEF Purchase!pvars, FilesInv, Loading
<1> QED
  BY <1>1, AskKeepsFiles, PaperworkKeepsFiles, DownloadKeepsFiles, DeliverKeepsFiles,
     LandingKeepsFiles DEF Purchase!Next, Purchase!Quote, Purchase!QuoteRange

(* Nothing has been bought at first.                                          *)
LEMMA FilesStart == ASSUME Purchase!PurchaseAssumption, Purchase!Init PROVE FilesInv
<1>1. wants \in [Buyers -> Wares]
  BY DEF Purchase!Init, Purchase!PurchaseAssumption
<1>2. \A b \in Buyers, f \in Wares : <<b, f>> # Purchase!None
  BY DEF Purchase!None
<1> QED BY <1>1, <1>2 DEF Purchase!Init, FilesInv, Loading, BuyerSteps

(* What the invariant says of the files that were bought.                     *)
LEMMA FilesInvShows == FilesInv => Purchase!BoughtFilesWhole
<1> SUFFICES ASSUME FilesInv, "file" \notin raced, NEW f \in Wares, final[f] # Purchase!None
             PROVE  content[final[f]] = "whole"
  BY DEF Purchase!BoughtFilesWhole
<1>1. PICK b \in Buyers : final[f] = <<b, f>>
  BY DEF FilesInv
<1> QED BY <1>1 DEF FilesInv
-----------------------------------------------------------------------------
(* Why the cap holds until two buyers meet between check and commit: one      *)
(* buyer at most is cleared, and what it was cleared for is still affordable. *)
Priced == {f \in Wares : Price[f] # Unpriced}
Charges == [f \in Priced |-> ledger[f] * Price[f]]
CapInv ==
  "cap" \notin raced =>
    /\ Purchase!Spent <= Cap
    /\ \A b \in Buyers : step[b] = "cleared" => Purchase!Affordable(wants[b])
    /\ \A b, c \in Buyers : step[b] = "cleared" /\ step[c] = "cleared" => b = c

(* The ledger's total is the sum of its charges.                              *)
LEMMA SpentIsTheSum ==
  Purchase!PurchaseAssumption => Purchase!Spent = SumOver(Charges, Priced)
<1> SUFFICES ASSUME Purchase!PurchaseAssumption PROVE Purchase!Spent = SumOver(Charges, Priced)
  OBVIOUS
<1> DEFINE Table(h) == h = [s \in SUBSET Priced |-> IF s = {} THEN 0
                              ELSE ledger[Pick(s)] * Price[Pick(s)] + h[s \ {Pick(s)}]]
           c == CHOOSE h : Table(h)
<1>1. IsFiniteSet(Priced)
  BY SameFinite, FS_Subset DEF Purchase!PurchaseAssumption, Priced
<1>2. \A s \in SUBSET Priced : s # {} => Charges[Pick(s)] = ledger[Pick(s)] * Price[Pick(s)]
  BY DEF Pick, Charges
<1>3. ASSUME NEW h PROVE Table(h) <=> SumTable(h, Charges, Priced)
  BY <1>2 DEF SumTable
<1>4. SumTable(c, Charges, Priced)
  <2>1. \E h : SumTable(h, Charges, Priced)
    BY <1>1, FoldTable
  <2>2. Table(c)
    <3> HIDE DEF Table
    <3> QED BY <2>1, <1>3
  <2> HIDE DEF Table, c
  <2> QED BY <2>2, <1>3
<1>5. Purchase!Spent = c[Priced]
  BY DEF Purchase!Spent, Purchase!MapThenSumSet, Purchase!MapThenFoldSet, Pick, Priced
<1> HIDE DEF c
<1>6. Priced \subseteq Priced
  OBVIOUS
<1>7. SumOver(Charges, Priced) = c[Priced]
  BY <1>1, <1>4, <1>6, SumOfTable
<1> QED BY <1>5, <1>7

(* A commitment adds the price of its file.                                   *)
LEMMA CommitSpends ==
  ASSUME Purchase!PurchaseAssumption, ChargeInv, NEW f \in Priced,
         ledger' = [ledger EXCEPT ![f] = @ + 1]
  PROVE  Purchase!Spent' = Purchase!Spent + Price[f] /\ Purchase!Spent \in Nat
<1> USE DEF Priced
<1>1. IsFiniteSet(Priced)
  BY SameFinite, FS_Subset DEF Purchase!PurchaseAssumption
<1>2. \A g \in Priced : Price[g] \in Nat /\ ledger[g] \in Nat
  BY DEF Purchase!PurchaseAssumption, ChargeInv
<1>3. \A m, n \in Nat : m * n \in Nat /\ (m + 1) * n = m * n + n
  OBVIOUS
<1>4. \A g \in Priced : ledger'[g] = IF g = f THEN ledger[g] + 1 ELSE ledger[g]
  BY DEF ChargeInv
<1>5. /\ \A g \in Priced : Charges[g] = ledger[g] * Price[g] /\ Charges'[g] = ledger'[g] * Price[g]
  BY DEF Charges
<1>6. \A g \in Priced : Charges[g] \in Nat /\ Charges'[g] \in Int
  <2> SUFFICES ASSUME NEW g \in Priced PROVE Charges[g] \in Nat /\ Charges'[g] \in Int
    OBVIOUS
  <2>1. Price[g] \in Nat /\ ledger[g] \in Nat /\ ledger'[g] \in Nat
    BY <1>2, <1>4
  <2>2. ledger[g] * Price[g] \in Nat /\ ledger'[g] * Price[g] \in Nat
    BY <2>1, <1>3
  <2> QED BY <2>2, <1>5
<1>7. Charges'[f] = Charges[f] + Price[f] /\ \A g \in Priced \ {f} : Charges'[g] = Charges[g]
  <2>1. Price[f] \in Nat /\ ledger[f] \in Nat /\ ledger'[f] = ledger[f] + 1
    BY <1>2, <1>4
  <2>2. ledger'[f] * Price[f] = ledger[f] * Price[f] + Price[f]
    BY <2>1, <1>3
  <2> QED BY <2>2, <1>4, <1>5
<1> DEFINE C == Charges
           D == Charges'
           P == Priced
<1>8. SumOver(D, P) = SumOver(C, P) + (D[f] - C[f])
  <2>1. /\ IsFiniteSet(P) /\ \A x \in P : C[x] \in Int /\ D[x] \in Int
        /\ f \in P /\ \A x \in P \ {f} : D[x] = C[x]
    BY <1>1, <1>6, <1>7
  <2> HIDE DEF C, D, P
  <2> QED BY <2>1, SumChange
<1>9. SumOver(C, P) \in Nat
  <2>1. IsFiniteSet(P) /\ \A x \in P : C[x] \in Int /\ C[x] \in Nat
    BY <1>1, <1>6
  <2> HIDE DEF C, P
  <2> QED BY <2>1, SumType
<1>10. Purchase!Spent = SumOver(C, P)
  BY SpentIsTheSum
<1>11. Purchase!Spent' = SumOver(D, P)
  <2>1. (Purchase!PurchaseAssumption => Purchase!Spent = SumOver(Charges, Priced))'
    BY SpentIsTheSum, PTL
  <2> QED BY <2>1 DEF Purchase!PurchaseAssumption
<1>12. D[f] - C[f] = Price[f] /\ Price[f] \in Nat
  BY <1>2, <1>6, <1>7
<1> HIDE DEF C, D, P
<1> QED BY <1>8, <1>9, <1>10, <1>11, <1>12

(* The total moves with the ledger only.                                      *)
LEMMA SpentKept ==
  ASSUME Purchase!PurchaseAssumption, ledger' = ledger PROVE Purchase!Spent' = Purchase!Spent
<1>1. (Purchase!PurchaseAssumption => Purchase!Spent = SumOver(Charges, Priced))'
  BY SpentIsTheSum, PTL
<1>2. Charges' = Charges
  BY DEF Charges
<1>3. Purchase!Spent' = SumOver(Charges', Priced)
  BY <1>1 DEF Purchase!PurchaseAssumption, Priced
<1> QED BY <1>2, <1>3, SpentIsTheSum

(* A check against the ledger clears one buyer, or is a race.                 *)
LEMMA CheckKeepsCap ==
  ASSUME Purchase!PurchaseAssumption, ChargeInv, CapInv, NEW b \in Buyers, Purchase!Check(b)
  PROVE  CapInv'
<1>1. /\ step[b] = "priced" /\ UNCHANGED <<ledger, wants>>
      /\ step' = [step EXCEPT ![b] = IF Purchase!Affordable(wants[b]) THEN "cleared" ELSE "idle"]
      /\ raced' = IF Purchase!Others(b, {"cleared"}) THEN raced \cup {"cap"} ELSE raced
  BY DEF Purchase!Check, Purchase!Goto
<1>2. Purchase!Spent' = Purchase!Spent
  BY <1>1, SpentKept
<1>3. \A f : Purchase!Affordable(f)' <=> Purchase!Affordable(f)
  BY <1>2 DEF Purchase!Affordable
<1>4. ASSUME "cap" \notin raced'
      PROVE  "cap" \notin raced /\ \A c \in Buyers \ {b} : step[c] # "cleared"
  BY <1>1, <1>4 DEF Purchase!Others
<1>5. \A c \in Buyers : step'[c] = "cleared" =>
          IF c = b THEN Purchase!Affordable(wants[b]) ELSE step[c] = "cleared"
  BY <1>1 DEF ChargeInv
<1> QED BY <1>1, <1>2, <1>3, <1>4, <1>5 DEF CapInv

(* The one cleared buyer commits within the cap, and none is cleared then.    *)
LEMMA CommitKeepsCap ==
  ASSUME Purchase!PurchaseAssumption, ChargeInv, CapInv, NEW b \in Buyers, Purchase!Commit(b)
  PROVE  CapInv'
<1> SUFFICES ASSUME "cap" \notin raced PROVE CapInv'
  BY DEF CapInv, Purchase!Commit
<1>1. /\ step[b] = "cleared" /\ UNCHANGED <<wants, raced>> /\ wants[b] \in Wares
      /\ step' = [step EXCEPT ![b] = "committed"] /\ ledger' = [ledger EXCEPT ![wants[b]] = @ + 1]
  BY DEF Purchase!Commit, Purchase!Goto, Purchase!Charge, ChargeInv
<1>2. Purchase!Affordable(wants[b])
  BY <1>1 DEF CapInv
<1>3. wants[b] \in Priced /\ Price[wants[b]] \in Nat /\ Price[wants[b]] <= Cap - Purchase!Spent
  BY <1>1, <1>2 DEF Purchase!Affordable, Priced, Purchase!PurchaseAssumption
<1>4. Purchase!Spent' = Purchase!Spent + Price[wants[b]] /\ Purchase!Spent \in Nat
  BY <1>1, <1>3, CommitSpends
<1>5. Purchase!Spent' <= Cap
  BY <1>3, <1>4 DEF Purchase!PurchaseAssumption
<1>6. \A c \in Buyers : step'[c] # "cleared"
  BY <1>1 DEF ChargeInv, CapInv
<1> QED BY <1>5, <1>6 DEF CapInv

(* Every step keeps the cap.                                                  *)
LEMMA StepKeepsCap ==
  ASSUME Purchase!PurchaseAssumption, ChargeInv, CapInv, [Purchase!Next]_(Purchase!pvars)
  PROVE  CapInv'
<1>1. ASSUME ledger' = ledger, raced' = raced \/ raced' = raced \cup {"file"},
             \A c \in Buyers : step'[c] = "cleared" => step[c] = "cleared" /\ wants'[c] = wants[c]
      PROVE  CapInv'
  <2>1. Purchase!Spent' = Purchase!Spent
    BY <1>1, SpentKept
  <2>2. \A f : Purchase!Affordable(f)' <=> Purchase!Affordable(f)
    BY <2>1 DEF Purchase!Affordable
  <2> QED BY <1>1, <2>1, <2>2 DEF CapInv
<1>2. ASSUME NEW b \in Buyers, NEW f \in Wares, Purchase!Quote(b, f) \/ Purchase!QuoteRange(b, f)
      PROVE  CapInv'
  <2>1. /\ ledger' = ledger /\ raced' = raced /\ step[b] = "idle"
        /\ step' = [step EXCEPT ![b] = "priced"] /\ wants' = [wants EXCEPT ![b] = f]
    BY <1>2 DEF Purchase!Quote, Purchase!QuoteRange, Purchase!Ask, Purchase!Goto
  <2> QED BY <2>1, <1>1 DEF ChargeInv
<1>3. ASSUME NEW b \in Buyers, \/ Purchase!Download(b) \/ Purchase!Deliver(b) \/ Purchase!Rename(b)
                                \/ Purchase!DownloadFails(b) \/ Purchase!Kill(b)
      PROVE  CapInv'
  <2>1. /\ ledger' = ledger /\ wants' = wants /\ (raced' = raced \/ raced' = raced \cup {"file"})
        /\ \E s \in BuyerSteps \ {"cleared"} : step' = [step EXCEPT ![b] = s]
    BY <1>3 DEF Purchase!Download, Purchase!Deliver, Purchase!Rename, Purchase!DownloadFails,
                Purchase!Kill, Purchase!Goto, BuyerSteps
  <2> QED BY <2>1, <1>1 DEF ChargeInv
<1>4. CASE UNCHANGED Purchase!pvars
  BY <1>4, <1>1 DEF Purchase!pvars
<1> QED BY <1>2, <1>3, <1>4, CheckKeepsCap, CommitKeepsCap DEF Purchase!Next

(* An empty ledger is within any cap.                                         *)
LEMMA CapStarts == ASSUME Purchase!PurchaseAssumption, Purchase!Init PROVE CapInv
<1>1. \A f \in Priced : Charges[f] = 0
  <2>1. \A f \in Priced : ledger[f] = 0 /\ Price[f] \in Nat
    BY DEF Purchase!Init, Priced, Purchase!PurchaseAssumption
  <2>2. \A n \in Nat : 0 * n = 0
    OBVIOUS
  <2> QED BY <2>1, <2>2 DEF Charges
<1>2. IsFiniteSet(Priced)
  BY SameFinite, FS_Subset DEF Purchase!PurchaseAssumption, Priced
<1>3. SumOver(Charges, Priced) = 0
  <2> DEFINE C == Charges
             P == Priced
  <2>1. \A x \in P : C[x] = 0
    BY <1>1
  <2> HIDE DEF C, P
  <2>2. SumOver(C, P) = 0
    BY <1>2, <2>1, SumOfZeros DEF P
  <2> QED BY <2>2 DEF C, P
<1>4. Purchase!Spent <= Cap
  BY <1>3, SpentIsTheSum DEF Purchase!PurchaseAssumption
<1>5. \A b \in Buyers : step[b] = "idle"
  BY DEF Purchase!Init
<1> QED BY <1>4, <1>5 DEF CapInv
-----------------------------------------------------------------------------
(* A step of the composition is one of the purchase or leaves it alone.       *)
LEMMA PurchaseSteps == [Next]_vars => [Purchase!Next]_(Purchase!pvars)
BY DEF Next, vars, purchaseVars, Purchase!pvars

(* What a purchase leaves is accounted for, for any buyers, files, prices and *)
(* cap, whatever fails or is killed: every request has its charge, the ledger *)
(* stays within the cap until two buyers race, and a bought file is whole.    *)
THEOREM PurchasesAccounted == Spec => []PurchasesAreAccounted
<1> DEFINE Inv == ChargeInv /\ FilesInv /\ CapInv
<1>1. Init => Inv
  BY ChargesStart, FilesStart, CapStarts, PartsAssumption DEF Init
<1>2. Inv /\ [Next]_vars => Inv'
  BY PurchaseSteps, StepKeepsCharges, StepKeepsFiles, StepKeepsCap, PartsAssumption
<1>3. Inv => PurchasesAreAccounted
  <2>1. Inv => Purchase!RequestsAreCharged
    BY PayingIsFinite, PartsAssumption DEF ChargeInv, Purchase!RequestsAreCharged
  <2> QED BY <2>1, FilesInvShows DEF PurchasesAreAccounted, Purchase!LedgerIsPessimistic, CapInv
<1> QED BY <1>1, <1>2, <1>3, PTL DEF Spec

-----------------------------------------------------------------------------
(* What a recorded message says was traded live, and what any record up to a  *)
(* position has said.                                                         *)
EventType == [type : {"snapshot", "update"}, trades : Seq(Nat)]
LiveIn(msg) == UNION {Range(msg[e].trades) : e \in {f \in DOMAIN msg : msg[f].type = "update"}}
Known(i, n) == \E k \in 1..n : i \in LiveIn(raw[k])

(* A message lists its trades as they were executed; only one venue bundles   *)
(* events, and two of them resend nothing.                                    *)
InTurn(msg) ==
  /\ msg \in Seq(EventType)
  /\ \A e \in DOMAIN msg : Rising(msg[e].trades)
  /\ \A e, f \in DOMAIN msg : e < f => Below(msg[e].trades, msg[f].trades)
  /\ venue # "coinbase" => Len(msg) = 1
  /\ venue \in {"hyperliquid", "cme"} => \A e \in DOMAIN msg : msg[e].type = "update"

(* Why a file holds each trade once: no trade is reported live twice, for a   *)
(* connection goes on where it began, and the records report them in the      *)
(* order of execution.                                                        *)
RecordInv ==
  /\ venue \in {"kraken", "coinbase", "hyperliquid", "cme"}
  /\ executed \in Seq(Instruments \cup {Unreadable}) /\ sent \in 0..Len(executed)
  /\ venue = "cme" => \A i \in 1..Len(executed) : executed[i] # Unreadable
  /\ raw \in Seq(Seq(EventType))
  /\ \A k \in 1..Len(raw) : InTurn(raw[k]) /\ LiveIn(raw[k]) \subseteq 1..sent
  /\ \A k, l \in 1..Len(raw) : k < l =>
       \A i \in LiveIn(raw[k]), j \in LiveIn(raw[l]) : i < j

(* The trades of an instrument that the first records reported, in order.     *)
Extracted(x, s, n) ==
  /\ x \in Seq(Nat) /\ Rising(x)
  /\ Range(x) = {i \in 1..Len(executed) : executed[i] = s /\ Known(i, n)}
DatasetInv ==
  /\ pos \in 0..Len(raw)
  /\ rows \in [Instruments -> Seq(Nat)] /\ files \in [Instruments -> Seq(Nat)]
  /\ upto \in [Instruments -> Nat]
  /\ stage = "read" => \A s \in Instruments : Extracted(rows[s], s, pos)
  /\ stage = "close" => \A s \in Instruments : rows[s] # <<>> => Extracted(rows[s], s, pos)
  /\ \A s \in Instruments : files[s] # <<>> =>
       upto[s] <= Len(raw) /\ Extracted(files[s], s, upto[s])

(* The instance's operators on sequences are the library's.                   *)
LEMMA TradesLibrary ==
  /\ \A s : Trades!Range(s) = Range(s)
  /\ \A s : Trades!FlattenSeq(s) = FlattenSeq(s)
BY DEF Trades!Range, Range, Trades!FlattenSeq, FlattenSeq

(* One number is a rising sequence, and none is.                              *)
LEMMA OneRises ==
  /\ <<>> \in Seq(Nat) /\ Rising(<<>>) /\ Range(<<>>) = {}
  /\ \A i \in Nat : <<i>> \in Seq(Nat) /\ Rising(<<i>>) /\ Range(<<i>>) = {i}
<1>1. <<>> \in Seq(Nat) /\ DOMAIN <<>> = {}
  OBVIOUS
<1>2. ASSUME NEW i \in Nat PROVE <<i>> \in Seq(Nat) /\ DOMAIN <<i>> = {1} /\ <<i>>[1] = i
  OBVIOUS
<1> QED BY <1>1, <1>2 DEF Rising, Range

(* Picking the trades of some instruments keeps their order.                  *)
LEMMA OfRises ==
  ASSUME NEW S, NEW u \in Seq(Nat), Rising(u)
  PROVE  /\ Trades!Of(S, u) \in Seq(Nat) /\ Rising(Trades!Of(S, u))
         /\ Range(Trades!Of(S, u)) = {i \in Range(u) : executed[i] \in S}
<1> DEFINE f == [k \in DOMAIN u |-> IF executed[u[k]] \in S THEN <<u[k]>> ELSE <<>>]
<1>0. DOMAIN u = 1..Len(u) /\ Len(u) \in Nat /\ \A k \in DOMAIN u : u[k] \in Nat
  OBVIOUS
<1>1. \A k \in DOMAIN u : /\ f[k] \in Seq(Nat) /\ Rising(f[k])
                          /\ Range(f[k]) = IF executed[u[k]] \in S THEN {u[k]} ELSE {}
  BY <1>0, OneRises
<1>2. f \in Seq(Seq(Nat)) /\ DOMAIN f = DOMAIN u
  BY <1>0, <1>1
<1>3. Trades!Of(S, u) = FlattenSeq(f)
  BY TradesLibrary DEF Trades!Of
<1> HIDE DEF f
<1>4. Climbs(f)
  <2>1. ASSUME NEW k \in DOMAIN u, NEW l \in DOMAIN u, k < l PROVE Below(f[k], f[l])
    BY <1>1, <2>1 DEF Below, Rising
  <2> QED BY <1>1, <1>2, <2>1 DEF Climbs
<1>5. /\ FlattenSeq(f) \in Seq(Nat) /\ Rising(FlattenSeq(f))
      /\ Range(FlattenSeq(f)) = Gathered(f)
  BY <1>2, <1>4, FlattenRising
<1>6. Gathered(f) = {i \in Range(u) : executed[i] \in S}
  <2>1. ASSUME NEW i \in Gathered(f) PROVE i \in Range(u) /\ executed[i] \in S
    <3>1. PICK k \in DOMAIN u : i \in Range(f[k])
      BY <1>2 DEF Gathered
    <3> QED BY <1>1, <3>1 DEF Range
  <2>2. ASSUME NEW i \in Range(u), executed[i] \in S PROVE i \in Gathered(f)
    <3>1. PICK k \in DOMAIN u : i = u[k]
      BY DEF Range
    <3>2. i \in Range(f[k])
      BY <1>1, <2>2, <3>1
    <3> QED BY <1>2, <3>2 DEF Gathered
  <2> QED BY <2>1, <2>2
<1> QED BY <1>3, <1>5, <1>6

(* A message of one event says live what that event says.                     *)
LEMMA LiveInOne ==
  ASSUME NEW msg \in Seq(EventType), Len(msg) = 1
  PROVE  /\ msg[1].trades \in Seq(Nat) /\ DOMAIN msg = {1}
         /\ LiveIn(msg) = IF msg[1].type = "update" THEN Range(msg[1].trades) ELSE {}
<1>1. DOMAIN msg = {1} /\ msg[1] \in EventType
  OBVIOUS
<1> QED BY <1>1 DEF EventType, LiveIn

(* Every parser yields the readable trades a message reports live, in order.  *)
LEMMA ParseRises ==
  ASSUME RecordInv, NEW k \in 1..Len(raw)
  PROVE  /\ Trades!Parse(raw[k]) \in Seq(Nat) /\ Rising(Trades!Parse(raw[k]))
         /\ Range(Trades!Parse(raw[k])) = {i \in LiveIn(raw[k]) : executed[i] \in Instruments}
<1> DEFINE msg == raw[k]
<1>1. /\ InTurn(msg) /\ LiveIn(msg) \subseteq 1..sent /\ sent \in 0..Len(executed)
      /\ venue \in {"kraken", "coinbase", "hyperliquid", "cme"}
      /\ \A i \in 1..Len(executed) : executed[i] \in Instruments \cup {Unreadable}
      /\ venue = "cme" => \A i \in 1..Len(executed) : executed[i] # Unreadable
  BY DEF RecordInv
<1> HIDE DEF msg
<1> DEFINE Right(p) == /\ p \in Seq(Nat) /\ Rising(p)
                       /\ Range(p) = {i \in LiveIn(msg) : executed[i] \in Instruments}
<1>2. ASSUME NEW u \in Seq(Nat), Rising(u)
      PROVE  /\ Trades!Readable(u) \in Seq(Nat) /\ Rising(Trades!Readable(u))
             /\ Range(Trades!Readable(u)) = {i \in Range(u) : executed[i] \in Instruments}
  BY <1>2, OfRises DEF Trades!Readable
<1>3. ASSUME venue = "kraken" PROVE Right(Trades!Parse(msg))
  <2>1. /\ msg[1].trades \in Seq(Nat) /\ Rising(msg[1].trades)
        /\ LiveIn(msg) = IF msg[1].type = "update" THEN Range(msg[1].trades) ELSE {}
    BY <1>1, <1>3, LiveInOne DEF InTurn
  <2>2. Trades!Parse(msg) = IF msg[1].type # "update" THEN <<>> ELSE Trades!Readable(msg[1].trades)
    BY <1>3 DEF Trades!Parse, Trades!KrakenRows
  <2> QED BY <1>2, <2>1, <2>2, OneRises
<1>4. ASSUME venue = "hyperliquid" PROVE Right(Trades!Parse(msg))
  <2>1. /\ msg[1].trades \in Seq(Nat) /\ Rising(msg[1].trades)
        /\ LiveIn(msg) = Range(msg[1].trades)
    BY <1>1, <1>4, LiveInOne DEF InTurn
  <2>2. Trades!Parse(msg) = Trades!Readable(msg[1].trades)
    BY <1>4 DEF Trades!Parse, Trades!HyperliquidRows
  <2> QED BY <1>2, <2>1, <2>2
<1>5. ASSUME venue = "cme" PROVE Right(Trades!Parse(msg))
  <2>1. /\ msg[1].trades \in Seq(Nat) /\ Rising(msg[1].trades)
        /\ LiveIn(msg) = Range(msg[1].trades)
    BY <1>1, <1>5, LiveInOne DEF InTurn
  <2>2. Trades!Parse(msg) = msg[1].trades
    BY <1>5 DEF Trades!Parse, Trades!VendorRow
  <2>3. \A i \in LiveIn(msg) : executed[i] \in Instruments
    <3>1. \A i \in LiveIn(msg) : i \in 1..Len(executed)
      BY <1>1
    <3> QED BY <1>1, <1>5, <3>1
  <2> QED BY <2>1, <2>2, <2>3
<1>6. ASSUME venue = "coinbase" PROVE Right(Trades!Parse(msg))
  <2> DEFINE f == [e \in DOMAIN msg |-> IF msg[e].type # "update" THEN <<>>
                                        ELSE Trades!Readable(msg[e].trades)]
  <2>1. /\ msg \in Seq(EventType) /\ DOMAIN msg = 1..Len(msg) /\ Len(msg) \in Nat
        /\ \A e \in DOMAIN msg : Rising(msg[e].trades) /\ msg[e].trades \in Seq(Nat)
        /\ \A e, g \in DOMAIN msg : e < g => Below(msg[e].trades, msg[g].trades)
    <3>1. msg \in Seq(EventType)
      BY <1>1 DEF InTurn
    <3>2. DOMAIN msg = 1..Len(msg) /\ Len(msg) \in Nat /\ \A e \in DOMAIN msg : msg[e] \in EventType
      BY <3>1
    <3>3. \A e \in DOMAIN msg : msg[e].trades \in Seq(Nat)
      BY <3>2 DEF EventType
    <3> QED BY <1>1, <3>1, <3>2, <3>3 DEF InTurn
  <2>2. \A e \in DOMAIN msg :
          /\ f[e] \in Seq(Nat) /\ Rising(f[e])
          /\ Range(f[e]) = IF msg[e].type # "update" THEN {}
                           ELSE {i \in Range(msg[e].trades) : executed[i] \in Instruments}
    BY <1>2, <2>1, OneRises
  <2>3. f \in Seq(Seq(Nat)) /\ DOMAIN f = DOMAIN msg
    <3>1. DOMAIN f = 1..Len(msg) /\ Len(msg) \in Nat /\ f = [e \in 1..Len(msg) |-> f[e]]
      BY <2>1
    <3> HIDE DEF f
    <3>2. \A e \in 1..Len(msg) : f[e] \in Seq(Nat)
      BY <2>1, <2>2
    <3>3. f \in [1..Len(msg) -> Seq(Nat)]
      BY <3>1, <3>2
    <3> QED BY <2>1, <3>1, <3>3
  <2>4. Trades!Parse(msg) = FlattenSeq(f)
    BY <1>6, TradesLibrary DEF Trades!Parse, Trades!CoinbaseRows
  <2> HIDE DEF f
  <2>5. Climbs(f)
    <3>1. ASSUME NEW e \in DOMAIN msg, NEW g \in DOMAIN msg, e < g PROVE Below(f[e], f[g])
      <4>1. Below(msg[e].trades, msg[g].trades)
        BY <2>1, <3>1
      <4> QED BY <2>2, <4>1 DEF Below
    <3> QED BY <2>2, <2>3, <3>1 DEF Climbs
  <2>6. /\ FlattenSeq(f) \in Seq(Nat) /\ Rising(FlattenSeq(f))
        /\ Range(FlattenSeq(f)) = Gathered(f)
    BY <2>3, <2>5, FlattenRising
  <2>7. Gathered(f) = {i \in LiveIn(msg) : executed[i] \in Instruments}
    <3>1. ASSUME NEW i \in Gathered(f) PROVE i \in LiveIn(msg) /\ executed[i] \in Instruments
      <4>1. PICK e \in DOMAIN msg : i \in Range(f[e])
        BY <2>3 DEF Gathered
      <4>2. msg[e].type = "update" /\ i \in Range(msg[e].trades) /\ executed[i] \in Instruments
        BY <2>2, <4>1
      <4> QED BY <4>2 DEF LiveIn
    <3>2. ASSUME NEW i \in LiveIn(msg), executed[i] \in Instruments PROVE i \in Gathered(f)
      <4>1. PICK e \in DOMAIN msg : msg[e].type = "update" /\ i \in Range(msg[e].trades)
        BY DEF LiveIn
      <4>2. i \in Range(f[e])
        BY <2>2, <3>2, <4>1
      <4> QED BY <2>3, <4>2 DEF Gathered
    <3> QED BY <3>1, <3>2
  <2> QED BY <2>4, <2>6, <2>7
<1>7. Right(Trades!Parse(msg))
  BY <1>1, <1>3, <1>4, <1>5, <1>6
<1> QED BY <1>7 DEF msg

(* The venue trades and the recording goes on behind what is there.           *)
CaptureGrows ==
  /\ Len(executed) <= Len(executed') /\ Len(executed') \in Nat
  /\ \A i \in 1..Len(executed) : executed'[i] = executed[i]
  /\ Len(raw) <= Len(raw') /\ Len(raw') \in Nat /\ \A k \in 1..Len(raw) : raw'[k] = raw[k]

(* What was extracted stays right while the record grows.                     *)
LEMMA ExtractedStays ==
  ASSUME RecordInv, CaptureGrows, NEW x, NEW s, NEW n \in Nat, n <= Len(raw), Extracted(x, s, n)
  PROVE  Extracted(x, s, n)'
<1>1. \A i : Known(i, n)' <=> Known(i, n)
  <2>1. \A k \in 1..n : raw'[k] = raw[k]
    BY DEF CaptureGrows, RecordInv
  <2> QED BY <2>1 DEF Known
<1>2. \A i : Known(i, n) => i \in 1..Len(executed)
  <2>1. \A k \in 1..n : k \in 1..Len(raw)
    BY DEF RecordInv
  <2>2. \A k \in 1..Len(raw) : \A i \in LiveIn(raw[k]) : i \in 1..Len(executed)
    <3>1. sent \in Nat /\ sent <= Len(executed) /\ Len(executed) \in Nat
      BY DEF RecordInv
    <3>2. \A k \in 1..Len(raw) : LiveIn(raw[k]) \subseteq 1..sent
      BY DEF RecordInv
    <3>3. \A i \in 1..sent : i \in 1..Len(executed)
      BY <3>1
    <3> QED BY ONLY <3>2, <3>3
  <2> QED BY <2>1, <2>2 DEF Known
<1>3. {i \in 1..Len(executed) : executed[i] = s /\ Known(i, n)}
        = {i \in 1..Len(executed') : executed'[i] = s /\ Known(i, n)'}
  BY <1>1, <1>2 DEF CaptureGrows, RecordInv
<1> QED BY <1>3 DEF Extracted

(* So no step of the venue or the recorder harms the dataset.                 *)
LEMMA CaptureKeepsDataset ==
  ASSUME RecordInv, DatasetInv, CaptureGrows, UNCHANGED <<stage, pos, rows, files, upto>>
  PROVE  DatasetInv'
<1>1. pos' \in 0..Len(raw') /\ pos \in Nat /\ pos <= Len(raw)
  BY DEF DatasetInv, CaptureGrows, RecordInv
<1>2. rows' \in [Instruments -> Seq(Nat)] /\ files' \in [Instruments -> Seq(Nat)] /\ upto' \in [Instruments -> Nat]
  BY DEF DatasetInv
<1>3. ASSUME NEW s \in Instruments, files'[s] # <<>>
      PROVE  upto'[s] <= Len(raw') /\ Extracted(files[s], s, upto[s])'
  <2>0. PICK n \in Nat : n = upto[s] /\ n = upto'[s]
    BY DEF DatasetInv
  <2>1. PICK x : x = files[s] /\ n = upto[s] /\ x = files'[s] /\ n = upto'[s]
    BY <2>0
  <2>2. n <= Len(raw) /\ Extracted(x, s, n)
    BY <1>3, <2>1 DEF DatasetInv
  <2>3. Extracted(x, s, n)'
    BY <2>2, ExtractedStays
  <2>4. n <= Len(raw')
    BY <2>2 DEF CaptureGrows, RecordInv
  <2> QED BY <2>1, <2>3, <2>4 DEF Extracted, Known
<1>4. ASSUME NEW s \in Instruments, Extracted(rows[s], s, pos)
      PROVE  Extracted(rows[s], s, pos)'
  <2>0. PICK n \in Nat : n = pos /\ n = pos'
    BY <1>1
  <2>1. PICK x : x = rows[s] /\ n = pos /\ x = rows'[s] /\ n = pos'
    BY <2>0
  <2>2. n <= Len(raw) /\ Extracted(x, s, n)
    BY <1>1, <1>4, <2>1
  <2>3. Extracted(x, s, n)'
    BY <2>2, ExtractedStays
  <2> QED BY <2>1, <2>3 DEF Extracted, Known
<1>5. stage' = "read" => \A s \in Instruments : Extracted(rows[s], s, pos)'
  BY <1>4 DEF DatasetInv
<1>6. stage' = "close" => \A s \in Instruments : rows'[s] # <<>> => Extracted(rows[s], s, pos)'
  BY <1>4 DEF DatasetInv
<1> QED BY <1>1, <1>2, <1>3, <1>5, <1>6 DEF DatasetInv

(* A record read puts what it reports behind what was reported before it.     *)
LEMMA ReadKeepsDataset ==
  ASSUME RecordInv, DatasetInv, Trades!Read PROVE DatasetInv'
<1> DEFINE n == pos + 1
           p == Trades!Parse(raw[n])
           new(s) == Trades!Of({s}, p)
<1>1. /\ stage = "read" /\ stage' = "read" /\ pos' = n /\ n \in 1..Len(raw) /\ pos \in Nat /\ n = pos + 1
      /\ rows' = [s \in Instruments |-> rows[s] \o new(s)]
      /\ UNCHANGED <<executed, raw, files, upto>>
  BY DEF Trades!Read, Trades!AppendRows, Trades!capture, DatasetInv, RecordInv
<1>2. /\ p \in Seq(Nat) /\ Rising(p)
      /\ Range(p) = {i \in LiveIn(raw[n]) : executed[i] \in Instruments}
  <2> HIDE DEF n
  <2> QED BY <1>1, ParseRises
<1> HIDE DEF n, p
<1>3. \A s : /\ new(s) \in Seq(Nat) /\ Rising(new(s))
             /\ Range(new(s)) = {i \in Range(p) : executed[i] \in {s}}
  BY <1>2, OfRises
<1> HIDE DEF new
<1>4. ASSUME NEW s \in Instruments
      PROVE  rows'[s] \in Seq(Nat) /\ Extracted(rows[s], s, pos)'
  <2>1. /\ rows[s] \in Seq(Nat) /\ Rising(rows[s])
        /\ Range(rows[s]) = {i \in 1..Len(executed) : executed[i] = s /\ Known(i, pos)}
    BY <1>1 DEF DatasetInv, Extracted
  <2>2. Range(new(s)) = {i \in LiveIn(raw[n]) : executed[i] = s}
    BY <1>2, <1>3
  <2>3. Below(rows[s], new(s))
    <3>1. ASSUME NEW x \in Range(rows[s]), NEW y \in Range(new(s)) PROVE x < y
      <4>1. PICK k \in 1..pos : x \in LiveIn(raw[k])
        BY <2>1 DEF Known
      <4>2. k \in 1..Len(raw) /\ n \in 1..Len(raw) /\ k < n
        BY <1>1
      <4>3. y \in LiveIn(raw[n])
        BY <2>2
      <4> QED BY <4>1, <4>2, <4>3 DEF RecordInv
    <3> QED BY <3>1 DEF Below
  <2>4. rows'[s] = rows[s] \o new(s)
    BY <1>1
  <2>5. /\ rows'[s] \in Seq(Nat) /\ Rising(rows'[s])
        /\ Range(rows'[s]) = Range(rows[s]) \cup Range(new(s))
    BY <1>3, <2>1, <2>3, <2>4, RisingConcat
  <2>6. \A i : Known(i, n) <=> Known(i, pos) \/ i \in LiveIn(raw[n])
    <3>1. 1..n = 1..pos \cup {n}
      BY <1>1
    <3> QED BY <3>1 DEF Known
  <2>7. LiveIn(raw[n]) \subseteq 1..Len(executed)
    <3>1. sent \in Nat /\ sent <= Len(executed) /\ Len(executed) \in Nat
      BY DEF RecordInv
    <3>2. LiveIn(raw[n]) \subseteq 1..sent
      BY <1>1 DEF RecordInv
    <3> QED BY <3>1, <3>2
  <2>8. Range(rows'[s]) = {i \in 1..Len(executed) : executed[i] = s /\ Known(i, n)}
    BY <2>1, <2>2, <2>5, <2>6, <2>7
  <2>9. {i \in 1..Len(executed') : executed'[i] = s /\ Known(i, pos)'}
          = {i \in 1..Len(executed) : executed[i] = s /\ Known(i, n)}
    BY <1>1 DEF Known
  <2> QED BY <2>5, <2>8, <2>9 DEF Extracted
<1>5. pos' \in 0..Len(raw') /\ rows' \in [Instruments -> Seq(Nat)]
  <2>1. rows' = [s \in Instruments |-> rows'[s]]
    BY <1>1
  <2> QED BY <1>1, <1>4, <2>1
<1>6. \A s \in Instruments : files'[s] # <<>> => upto'[s] <= Len(raw') /\ Extracted(files[s], s, upto[s])'
  BY <1>1 DEF DatasetInv, Extracted, Known
<1>7. files' \in [Instruments -> Seq(Nat)] /\ upto' \in [Instruments -> Nat]
  BY <1>1 DEF DatasetInv
<1> QED BY <1>1, <1>4, <1>5, <1>6, <1>7 DEF DatasetInv

(* The other steps of a run: it starts empty, and closes what it has read.    *)
LEMMA RunKeepsDataset ==
  ASSUME RecordInv, DatasetInv,
         Trades!Start \/ Trades!ReachEnd \/ Trades!Close \/ Trades!Finish \/ Trades!Kill
  PROVE  DatasetInv'
<1>0. UNCHANGED <<executed, raw>> /\ Len(raw) \in Nat
  BY DEF Trades!Start, Trades!ReachEnd, Trades!Close, Trades!Finish, Trades!Kill, Trades!capture, RecordInv
<1>1. CASE Trades!Start
  <2>1. /\ stage' = "read" /\ pos' = 0 /\ rows' = [s \in Instruments |-> <<>>] /\ UNCHANGED <<files, upto>>
    BY <1>1 DEF Trades!Start, Trades!Empty
  <2>2. ASSUME NEW s \in Instruments PROVE Extracted(rows[s], s, pos)'
    <3>1. rows'[s] = <<>>
      BY <2>1
    <3>2. \A i : ~Known(i, pos)'
      BY <2>1 DEF Known
    <3> QED BY <3>1, <3>2, OneRises DEF Extracted
  <2>3. rows' \in [Instruments -> Seq(Nat)] /\ pos' \in 0..Len(raw')
    BY <1>0, <2>1
  <2> QED BY <1>0, <2>1, <2>2, <2>3 DEF DatasetInv, Extracted, Known
<1>2. CASE Trades!ReachEnd
  <2>1. stage = "read" /\ stage' = "close" /\ UNCHANGED <<pos, rows, files, upto>>
    BY <1>2 DEF Trades!ReachEnd
  <2> QED BY <1>0, <2>1 DEF DatasetInv, Extracted, Known
<1>3. CASE Trades!Close
  <2> DEFINE w == Trades!FirstWriter
  <2>1. /\ stage = "close" /\ stage' = "close" /\ UNCHANGED pos
        /\ files' = [files EXCEPT ![w] = rows[w]] /\ upto' = [upto EXCEPT ![w] = pos]
        /\ rows' = [rows EXCEPT ![w] = <<>>]
    BY <1>3 DEF Trades!Close
  <2> HIDE DEF w
  <2>2. /\ files \in [Instruments -> Seq(Nat)] /\ rows \in [Instruments -> Seq(Nat)]
        /\ upto \in [Instruments -> Nat] /\ pos \in 0..Len(raw) /\ <<>> \in Seq(Nat)
    BY DEF DatasetInv
  <2>3. /\ files' \in [Instruments -> Seq(Nat)] /\ rows' \in [Instruments -> Seq(Nat)]
        /\ upto' \in [Instruments -> Nat] /\ pos' \in 0..Len(raw')
    <3>1. w \in Instruments => rows[w] \in Seq(Nat)
      BY <2>2
    <3>2. files' \in [Instruments -> Seq(Nat)]
      BY <2>1, <2>2, <3>1
    <3>3. rows' \in [Instruments -> Seq(Nat)]
      BY <2>1, <2>2
    <3>4. upto' \in [Instruments -> Nat]
      <4>1. pos \in Nat
        BY <2>2
      <4> QED BY <2>1, <2>2, <4>1
    <3> QED BY <1>0, <2>1, <2>2, <3>2, <3>3, <3>4
  <2>4. \A s \in Instruments :
          \/ s = w /\ files'[s] = rows[s] /\ upto'[s] = pos /\ rows'[s] = <<>>
          \/ s # w /\ files'[s] = files[s] /\ upto'[s] = upto[s] /\ rows'[s] = rows[s]
    BY <2>1, <2>2
  <2>5. ASSUME NEW s \in Instruments, files'[s] # <<>>
        PROVE  upto'[s] <= Len(raw') /\ Extracted(files[s], s, upto[s])'
    <3>1. CASE s = w
      <4>1. Extracted(rows[s], s, pos) /\ files'[s] = rows[s] /\ upto'[s] = pos
        BY <2>1, <2>4, <2>5, <3>1 DEF DatasetInv
      <4> QED BY <1>0, <2>2, <4>1 DEF Extracted, Known
    <3>2. CASE s # w
      <4>1. upto[s] <= Len(raw) /\ Extracted(files[s], s, upto[s]) /\ files'[s] = files[s] /\ upto'[s] = upto[s]
        BY <2>4, <2>5, <3>2 DEF DatasetInv
      <4> QED BY <1>0, <4>1 DEF Extracted, Known
    <3> QED BY <3>1, <3>2
  <2>6. ASSUME NEW s \in Instruments, rows'[s] # <<>> PROVE Extracted(rows[s], s, pos)'
    <3>1. Extracted(rows[s], s, pos) /\ rows'[s] = rows[s]
      BY <2>1, <2>4, <2>6 DEF DatasetInv
    <3> QED BY <1>0, <2>1, <3>1 DEF Extracted, Known
  <2> QED BY <2>1, <2>3, <2>5, <2>6 DEF DatasetInv
<1>4. CASE Trades!Finish \/ Trades!Kill
  <2>1. /\ stage' = "idle" /\ UNCHANGED <<pos, files, upto>>
        /\ rows' = rows \/ rows' = [s \in Instruments |-> <<>>]
    BY <1>4 DEF Trades!Finish, Trades!Kill, Trades!Empty
  <2>2. rows' \in [Instruments -> Seq(Nat)]
    <3>1. [s \in Instruments |-> <<>>] \in [Instruments -> Seq(Nat)]
      BY OneRises
    <3> QED BY <2>1, <3>1 DEF DatasetInv
  <2> QED BY <1>0, <2>1, <2>2 DEF DatasetInv, Extracted, Known
<1> QED BY <1>1, <1>2, <1>3, <1>4

(* A trade on the venue, a subscription or a lost connection keeps the record *)
(* in order.                                                                  *)
LEMMA VenueKeepsRecord ==
  ASSUME PartsAssumption, RecordInv, NEW s \in Instruments \cup {Unreadable},
         Trades!Trade(s) \/ Trades!Disconnect
  PROVE  RecordInv' /\ CaptureGrows /\ UNCHANGED <<stage, pos, rows, files, upto>>
<1>0. /\ venue' = venue /\ raw' = raw /\ UNCHANGED <<stage, pos, rows, files, upto>> /\ sent' = sent
      /\ executed' = executed \/ (executed' = Append(executed, s) /\ (venue = "cme" => s # Unreadable))
  BY DEF Trades!Trade, Trades!Disconnect, Trades!dataset
<1>1. /\ executed \in Seq(Instruments \cup {Unreadable}) /\ sent \in 0..Len(executed) /\ Len(executed) \in Nat
      /\ venue = "cme" => \A i \in 1..Len(executed) : executed[i] # Unreadable
  BY DEF RecordInv
<1>2. /\ executed' \in Seq(Instruments \cup {Unreadable}) /\ Len(executed) <= Len(executed')
      /\ Len(executed') \in Nat /\ \A i \in 1..Len(executed) : executed'[i] = executed[i]
  BY <1>0, <1>1
<1>3. venue = "cme" => \A i \in 1..Len(executed') : executed'[i] # Unreadable
  BY <1>0, <1>1
<1>4. sent' \in 0..Len(executed')
  BY <1>0, <1>1, <1>2
<1>5. RecordInv'
  BY <1>0, <1>2, <1>3, <1>4 DEF RecordInv, InTurn
<1> QED BY <1>0, <1>2, <1>5 DEF CaptureGrows, RecordInv

(* Messages of what has not been reported yet, in order, behind the record.   *)
LEMMA DeliveredInTurn ==
  ASSUME PartsAssumption, RecordInv, NEW more \in Seq(Seq(EventType)), UNCHANGED <<venue, executed>>,
         sent' \in sent..Len(executed), raw' = raw \o more,
         \A k \in 1..Len(more) : InTurn(more[k]) /\ LiveIn(more[k]) \subseteq sent + 1..sent',
         \A k, l \in 1..Len(more) : k < l => \A i \in LiveIn(more[k]), j \in LiveIn(more[l]) : i < j,
         UNCHANGED <<stage, pos, rows, files, upto>>
  PROVE  RecordInv' /\ CaptureGrows
<1> DEFINE m == Len(raw)  d == Len(more)
<1>1. /\ raw \in Seq(Seq(EventType)) /\ m \in Nat /\ d \in Nat /\ Len(executed) \in Nat
      /\ sent \in Nat /\ sent <= Len(executed)
  BY DEF RecordInv
<1>2. /\ raw' \in Seq(Seq(EventType)) /\ Len(raw') = m + d
      /\ \A k \in 1..m : raw'[k] = raw[k]
      /\ \A k \in m + 1..m + d : raw'[k] = more[k - m]
  BY <1>1, ConcatProperties
<1>21. \A k \in 1..m : InTurn(raw[k]) /\ LiveIn(raw[k]) \subseteq 1..sent
  BY DEF RecordInv
<1>22. \A k, l \in 1..m : k < l => \A i \in LiveIn(raw[k]), j \in LiveIn(raw[l]) : i < j
  BY DEF RecordInv
<1>23. \A k \in 1..d : InTurn(more[k]) /\ LiveIn(more[k]) \subseteq sent + 1..sent'
  OBVIOUS
<1>24. \A k, l \in 1..d : k < l => \A i \in LiveIn(more[k]), j \in LiveIn(more[l]) : i < j
  OBVIOUS
<1> HIDE DEF m, d
<1>3. ASSUME NEW k \in 1..m + d PROVE InTurn(raw[k])' /\ LiveIn(raw'[k]) \subseteq 1..sent'
  <2>0. k \in Nat /\ (k <= m \/ k > m)
    BY <1>1
  <2>1. CASE k <= m
    <3>1. raw'[k] = raw[k] /\ InTurn(raw[k]) /\ LiveIn(raw[k]) \subseteq 1..sent
      BY <1>1, <1>2, <1>21, <2>1
    <3>2. 1..sent \subseteq 1..sent'
      BY <1>1
    <3> QED BY <3>1, <3>2 DEF InTurn
  <2>2. CASE k > m
    <3>1. k - m \in 1..d /\ k \in m + 1..m + d
      BY <1>1, <2>2
    <3>2. raw'[k] = more[k - m] /\ InTurn(more[k - m]) /\ LiveIn(more[k - m]) \subseteq sent + 1..sent'
      BY <1>2, <1>23, <3>1
    <3>3. sent + 1..sent' \subseteq 1..sent'
      BY <1>1
    <3> QED BY <3>2, <3>3 DEF InTurn
  <2> QED BY ONLY <2>0, <2>1, <2>2
<1>4. ASSUME NEW k \in 1..m + d, NEW l \in 1..m + d, k < l,
             NEW i \in LiveIn(raw'[k]), NEW j \in LiveIn(raw'[l])
      PROVE  i < j
  <2>1. CASE l <= m
    <3>1. k \in 1..m /\ l \in 1..m
      BY <1>1, <1>4, <2>1
    <3> QED BY <1>2, <1>22, <1>4, <3>1
  <2>2. CASE k <= m /\ l > m
    <3>1. k \in 1..m /\ l - m \in 1..d /\ l \in m + 1..m + d
      BY <1>1, <2>2
    <3>2. i \in 1..sent
      BY <1>2, <1>21, <3>1
    <3>3. j \in sent + 1..sent'
      BY <1>2, <1>23, <3>1
    <3> QED BY <1>1, <3>2, <3>3
  <2>3. CASE k > m
    <3>1. /\ k - m \in 1..d /\ k \in m + 1..m + d /\ l - m \in 1..d /\ l \in m + 1..m + d
          /\ k - m < l - m
      BY <1>1, <1>4, <2>3
    <3>2. i \in LiveIn(more[k - m]) /\ j \in LiveIn(more[l - m])
      BY <1>2, <3>1
    <3> QED BY <1>24, <3>1, <3>2
  <2> QED BY <1>1, <2>1, <2>2, <2>3
<1>5. sent' \in 0..Len(executed')
  BY <1>1
<1>6. /\ venue' \in {"kraken", "coinbase", "hyperliquid", "cme"}
      /\ executed' \in Seq(Instruments \cup {Unreadable})
      /\ venue' = "cme" => \A i \in 1..Len(executed') : executed'[i] # Unreadable
  BY DEF RecordInv
<1>7. RecordInv'
  <2>1. /\ \A k \in 1..Len(raw') : InTurn(raw[k])' /\ LiveIn(raw'[k]) \subseteq 1..sent'
        /\ \A k, l \in 1..Len(raw') : k < l => \A i \in LiveIn(raw'[k]), j \in LiveIn(raw'[l]) : i < j
    BY <1>2, <1>3, <1>4
  <2> QED BY <1>2, <1>5, <1>6, <2>1 DEF RecordInv
<1>8. CaptureGrows
  <2>1. Len(raw) <= Len(raw') /\ Len(raw') \in Nat /\ \A k \in 1..Len(raw) : raw'[k] = raw[k]
    BY <1>1, <1>2 DEF m
  <2> QED BY <1>1, <2>1 DEF CaptureGrows
<1> QED BY <1>7, <1>8

(* A list of trades in the order of execution, one event or many.             *)
LEMMA OneEventInTurn ==
  ASSUME NEW u \in Seq(Nat), Rising(u), NEW t \in {"snapshot", "update"},
         venue \in {"hyperliquid", "cme"} => t = "update"
  PROVE  /\ <<[type |-> t, trades |-> u]>> \in Seq(EventType)
         /\ InTurn(<<[type |-> t, trades |-> u]>>)
         /\ LiveIn(<<[type |-> t, trades |-> u]>>) = IF t = "update" THEN Range(u) ELSE {}
<1> DEFINE e == [type |-> t, trades |-> u]
           msg == <<e>>
<1>1. e \in EventType /\ e.type = t /\ e.trades = u
  BY DEF EventType
<1> HIDE DEF e
<1>2. msg \in Seq(EventType) /\ Len(msg) = 1 /\ DOMAIN msg = {1} /\ msg[1] = e
  BY <1>1
<1> HIDE DEF msg
<1>3. InTurn(msg)
  BY <1>1, <1>2 DEF InTurn
<1>4. LiveIn(msg) = IF t = "update" THEN Range(u) ELSE {}
  BY <1>1, <1>2 DEF LiveIn
<1> QED BY <1>2, <1>3, <1>4 DEF e, msg

(* The trades between two counts.                                             *)
LEMMA CountedRises ==
  ASSUME NEW a \in Nat, NEW b \in Nat, a <= b
  PROVE  /\ [i \in 1..(b - a) |-> a + i] \in Seq(Nat) /\ Rising([i \in 1..(b - a) |-> a + i])
         /\ Range([i \in 1..(b - a) |-> a + i]) \subseteq a + 1..b
<1>1. b - a \in Nat
  OBVIOUS
<1>2. \A i \in 1..(b - a) : a + i \in a + 1..b /\ a + i \in Nat
  OBVIOUS
<1>3. [i \in 1..(b - a) |-> a + i] \in Seq(Nat)
  BY <1>1, <1>2
<1>5. Rising([i \in 1..(b - a) |-> a + i])
  BY DEF Rising
<1>6. Range([i \in 1..(b - a) |-> a + i]) \subseteq a + 1..b
  BY <1>2 DEF Range
<1> QED BY <1>3, <1>5, <1>6

(* All the trades up to a count.                                              *)
LEMMA AllRise == \A b \in Nat : [i \in 1..b |-> i] \in Seq(Nat) /\ Rising([i \in 1..b |-> i])
BY DEF Rising

(* A subscription reports nothing live and starts counting where it began.    *)
LEMMA ConnectKeepsRecord ==
  ASSUME PartsAssumption, RecordInv, Trades!Connect
  PROVE  RecordInv' /\ CaptureGrows /\ UNCHANGED <<stage, pos, rows, files, upto>>
<1> DEFINE before == [i \in 1..Len(executed) |-> i]
           msg == <<[type |-> "snapshot", trades |-> before]>>
<1>1. /\ Len(executed) \in Nat /\ sent \in 0..Len(executed) /\ raw \in Seq(Seq(EventType))
  BY DEF RecordInv
<1>2. /\ UNCHANGED <<venue, executed>> /\ sent' = Len(executed) /\ UNCHANGED <<stage, pos, rows, files, upto>>
      /\ raw' = raw \/ (raw' = Append(raw, msg) /\ venue \notin {"hyperliquid", "cme"})
  BY DEF Trades!Connect, Trades!dataset, Trades!Event
<1>3. before \in Seq(Nat) /\ Rising(before)
  BY <1>1, AllRise
<1> HIDE DEF before
<1>4. CASE raw' = raw
  <2> DEFINE more == <<>>
  <2>1. more \in Seq(Seq(EventType)) /\ raw' = raw \o more /\ 1..Len(more) = {}
    BY <1>1, <1>4, ConcatEmptySeq
  <2> HIDE DEF more
  <2>2. sent' \in sent..Len(executed)
    BY <1>1, <1>2
  <2>3. /\ \A k \in 1..Len(more) : InTurn(more[k]) /\ LiveIn(more[k]) \subseteq sent + 1..sent'
        /\ \A k, l \in 1..Len(more) : k < l => \A i \in LiveIn(more[k]), j \in LiveIn(more[l]) : i < j
    BY <2>1
  <2> QED BY <1>2, <2>1, <2>2, <2>3, DeliveredInTurn
<1>5. CASE raw' = Append(raw, msg) /\ venue \notin {"hyperliquid", "cme"}
  <2>1. msg \in Seq(EventType) /\ InTurn(msg) /\ LiveIn(msg) = {}
    BY <1>3, <1>5, OneEventInTurn
  <2> HIDE DEF msg
  <2> DEFINE more == <<msg>>
  <2>2. more \in Seq(Seq(EventType)) /\ Len(more) = 1 /\ more[1] = msg /\ raw' = raw \o more
    BY <1>1, <1>5, <2>1, AppendIsConcat
  <2> HIDE DEF more
  <2>3. sent' \in sent..Len(executed)
    BY <1>1, <1>2
  <2>4. \A k \in 1..Len(more) : more[k] = msg
    BY <2>2
  <2> QED BY <1>2, <2>1, <2>2, <2>3, <2>4, DeliveredInTurn
<1> QED BY <1>2, <1>4, <1>5

(* A delivery reports what was traded since the last one.                     *)
LEMMA DeliverKeepsRecord ==
  ASSUME PartsAssumption, RecordInv, Trades!Deliver
  PROVE  RecordInv' /\ CaptureGrows /\ UNCHANGED <<stage, pos, rows, files, upto>>
<1> DEFINE new == [i \in 1..(Len(executed) - sent) |-> sent + i]
           one(i) == [type |-> "update", trades |-> <<new[i]>>]
           bundle == [i \in DOMAIN new |-> one(i)]
           each == [i \in DOMAIN new |-> <<one(i)>>]
           whole1 == <<[type |-> "update", trades |-> new]>>
<1>1. /\ Len(executed) \in Nat /\ sent \in Nat /\ sent <= Len(executed) /\ raw \in Seq(Seq(EventType))
      /\ Len(executed) - sent \in Nat
  BY DEF RecordInv
<1>2. /\ UNCHANGED <<venue, executed>> /\ sent' = Len(executed) /\ UNCHANGED <<stage, pos, rows, files, upto>>
      /\ \/ raw' = Append(raw, bundle) /\ venue = "coinbase"
         \/ raw' = raw \o each
         \/ raw' = Append(raw, whole1)
  BY DEF Trades!Deliver, Trades!dataset, Trades!Event
<1>3. new \in Seq(Nat) /\ Rising(new) /\ Range(new) \subseteq sent + 1..Len(executed)
  BY <1>1, CountedRises
<1>4. /\ DOMAIN new = 1..(Len(executed) - sent) /\ Len(new) = Len(executed) - sent
      /\ \A i \in DOMAIN new : new[i] = sent + i
  BY <1>1
<1> HIDE DEF new
<1>5. \A i \in DOMAIN new :
         /\ <<new[i]>> \in Seq(Nat) /\ Rising(<<new[i]>>) /\ Range(<<new[i]>>) = {new[i]}
         /\ new[i] \in Nat /\ new[i] \in sent + 1..sent'
  BY <1>1, <1>2, <1>4, OneRises
<1>6. \A i, j \in DOMAIN new : i < j => new[i] < new[j]
  BY <1>3 DEF Rising
<1>7. sent' \in sent..Len(executed)
  BY <1>1, <1>2
<1>8. CASE raw' = Append(raw, bundle) /\ venue = "coinbase"
  <2>1. \A i \in DOMAIN new : one(i) \in EventType /\ one(i).type = "update" /\ one(i).trades = <<new[i]>>
    BY <1>5 DEF EventType
  <2> HIDE DEF one
  <2>2. bundle \in Seq(EventType) /\ DOMAIN bundle = DOMAIN new /\ \A i \in DOMAIN new : bundle[i] = one(i)
    BY <1>1, <1>4, <2>1
  <2> HIDE DEF bundle
  <2>3. \A e, f \in DOMAIN new : e < f => Below(<<new[e]>>, <<new[f]>>)
    BY <1>5, <1>6 DEF Below
  <2>4. InTurn(bundle)
    <3>1. \A e \in DOMAIN bundle : bundle[e].trades = <<new[e]>> /\ e \in DOMAIN new
      BY <2>1, <2>2
    <3>2. \A e \in DOMAIN bundle : Rising(bundle[e].trades)
      BY <1>5, <3>1
    <3>3. \A e, f \in DOMAIN bundle : e < f => Below(bundle[e].trades, bundle[f].trades)
      BY <2>3, <3>1
    <3>4. venue = "coinbase"
      BY <1>8
    <3> QED BY ONLY <2>2, <3>2, <3>3, <3>4 DEF InTurn
  <2>5. LiveIn(bundle) \subseteq sent + 1..sent'
    <3>1. ASSUME NEW j \in LiveIn(bundle) PROVE j \in sent + 1..sent'
      <4>1. PICK i \in DOMAIN new : j \in Range(bundle[i].trades)
        BY <2>2 DEF LiveIn
      <4> QED BY <1>5, <2>1, <2>2, <4>1
    <3> QED BY <3>1
  <2> DEFINE more == <<bundle>>
  <2>6. more \in Seq(Seq(EventType)) /\ Len(more) = 1 /\ more[1] = bundle /\ raw' = raw \o more
    BY <1>1, <1>8, <2>2, AppendIsConcat
  <2> HIDE DEF more
  <2>7. /\ \A k \in 1..Len(more) : InTurn(more[k]) /\ LiveIn(more[k]) \subseteq sent + 1..sent'
        /\ \A k, l \in 1..Len(more) : ~(k < l)
    BY <2>4, <2>5, <2>6
  <2> QED BY <1>2, <1>7, <2>6, <2>7, DeliveredInTurn
<1>9. CASE raw' = raw \o each
  <2>1. ASSUME NEW i \in DOMAIN new
        PROVE  /\ <<one(i)>> \in Seq(EventType) /\ InTurn(<<one(i)>>) /\ LiveIn(<<one(i)>>) = {new[i]}
    BY <1>5, OneEventInTurn
  <2> HIDE DEF one
  <2> DEFINE n == Len(executed) - sent
  <2>11. /\ n \in Nat /\ DOMAIN new = 1..n /\ DOMAIN each = 1..n
         /\ each = [i \in 1..n |-> each[i]]
         /\ \A i \in DOMAIN new : each[i] = <<one(i)>>
    BY <1>1, <1>4
  <2>12. \A i \in 1..n : each[i] \in Seq(EventType)
    BY <2>1, <2>11
  <2> HIDE DEF each, n
  <2>13. each \in [1..n -> Seq(EventType)]
    BY <2>11, <2>12
  <2>2. /\ each \in Seq(Seq(EventType)) /\ 1..Len(each) = DOMAIN new
        /\ \A i \in DOMAIN new : each[i] = <<one(i)>>
    BY <2>11, <2>13
  <2>3. \A k \in 1..Len(each) : InTurn(each[k]) /\ LiveIn(each[k]) = {new[k]} /\ new[k] \in sent + 1..sent'
    BY <1>5, <2>1, <2>2
  <2>4. \A k, l \in 1..Len(each) : k < l => \A i \in LiveIn(each[k]), j \in LiveIn(each[l]) : i < j
    <3>1. \A k \in 1..Len(each) : LiveIn(each[k]) = {new[k]} /\ k \in DOMAIN new
      BY <2>2, <2>3
    <3>2. ASSUME NEW k \in 1..Len(each), NEW l \in 1..Len(each), k < l,
                 NEW i \in LiveIn(each[k]), NEW j \in LiveIn(each[l])
          PROVE  i < j
      <4>1. i = new[k] /\ j = new[l] /\ k \in DOMAIN new /\ l \in DOMAIN new
        BY <3>1
      <4>2. new[k] < new[l]
        BY <1>6, <3>2, <4>1
      <4> QED BY <4>1, <4>2
    <3> QED BY <3>2
  <2>5. \A k \in 1..Len(each) : InTurn(each[k]) /\ LiveIn(each[k]) \subseteq sent + 1..sent'
    BY <2>3
  <2> QED BY <1>2, <1>7, <1>9, <2>2, <2>4, <2>5, DeliveredInTurn
<1>10. CASE raw' = Append(raw, whole1)
  <2>1. whole1 \in Seq(EventType) /\ InTurn(whole1) /\ LiveIn(whole1) = Range(new)
    BY <1>3, OneEventInTurn
  <2> HIDE DEF whole1
  <2> DEFINE more == <<whole1>>
  <2>2. more \in Seq(Seq(EventType)) /\ Len(more) = 1 /\ more[1] = whole1 /\ raw' = raw \o more
    BY <1>1, <1>10, <2>1, AppendIsConcat
  <2> HIDE DEF more
  <2>3. /\ \A k \in 1..Len(more) : InTurn(more[k]) /\ LiveIn(more[k]) \subseteq sent + 1..sent'
        /\ \A k, l \in 1..Len(more) : ~(k < l)
    BY <1>2, <1>3, <2>1, <2>2
  <2> QED BY <1>2, <1>7, <2>2, <2>3, DeliveredInTurn
<1> QED BY <1>2, <1>8, <1>9, <1>10

(* Every step of the trades' part keeps both.                                 *)
LEMMA TradesStepKeepsInv ==
  ASSUME PartsAssumption, RecordInv, DatasetInv, [Trades!Next]_(Trades!vars)
  PROVE  RecordInv' /\ DatasetInv'
<1>1. CASE \E s \in Instruments \cup {Unreadable} : Trades!Trade(s)
  BY <1>1, VenueKeepsRecord, CaptureKeepsDataset
<1>2. CASE Trades!Disconnect
  <2>1. Unreadable \in Instruments \cup {Unreadable}
    OBVIOUS
  <2> QED BY <1>2, <2>1, VenueKeepsRecord, CaptureKeepsDataset
<1>3. CASE Trades!Connect
  BY <1>3, ConnectKeepsRecord, CaptureKeepsDataset
<1>4. CASE Trades!Deliver
  BY <1>4, DeliverKeepsRecord, CaptureKeepsDataset
<1>5. CASE Trades!Read
  <2>1. UNCHANGED <<venue, executed, sent, raw>>
    BY <1>5 DEF Trades!Read, Trades!capture
  <2>2. RecordInv'
    BY <2>1 DEF RecordInv, InTurn
  <2> QED BY <1>5, <2>2, ReadKeepsDataset
<1>6. CASE Trades!Start \/ Trades!ReachEnd \/ Trades!Close \/ Trades!Finish \/ Trades!Kill
  <2>1. UNCHANGED <<venue, executed, sent, raw>>
    BY <1>6 DEF Trades!Start, Trades!ReachEnd, Trades!Close, Trades!Finish, Trades!Kill, Trades!capture
  <2>2. RecordInv'
    BY <2>1 DEF RecordInv, InTurn
  <2> QED BY <1>6, <2>2, RunKeepsDataset
<1>7. CASE UNCHANGED Trades!vars
  <2>1. UNCHANGED <<venue, executed, sent, raw, stage, pos, rows, files, upto>>
    BY <1>7 DEF Trades!vars
  <2> QED BY <2>1 DEF RecordInv, InTurn, DatasetInv, Extracted, Known
<1> QED BY <1>1, <1>2, <1>3, <1>4, <1>5, <1>6, <1>7 DEF Trades!Next

(* Before anything is traded there is nothing to get wrong.                   *)
LEMMA TradesStart == ASSUME PartsAssumption, Trades!Init PROVE RecordInv /\ DatasetInv
<1>1. /\ venue \in Venues /\ executed = <<>> /\ sent = 0 /\ raw = <<>> /\ stage = "idle" /\ pos = 0
      /\ rows = [s \in Instruments |-> <<>>] /\ files = [s \in Instruments |-> <<>>]
      /\ upto = [s \in Instruments |-> 0]
  BY DEF Trades!Init, Trades!Empty
<1>2. venue \in {"kraken", "coinbase", "hyperliquid", "cme"}
  BY <1>1 DEF PartsAssumption, Trades!TradeAssumption
<1>3. Len(<<>>) = 0 /\ <<>> \in Seq(Nat) /\ <<>> \in Seq(Instruments \cup {Unreadable})
      /\ <<>> \in Seq(Seq(EventType))
  OBVIOUS
<1>4. RecordInv
  BY <1>1, <1>2, <1>3 DEF RecordInv
<1>5. DatasetInv
  BY <1>1, <1>3 DEF DatasetInv
<1> QED BY <1>4, <1>5

(* What the invariants say of the files.                                      *)
LEMMA DatasetShows == RecordInv /\ DatasetInv => Trades!TradesOnceInOrder
<1> SUFFICES ASSUME RecordInv, DatasetInv, NEW s \in Instruments, files[s] # <<>>
             PROVE  /\ \A j, k \in DOMAIN files[s] : j < k => files[s][j] < files[s][k]
                    /\ Trades!Range(files[s]) =
                         {i \in DOMAIN executed : executed[i] = s /\ Trades!Reported(i, upto[s])}
  BY DEF Trades!TradesOnceInOrder
<1>1. Extracted(files[s], s, upto[s]) /\ upto[s] \in Nat /\ upto[s] <= Len(raw) /\ Len(raw) \in Nat
  BY DEF DatasetInv, RecordInv
<1>2. \A i : Known(i, upto[s]) <=> Trades!Reported(i, upto[s])
  BY TradesLibrary DEF Known, LiveIn, Trades!Reported
<1>3. DOMAIN executed = 1..Len(executed)
  BY DEF RecordInv
<1> QED BY <1>1, <1>2, <1>3, TradesLibrary DEF Extracted, Rising

(* Every trades file holds each trade of its instrument once, in the order of *)
(* execution, and every one reported live in the records its run read, for    *)
(* any venues, reconnects, runs and kills (data/trades/extract.py).           *)
THEOREM TradesExtractedOnce == Spec => []TradesOnceInOrder
<1> DEFINE Inv == RecordInv /\ DatasetInv
<1>1. Init => Inv
  BY PartsAssumption, TradesStart DEF Init
<1>2. Inv /\ [Next]_vars => Inv'
  <2>1. [Next]_vars => [Trades!Next]_(Trades!vars)
    BY DEF Next, vars, tradeVars, Trades!vars
  <2> QED BY <2>1, PartsAssumption, TradesStepKeepsInv
<1>3. Inv => TradesOnceInOrder
  BY DatasetShows DEF TradesOnceInOrder
<1> QED BY <1>1, <1>2, <1>3, PTL DEF Spec
-----------------------------------------------------------------------------
(* What the venue answers: the first rows from a start on, with no hole in    *)
(* between, which stays so because later rows come behind it.                 *)
Answered(s, start) ==
  /\ s \in Seq(Nat) /\ Rising(s) /\ Len(s) <= Limit
  /\ \A t \in Range(s) : t \in published /\ t >= start
  /\ \A t \in published : t >= start /\ (\E u \in Range(s) : t < u) => t \in Range(s)

(* Why a history has no hole: what was gathered is everything before the      *)
(* cursor, a page is an answer, and a page shorter than the limit was asked   *)
(* for after the fetch began.                                                 *)
Busy == {"page", "open", "write", "rest", "record", "take"}
Holding == {"open", "write", "rest", "record", "take"}
Before == {t \in published : t < cursor}
PublishedInv == hour \in 0..LastHour /\ published \subseteq 1..hour
FetchInv ==
  /\ at \in {"down", "next"} \cup Busy
  /\ at \in Busy => /\ coin \in Coins /\ cursor \in 0..(hour + 1)
                    /\ got = Before /\ begun \subseteq published
  /\ at \in Holding => /\ Answered(body, cursor)
                       /\ Len(body) < Limit => \A t \in begun : t >= cursor => t \in Range(body)
DiskInv ==
  /\ page \in [Pages!Keys -> [state : {"absent", "cut", "whole"}, rows : Seq(Nat)]]
  /\ \A k \in Pages!Keys : page[k].state = "whole" => Answered(page[k].rows, k[2])
  /\ at = "record" => page[Pages!Key] = Pages!Whole(body)
HistoryHoles(h) ==
  h.done /\ ~h.error =>
    /\ h.rows \subseteq published
    /\ \A t \in published : (\E u \in h.rows : t < u) => t \in h.rows
FetchedInv ==
  /\ DOMAIN history = Coins
  /\ \A c \in Coins : HistoryHoles(history[c])
  /\ \A c \in Coins : history[c].done /\ ~history[c].error /\ at = "next" /\ c = coin =>
       begun \subseteq history[c].rows
PagesInv == PublishedInv /\ FetchInv /\ DiskInv /\ FetchedInv /\ Pages!PagesVouchedFor

(* The instance's operators are the library's.                                *)
LEMMA PagesLibrary ==
  /\ \A s : Pages!Range(s) = Range(s)
  /\ \A T : Pages!InOrder(T) = Ascending(T)
  /\ \A s : Pages!Last(s) = s[Len(s)]
<1>1. \A T : Pages!InOrder(T) = Ascending(T)
  BY DEF Pages!InOrder, Ascending, Pages!Cardinality, Cardinality, Pages!IsFiniteSet, IsFiniteSet
<1> QED BY <1>1 DEF Pages!Range, Range, Pages!Last

(* What was published is a finite set of numbers.                             *)
LEMMA PublishedFinite ==
  ASSUME PartsAssumption, PublishedInv
  PROVE  IsFiniteSet(published) /\ published \subseteq Nat /\ hour \in Nat /\ LastHour \in Nat
<1>1. hour \in Nat /\ LastHour \in Nat
  BY DEF PublishedInv, PartsAssumption, Pages!LimitAssumption
<1>2. IsFiniteSet(1..hour) /\ 1..hour \subseteq Nat
  BY <1>1, FS_Interval
<1> QED BY <1>1, <1>2, FS_Subset DEF PublishedInv

(* A request is answered as described, in full if there is less than a page.  *)
LEMMA AnswerIsRight ==
  ASSUME PartsAssumption, PublishedInv, NEW start
  PROVE  /\ Answered(Pages!Answer(start), start)
         /\ Len(Pages!Answer(start)) < Limit =>
              \A t \in published : t >= start => t \in Range(Pages!Answer(start))
<1> DEFINE T == {t \in published : t >= start}
           s == Ascending(T)
           a == Pages!Answer(start)
<1>0. Limit \in Nat /\ Limit > 1
  BY DEF PartsAssumption, Pages!LimitAssumption
<1>1. IsFiniteSet(T) /\ T \subseteq Nat
  BY PublishedFinite, FS_Subset
<1>2. a = IF Len(s) > Limit THEN SubSeq(s, 1, Limit) ELSE s
  BY PagesLibrary DEF Pages!Answer
<1>3. \A t : t \in T <=> t \in published /\ t >= start
  OBVIOUS
<1> HIDE DEF T
<1>4. s \in Seq(Nat) /\ Rising(s) /\ Range(s) = T
  BY <1>1, AscendingRises
<1> HIDE DEF s, a
<1>5. CASE Len(s) > Limit
  <2>1. a = SubSeq(s, 1, Limit)
    BY <1>2, <1>5
  <2>2. a \in Seq(Nat) /\ Len(a) = Limit /\ DOMAIN a = 1..Limit /\ \A k \in 1..Limit : a[k] = s[k]
    BY <1>0, <1>4, <1>5, <2>1
  <2>3. DOMAIN s = 1..Len(s) /\ Len(s) \in Nat /\ 1..Limit \subseteq DOMAIN s
    BY <1>0, <1>4, <1>5
  <2>4. Rising(a)
    BY <1>4, <2>2, <2>3 DEF Rising
  <2>5. \A t \in Range(a) : t \in T
    BY <1>4, <2>2, <2>3 DEF Range
  <2>6. ASSUME NEW t \in T, NEW u \in Range(a), t < u PROVE t \in Range(a)
    <3>1. PICK k \in 1..Limit : u = s[k]
      BY <2>2 DEF Range
    <3>2. PICK j \in DOMAIN s : t = s[j]
      BY <1>4 DEF Range
    <3>3. s[j] \in Nat /\ s[k] \in Nat /\ j \in Nat /\ k \in Nat /\ k \in DOMAIN s
      BY <1>4, <2>3, <3>2
    <3>4. ~(k < j)
      <4>1. k < j => s[k] < s[j]
        BY <1>4, <3>3 DEF Rising
      <4> QED BY <2>6, <3>1, <3>2, <3>3, <4>1
    <3>5. j \in 1..Limit
      BY <1>0, <2>3, <3>3, <3>4
    <3> QED BY <2>2, <3>2, <3>5 DEF Range
  <2>7. Len(a) <= Limit /\ ~(Len(a) < Limit)
    BY <1>0, <2>2
  <2> QED BY <1>3, <2>2, <2>4, <2>5, <2>6, <2>7 DEF a, Answered
<1>6. CASE ~(Len(s) > Limit)
  <2>1. a = s /\ Len(a) <= Limit
    BY <1>0, <1>2, <1>4, <1>6
  <2> QED BY <1>3, <1>4, <2>1 DEF a, Answered
<1> QED BY <1>5, <1>6

(* A row published later lies behind every answer.                            *)
LEMMA AnswersStay ==
  ASSUME PartsAssumption, PublishedInv, Pages!Publish, NEW s, NEW start, Answered(s, start)
  PROVE  Answered(s, start)'
<1>1. published' \subseteq published \cup {hour + 1} /\ published \subseteq published'
  BY DEF Pages!Publish
<1>2. \A u \in Range(s) : u \in 1..hour
  BY DEF Answered, PublishedInv
<1>3. hour \in Nat /\ \A u \in Range(s) : ~(hour + 1 < u)
  BY <1>2, PublishedFinite
<1>4. \A t \in published' : (\E u \in Range(s) : t < u) => t \in published
  BY <1>1, <1>3
<1> QED BY <1>1, <1>4 DEF Answered

(* Every row of a page was published, so that its last one is an hour passed. *)
LEMMA AnswerEnds ==
  ASSUME PartsAssumption, PublishedInv, NEW s, NEW start, Answered(s, start), s # <<>>
  PROVE  /\ Len(s) \in Nat /\ Len(s) \in 1..Len(s) /\ s[Len(s)] \in Range(s) /\ s[Len(s)] \in 1..hour
         /\ \A t \in Range(s) : t <= s[Len(s)]
<1>1. s \in Seq(Nat) /\ Len(s) \in Nat /\ Len(s) # 0 /\ DOMAIN s = 1..Len(s)
  BY DEF Answered
<1>2. Len(s) \in DOMAIN s /\ s[Len(s)] \in Range(s)
  BY <1>1 DEF Range
<1>3. s[Len(s)] \in 1..hour
  BY <1>2 DEF Answered, PublishedInv
<1>4. ASSUME NEW t \in Range(s) PROVE t <= s[Len(s)]
  <2>1. PICK k \in DOMAIN s : t = s[k]
    BY DEF Range
  <2>2. k \in Nat /\ k <= Len(s) /\ s[k] \in Nat /\ s[Len(s)] \in Nat
    BY <1>1, <1>2, <2>1
  <2>3. k < Len(s) => s[k] < s[Len(s)]
    BY <1>2 DEF Answered, Rising
  <2>4. k = Len(s) \/ k < Len(s)
    BY <1>1, <2>2
  <2> QED BY <2>1, <2>2, <2>3, <2>4
<1> QED BY <1>1, <1>2, <1>3, <1>4

(* What the publication of an hour leaves true of the histories.              *)
LEMMA PublishKeepsPages ==
  ASSUME PartsAssumption, PagesInv, Pages!Publish PROVE PagesInv'
<1>1. /\ hour < LastHour /\ hour' = hour + 1 /\ (published' = published \cup {hour + 1} \/ published' = published)
      /\ UNCHANGED <<page, lines, at, body, coin, cursor, got, begun, history, lives, failures, lost>>
  BY DEF Pages!Publish, Pages!fetch
<1>2. hour \in Nat /\ LastHour \in Nat /\ \A t \in published : t \in 1..hour
  BY PublishedFinite DEF PagesInv, PublishedInv
<1>3. PublishedInv'
  <2>1. hour' \in 0..LastHour
    BY <1>1, <1>2
  <2>2. ASSUME NEW t \in published' PROVE t \in 1..hour'
    BY <1>1, <1>2
  <2> QED BY <2>1, <2>2 DEF PublishedInv
<1>4. \A s, start : Answered(s, start) => Answered(s, start)'
  BY AnswersStay DEF PagesInv
<1>5. FetchInv'
  <2>1. at \in Busy => cursor \in 0..(hour' + 1) /\ got = Before' /\ begun \subseteq published'
    <3> SUFFICES ASSUME at \in Busy PROVE cursor \in 0..(hour' + 1) /\ got = Before' /\ begun \subseteq published'
      OBVIOUS
    <3>1. cursor \in 0..(hour + 1) /\ got = Before /\ begun \subseteq published
      BY DEF PagesInv, FetchInv
    <3>2. ~(hour + 1 < cursor) /\ cursor \in 0..(hour' + 1)
      BY <1>1, <1>2, <3>1
    <3>3. Before' = Before
      BY <1>1, <3>2 DEF Before
    <3> QED BY <1>1, <3>1, <3>2, <3>3
  <2>2. at \in Holding => Answered(body, cursor)'
    BY <1>1, <1>4 DEF PagesInv, FetchInv, Answered
  <2> QED BY <1>1, <2>1, <2>2 DEF PagesInv, FetchInv
<1>6. DiskInv'
  <2>1. ASSUME NEW k \in Pages!Keys, page[k].state = "whole" PROVE Answered(page[k].rows, k[2])'
    <3>1. Answered(page[k].rows, k[2])
      BY <2>1 DEF PagesInv, DiskInv
    <3>2. PICK x : x = page[k].rows
      OBVIOUS
    <3>3. Answered(x, k[2])'
      BY <1>4, <3>1, <3>2
    <3> QED BY <1>1, <3>2, <3>3
  <2>2. Pages!Key' = Pages!Key
    BY <1>1 DEF Pages!Key
  <2> QED BY <1>1, <2>1, <2>2 DEF PagesInv, DiskInv
<1>7. FetchedInv'
  <2>1. ASSUME NEW c \in Coins PROVE HistoryHoles(history[c])'
    <3> SUFFICES ASSUME history[c].done, ~history[c].error
                 PROVE  /\ history[c].rows \subseteq published'
                        /\ \A t \in published' : (\E u \in history[c].rows : t < u) => t \in history[c].rows
      BY <1>1 DEF HistoryHoles
    <3>1. /\ history[c].rows \subseteq published
          /\ \A t \in published : (\E u \in history[c].rows : t < u) => t \in history[c].rows
      BY DEF PagesInv, FetchedInv, HistoryHoles
    <3>2. \A u \in history[c].rows : ~(hour + 1 < u)
      BY <1>2, <3>1
    <3> QED BY <1>1, <3>1, <3>2
  <2> QED BY <1>1, <2>1 DEF PagesInv, FetchedInv
<1>8. Pages!PagesVouchedFor'
  BY <1>1 DEF PagesInv, Pages!PagesVouchedFor, Pages!Key
<1> QED BY <1>3, <1>5, <1>6, <1>7, <1>8 DEF PagesInv

(* The start of a run, of a coin, and the end of a run or of a coin.          *)
LEMMA RunKeepsPages ==
  ASSUME PartsAssumption, PagesInv,
         Pages!StartRun \/ Pages!NextCoin \/ Pages!FinishRun \/ Pages!Crash
  PROVE  PagesInv'
<1>1. UNCHANGED <<published, hour, page, lines, body>>
  BY DEF Pages!StartRun, Pages!NextCoin, Pages!FinishRun, Pages!Crash, Pages!fetch
<1>2. PublishedInv'
  BY <1>1 DEF PagesInv, PublishedInv
<1>3. at' \in {"down", "next", "page"}
  BY DEF Pages!StartRun, Pages!NextCoin, Pages!FinishRun, Pages!Crash
<1>4. DiskInv'
  BY <1>1, <1>3 DEF PagesInv, DiskInv, Answered
<1>5. FetchInv'
  <2>1. CASE Pages!NextCoin
    <3>1. coin' \in Coins /\ cursor' = 0 /\ got' = {} /\ begun' = published /\ at' = "page"
      BY <2>1 DEF Pages!NextCoin, Pages!Left
    <3>2. hour \in Nat /\ \A t \in published : t \in 1..hour
      BY PublishedFinite DEF PagesInv, PublishedInv
    <3>3. Before' = {}
      BY <1>1, <3>1, <3>2 DEF Before
    <3>4. 0 \in 0..(hour + 1)
      BY <3>2
    <3> QED BY <1>1, <3>1, <3>3, <3>4 DEF FetchInv, Busy, Holding
  <2>2. CASE Pages!StartRun \/ Pages!FinishRun \/ Pages!Crash
    <3>1. at' \in {"down", "next"}
      BY <2>2 DEF Pages!StartRun, Pages!FinishRun, Pages!Crash
    <3> QED BY <3>1 DEF FetchInv, Busy, Holding
  <2> QED BY <2>1, <2>2
<1>6. FetchedInv'
  <2>1. CASE Pages!StartRun
    <3>1. history' = [c \in Coins |-> Pages!Missing]
      BY <2>1 DEF Pages!StartRun
    <3> QED BY <3>1 DEF FetchedInv, HistoryHoles, Pages!Missing
  <2>2. CASE Pages!NextCoin \/ Pages!FinishRun \/ Pages!Crash
    <3>1. UNCHANGED history /\ at' # "next"
      BY <2>2 DEF Pages!NextCoin, Pages!FinishRun, Pages!Crash
    <3> QED BY <1>1, <3>1 DEF PagesInv, FetchedInv, HistoryHoles
  <2> QED BY <2>1, <2>2
<1>7. Pages!PagesVouchedFor'
  <2>1. CASE Pages!Crash
    <3>1. lost' = IF at = "record" THEN lost \cup {<<coin, cursor, body>>} ELSE lost
      BY <2>1 DEF Pages!Crash
    <3> SUFFICES ASSUME NEW k \in Pages!Keys, page[k].state = "whole"
                 PROVE  <<k[1], k[2], page[k].rows>> \in lines \cup lost'
      BY <1>1 DEF Pages!PagesVouchedFor
    <3>2. <<k[1], k[2], page[k].rows>> \in lines \cup lost \/ (at = "record" /\ k = Pages!Key)
      BY DEF PagesInv, Pages!PagesVouchedFor
    <3>3. at = "record" /\ k = Pages!Key => <<k[1], k[2], page[k].rows>> = <<coin, cursor, body>>
      BY DEF PagesInv, DiskInv, Pages!Key, Pages!Whole
    <3> QED BY <3>1, <3>2, <3>3
  <2>2. CASE Pages!StartRun \/ Pages!NextCoin \/ Pages!FinishRun
    <3>1. UNCHANGED lost /\ at # "record"
      BY <2>2 DEF Pages!StartRun, Pages!NextCoin, Pages!FinishRun
    <3> QED BY <1>1, <3>1 DEF PagesInv, Pages!PagesVouchedFor
  <2> QED BY <2>1, <2>2
<1> QED BY <1>2, <1>4, <1>5, <1>6, <1>7 DEF PagesInv

(* A coin whose fetch fails is kept as failed.                                *)
LEMMA FailureKeepsPages ==
  ASSUME PartsAssumption, PagesInv, Pages!Undecodable \/ Pages!AskFails
  PROVE  PagesInv'
<1>1. /\ UNCHANGED <<published, hour, page, lines, body, coin, cursor, got, begun, lost>>
      /\ history' = [history EXCEPT ![coin] = Pages!Failed] /\ at' = "next" /\ at = "page"
  BY DEF Pages!Undecodable, Pages!AskFails, Pages!FailCoin, Pages!Asks, Pages!fetch
<1>2. PublishedInv' /\ FetchInv'
  BY <1>1 DEF PagesInv, PublishedInv, FetchInv, Busy, Holding
<1>3. DiskInv' /\ Pages!PagesVouchedFor'
  BY <1>1 DEF PagesInv, DiskInv, Answered, Pages!PagesVouchedFor
<1>4. FetchedInv'
  <2>1. DOMAIN history = Coins /\ \A c \in Coins : HistoryHoles(history[c])
    BY DEF PagesInv, FetchedInv
  <2>2. DOMAIN history' = Coins /\ \A c \in Coins : history'[c] = IF c = coin THEN Pages!Failed ELSE history[c]
    BY <1>1, <2>1
  <2> QED BY <1>1, <2>1, <2>2 DEF FetchedInv, HistoryHoles, Pages!Failed
<1> QED BY <1>2, <1>3, <1>4 DEF PagesInv

(* A page from disk, or from the venue, is an answer.                         *)
LEMMA AskKeepsPages ==
  ASSUME PartsAssumption, PagesInv, Pages!FromCache \/ Pages!Ask
  PROVE  PagesInv'
<1>1. /\ UNCHANGED <<published, hour, page, lines, coin, cursor, got, begun, history, lost>>
      /\ at = "page" /\ at' \in {"open", "take"}
      /\ \/ Pages!Reusable(page[Pages!Key]) /\ body' = page[Pages!Key].rows
         \/ body' = Pages!Answer(cursor)
  BY DEF Pages!FromCache, Pages!Ask, Pages!Asks, Pages!fetch
<1>2. /\ coin \in Coins /\ cursor \in 0..(hour + 1) /\ got = Before /\ begun \subseteq published
      /\ PublishedInv
  BY <1>1 DEF PagesInv, FetchInv, Busy
<1>3. /\ Answered(body', cursor)
      /\ Len(body') < Limit => \A t \in begun : t >= cursor => t \in Range(body')
  <2>1. CASE Pages!Reusable(page[Pages!Key]) /\ body' = page[Pages!Key].rows
    <3>1. hour \in Nat /\ LastHour \in Nat /\ hour <= LastHour
      BY <1>2, PublishedFinite DEF PublishedInv
    <3>2. Pages!Key \in Pages!Keys /\ Pages!Key[2] = cursor
      BY <1>2, <3>1 DEF Pages!Key, Pages!Keys
    <3>3. page[Pages!Key].state = "whole" /\ Len(body') >= Limit
      BY <2>1 DEF Pages!Reusable
    <3>4. Answered(body', cursor)
      BY <2>1, <3>2, <3>3 DEF PagesInv, DiskInv
    <3>5. Len(body') \in Nat /\ Limit \in Nat
      BY <3>4 DEF Answered, PartsAssumption, Pages!LimitAssumption
    <3> QED BY <3>3, <3>4, <3>5
  <2>2. CASE body' = Pages!Answer(cursor)
    <3>1. /\ Answered(Pages!Answer(cursor), cursor)
          /\ Len(Pages!Answer(cursor)) < Limit =>
               \A t \in published : t >= cursor => t \in Range(Pages!Answer(cursor))
      BY <1>2, AnswerIsRight
    <3> QED BY ONLY <1>2, <2>2, <3>1
  <2> QED BY <1>1, <2>1, <2>2
<1>4. FetchInv'
  <2>1. Answered(body, cursor)'
    BY <1>1, <1>3 DEF Answered
  <2>2. Before' = Before
    BY <1>1 DEF Before
  <2> QED BY <1>1, <1>2, <1>3, <2>1, <2>2 DEF FetchInv, Busy, Holding
<1>5. PublishedInv' /\ DiskInv' /\ FetchedInv' /\ Pages!PagesVouchedFor'
  BY <1>1 DEF PagesInv, PublishedInv, DiskInv, Answered, FetchedInv, HistoryHoles, Pages!PagesVouchedFor
<1> QED BY <1>4, <1>5 DEF PagesInv

(* A page being written is not whole until its last byte, and then it is what *)
(* the venue answered.                                                        *)
LEMMA WriteKeepsPages ==
  ASSUME PartsAssumption, PagesInv, Pages!OpenPage \/ Pages!WritePart \/ Pages!WriteRest
  PROVE  PagesInv'
<1> DEFINE file == IF at = "open" THEN Pages!Absent ELSE IF at = "write" THEN Pages!Cut ELSE Pages!Whole(body)
<1>1. /\ UNCHANGED <<published, hour, lines, body, coin, cursor, got, begun, history, lost>>
      /\ page' = [page EXCEPT ![Pages!Key] = file]
      /\ \/ at = "open" /\ at' = "write"
         \/ at = "write" /\ at' = "rest"
         \/ at = "rest" /\ at' = "record"
  BY DEF Pages!OpenPage, Pages!WritePart, Pages!WriteRest, Pages!WriteStep, Pages!fetch
<1>2. /\ coin \in Coins /\ cursor \in 0..(hour + 1) /\ Answered(body, cursor) /\ PublishedInv
      /\ at \in {"open", "write", "rest"}
  BY <1>1 DEF PagesInv, FetchInv, Busy, Holding
<1>3. Pages!Key \in Pages!Keys /\ Pages!Key[1] = coin /\ Pages!Key[2] = cursor
  <2>1. hour \in Nat /\ LastHour \in Nat /\ hour <= LastHour
    BY <1>2, PublishedFinite DEF PublishedInv
  <2> QED BY <1>2, <2>1 DEF Pages!Key, Pages!Keys
<1>4. /\ file \in [state : {"absent", "cut", "whole"}, rows : Seq(Nat)]
      /\ file.state = "whole" => file.rows = body /\ at = "rest"
      /\ at = "rest" => file = Pages!Whole(body)
  BY <1>2 DEF Answered, Pages!Absent, Pages!Cut, Pages!Whole
<1> HIDE DEF file
<1>5. /\ page' \in [Pages!Keys -> [state : {"absent", "cut", "whole"}, rows : Seq(Nat)]]
      /\ page'[Pages!Key] = file /\ \A k \in Pages!Keys : k # Pages!Key => page'[k] = page[k]
  BY <1>1, <1>3, <1>4 DEF PagesInv, DiskInv
<1>6. DiskInv'
  <2>1. ASSUME NEW k \in Pages!Keys, page'[k].state = "whole" PROVE Answered(page[k].rows, k[2])'
    <3>1. Answered(page'[k].rows, k[2])
      BY <1>2, <1>3, <1>4, <1>5, <2>1 DEF PagesInv, DiskInv
    <3> QED BY <1>1, <3>1 DEF Answered
  <2>2. at' = "record" => page'[Pages!Key'] = Pages!Whole(body')
    <3>1. Pages!Key' = Pages!Key
      BY <1>1 DEF Pages!Key
    <3> QED BY <1>1, <1>4, <1>5, <3>1
  <2> QED BY <1>5, <2>1, <2>2 DEF DiskInv, Pages!Whole
<1>7. Pages!PagesVouchedFor'
  <2> SUFFICES ASSUME NEW k \in Pages!Keys, page'[k].state = "whole"
               PROVE  \/ <<k[1], k[2], page'[k].rows>> \in lines \cup lost
                      \/ at' = "record" /\ k = Pages!Key
    BY <1>1 DEF Pages!PagesVouchedFor, Pages!Key
  <2>1. CASE k = Pages!Key
    BY <1>1, <1>4, <1>5, <2>1
  <2>2. CASE k # Pages!Key
    BY <1>1, <1>2, <1>5, <2>2 DEF PagesInv, Pages!PagesVouchedFor
  <2> QED BY <2>1, <2>2
<1>8. PublishedInv' /\ FetchedInv'
  BY <1>1 DEF PagesInv, PublishedInv, FetchedInv, HistoryHoles
<1>9. FetchInv'
  <2>1. Answered(body, cursor)' /\ Before' = Before
    BY <1>1, <1>2 DEF Answered, Before
  <2> QED BY <1>1, <1>2, <2>1 DEF PagesInv, FetchInv, Busy, Holding
<1> QED BY <1>6, <1>7, <1>8, <1>9 DEF PagesInv

(* The line of a page is written.                                             *)
LEMMA RecordKeepsPages ==
  ASSUME PartsAssumption, PagesInv, Pages!RecordPage
  PROVE  PagesInv'
<1>1. /\ UNCHANGED <<published, hour, page, body, coin, cursor, got, begun, history, lost>>
      /\ lines' = lines \cup {<<coin, cursor, body>>} /\ at = "record" /\ at' = "take"
  BY DEF Pages!RecordPage, Pages!fetch
<1>2. PublishedInv' /\ FetchedInv'
  BY <1>1 DEF PagesInv, PublishedInv, FetchedInv, HistoryHoles
<1>3. FetchInv' /\ DiskInv'
  BY <1>1 DEF PagesInv, FetchInv, DiskInv, Answered, Before, Busy, Holding
<1>4. Pages!PagesVouchedFor'
  <2> SUFFICES ASSUME NEW k \in Pages!Keys, page[k].state = "whole"
               PROVE  <<k[1], k[2], page[k].rows>> \in lines' \cup lost
    BY <1>1 DEF Pages!PagesVouchedFor
  <2>1. <<k[1], k[2], page[k].rows>> \in lines \cup lost \/ k = Pages!Key
    BY DEF PagesInv, Pages!PagesVouchedFor
  <2>2. k = Pages!Key => <<k[1], k[2], page[k].rows>> = <<coin, cursor, body>>
    BY <1>1 DEF PagesInv, DiskInv, Pages!Key, Pages!Whole
  <2> QED BY <1>1, <2>1, <2>2
<1> QED BY <1>2, <1>3, <1>4 DEF PagesInv

(* A page is taken: what is gathered is everything up to its last row, and    *)
(* what the last page completes has no hole and nothing missing.              *)
LEMMA TakeKeepsPages ==
  ASSUME PartsAssumption, PagesInv, Pages!Take
  PROVE  PagesInv'
<1> DEFINE kept == got \cup Range(body)
<1>1. /\ UNCHANGED <<published, hour, page, lines, body, coin, begun, lost>> /\ at = "take"
      /\ got' = kept
      /\ \/ /\ body = <<>> \/ Len(body) < Limit \/ body[Len(body)] <= cursor
            /\ history' = [history EXCEPT ![coin] = Pages!Got(kept)] /\ at' = "next" /\ UNCHANGED cursor
         \/ /\ body # <<>> /\ ~(Len(body) < Limit) /\ ~(body[Len(body)] <= cursor)
            /\ cursor' = body[Len(body)] + 1 /\ at' = "page" /\ UNCHANGED history
  BY PagesLibrary DEF Pages!Take, Pages!LastPage
<1>2. /\ coin \in Coins /\ cursor \in 0..(hour + 1) /\ got = Before /\ begun \subseteq published
      /\ Answered(body, cursor) /\ PublishedInv
      /\ Len(body) < Limit => \A t \in begun : t >= cursor => t \in Range(body)
  BY <1>1 DEF PagesInv, FetchInv, Busy, Holding
<1>3. /\ hour \in Nat /\ cursor \in Nat /\ \A t \in published : t \in Nat /\ t \in 1..hour
      /\ Limit \in Nat /\ Limit > 1
  BY <1>2, PublishedFinite DEF PublishedInv, PartsAssumption, Pages!LimitAssumption
<1>4. /\ \A t \in Range(body) : t \in published /\ t >= cursor
      /\ \A t \in published : t >= cursor /\ (\E u \in Range(body) : t < u) => t \in Range(body)
      /\ \A t : t \in got <=> t \in published /\ t < cursor
  BY <1>2 DEF Answered, Before
<1>5. /\ \A t \in kept : t \in published
      /\ \A t \in published : (\E u \in kept : t < u) => t \in kept
  BY <1>3, <1>4
<1>6. PublishedInv' /\ DiskInv' /\ Pages!PagesVouchedFor'
  <2>1. at' # "record" /\ at # "record"
    BY <1>1
  <2>2. PublishedInv'
    BY <1>1 DEF PagesInv, PublishedInv
  <2> QED BY <1>1, <2>1, <2>2 DEF PagesInv, DiskInv, Answered, Pages!PagesVouchedFor
<1>7. CASE at' = "next"
  <2>1. /\ body = <<>> \/ Len(body) < Limit \/ body[Len(body)] <= cursor
        /\ history' = [history EXCEPT ![coin] = Pages!Got(kept)]
    BY <1>1, <1>7
  <2>2. Len(body) < Limit
    <3>1. CASE body = <<>>
      BY <1>3, <3>1
    <3>2. CASE body # <<>> /\ body[Len(body)] <= cursor /\ ~(Len(body) < Limit)
      <4>1. /\ body \in Seq(Nat) /\ DOMAIN body = 1..Len(body) /\ Len(body) \in Nat /\ Rising(body)
        BY <1>2 DEF Answered
      <4>2. 1 \in DOMAIN body /\ Len(body) \in DOMAIN body /\ 1 < Len(body)
        BY <1>3, <3>2, <4>1
      <4>3. body[1] < body[Len(body)] /\ body[1] \in Range(body) /\ body[1] \in Nat
            /\ body[Len(body)] \in Nat
        BY <4>1, <4>2 DEF Rising, Range
      <4>4. body[1] >= cursor
        BY <1>4, <4>3
      <4> QED BY <1>3, <3>2, <4>3, <4>4
    <3> QED BY <2>1, <3>1, <3>2
  <2>3. begun \subseteq kept
    <3> SUFFICES ASSUME NEW t \in begun PROVE t \in kept
      OBVIOUS
    <3>1. t \in published /\ t \in Nat
      BY <1>2, <1>3
    <3>2. t < cursor \/ t >= cursor
      BY <1>3, <3>1
    <3> QED BY <1>2, <1>4, <2>2, <3>1, <3>2
  <2>4. DOMAIN history' = Coins /\ \A c \in Coins : history'[c] = IF c = coin THEN Pages!Got(kept) ELSE history[c]
    BY <2>1 DEF PagesInv, FetchedInv
  <2> HIDE DEF kept
  <2>5. FetchedInv'
    <3>1. ASSUME NEW c \in Coins PROVE HistoryHoles(history[c])'
      <4>1. CASE c = coin
        BY <1>1, <1>5, <2>4, <4>1 DEF HistoryHoles, Pages!Got
      <4>2. CASE c # coin
        BY <1>1, <2>4, <4>2 DEF PagesInv, FetchedInv, HistoryHoles
      <4> QED BY <4>1, <4>2
    <3>2. history'[coin].rows = kept
      BY <1>2, <2>4 DEF Pages!Got
    <3> QED BY <1>1, <2>3, <2>4, <3>1, <3>2 DEF FetchedInv
  <2>6. FetchInv'
    BY <1>7 DEF FetchInv, Busy, Holding
  <2> QED BY <1>6, <2>5, <2>6 DEF PagesInv
<1>8. CASE at' = "page"
  <2>1. body # <<>> /\ ~(body[Len(body)] <= cursor) /\ cursor' = body[Len(body)] + 1 /\ UNCHANGED history
    BY <1>1, <1>8
  <2> DEFINE end == body[Len(body)]
  <2>2. end \in Range(body) /\ end \in 1..hour /\ \A t \in Range(body) : t <= end
    BY <1>2, <2>1, AnswerEnds
  <2> HIDE DEF end
  <2>3. cursor' = end + 1 /\ cursor' \in 0..(hour + 1) /\ end \in Nat
    BY <1>3, <2>1, <2>2 DEF end
  <2>4. Before' = kept
    <3>1. ASSUME NEW t \in published PROVE t < end + 1 <=> t \in kept
      <4>1. t \in Nat /\ (t < end + 1 <=> t < end \/ t = end)
        BY <1>3, <2>3
      <4>2. t < cursor => t < end
        BY <1>3, <1>4, <2>2, <2>3, <4>1
      <4>3. t < cursor \/ t >= cursor
        BY <1>3, <4>1
      <4>4. t \in Range(body) => t < end + 1
        BY <2>2, <2>3, <4>1
      <4> QED BY <1>4, <2>2, <4>1, <4>2, <4>3, <4>4
    <3>2. \A t \in kept : t \in published
      BY <1>5
    <3> HIDE DEF kept
    <3>3. Before' = {t \in published : t < end + 1}
      BY <1>1, <2>3 DEF Before
    <3> QED BY <3>1, <3>2, <3>3
  <2>5. FetchInv'
    BY <1>1, <1>2, <1>8, <2>3, <2>4 DEF FetchInv, Busy, Holding
  <2>6. FetchedInv'
    BY <1>1, <1>8, <2>1 DEF PagesInv, FetchedInv, HistoryHoles
  <2> QED BY <1>6, <2>5, <2>6 DEF PagesInv
<1> QED BY <1>1, <1>7, <1>8

(* Every step of the pages' part keeps all of it.                             *)
LEMMA PagesStepKeepsInv ==
  ASSUME PartsAssumption, PagesInv, [Pages!Next]_(Pages!fvars) PROVE PagesInv'
<1>1. CASE UNCHANGED Pages!fvars
  <2>1. UNCHANGED <<published, hour, page, lines, at, coin, cursor, body, got, history, begun, lost>>
    BY <1>1 DEF Pages!fvars
  <2> QED BY <2>1 DEF PagesInv, PublishedInv, FetchInv, DiskInv, FetchedInv, HistoryHoles, Answered, Before,
                      Pages!PagesVouchedFor, Pages!Key
<1>2. CASE Pages!Next
  BY <1>2, PublishKeepsPages, RunKeepsPages, FailureKeepsPages, AskKeepsPages, WriteKeepsPages,
     RecordKeepsPages, TakeKeepsPages DEF Pages!Next
<1> QED BY <1>1, <1>2

(* Before the first run there is no page and no history.                      *)
LEMMA PagesStart == ASSUME PartsAssumption, Pages!Init PROVE PagesInv
<1>1. /\ published = {} /\ hour = 0 /\ page = [k \in Pages!Keys |-> Pages!Absent] /\ at = "down"
      /\ history = [c \in Coins |-> Pages!Missing]
  BY DEF Pages!Init
<1>2. PublishedInv
  BY <1>1 DEF PublishedInv, PartsAssumption, Pages!LimitAssumption
<1>3. FetchInv /\ FetchedInv
  BY <1>1 DEF FetchInv, Busy, Holding, FetchedInv, HistoryHoles, Pages!Missing
<1>4. DiskInv /\ Pages!PagesVouchedFor
  BY <1>1 DEF DiskInv, Pages!Absent, Pages!PagesVouchedFor
<1> QED BY <1>2, <1>3, <1>4 DEF PagesInv

(* A finished funding history is what the venue had published when it was     *)
(* asked for, and a whole page has its line but for a kill, for any coins,    *)
(* page length, hours, outages, runs and kills (archive/hyperliquid.py).      *)
THEOREM PagesOfTheVenue == Spec => []PagesAreTheVenues
<1>1. Init => PagesInv
  BY PartsAssumption, PagesStart DEF Init
<1>2. PagesInv /\ [Next]_vars => PagesInv'
  <2>1. [Next]_vars => [Pages!Next]_(Pages!fvars)
    BY DEF Next, vars, pageVars, Pages!fvars
  <2> QED BY <2>1, PartsAssumption, PagesStepKeepsInv
<1>3. PagesInv => PagesAreTheVenues
  <2>1. FetchedInv => Pages!SeriesComplete
    BY DEF FetchedInv, HistoryHoles, Pages!SeriesComplete
  <2> QED BY <2>1 DEF PagesInv, PagesAreTheVenues
<1> QED BY <1>1, <1>2, <1>3, PTL DEF Spec
-----------------------------------------------------------------------------
(* The days of a vendor file.                                                *)

(* The windows of the vendor's days are those of the lemmas.                 *)
LEMMA VendorWindows ==
    /\ \A W : Vendor!MergeWindows(W) = Win!MergeWindows(W)
    /\ \A m, lo, hi : Vendor!Clip(m, lo, hi) = Win!Clip(m, lo, hi)
    /\ \A m : Vendor!TotalLength(m) = Win!TotalLength(m)
    /\ \A w, lo, hi : Vendor!ClipWindow(w, lo, hi) = Win!ClipWindow(w, lo, hi)
    /\ \A S : Vendor!Cardinality(S) = Cardinality(S)
    /\ \A s : Vendor!FlattenSeq(s) = FlattenSeq(s)
    /\ \A s : Vendor!ToSet(s) = {s[i] : i \in DOMAIN s}
<1>1. ASSUME NEW w, NEW lo, NEW hi PROVE Vendor!ClipWindow(w, lo, hi) = Win!ClipWindow(w, lo, hi)
  BY DEF Vendor!ClipWindow, Win!ClipWindow, Vendor!Begin, Vendor!End, Win!Begin, Win!End
<1>2. ASSUME NEW S PROVE Vendor!Cardinality(S) = Cardinality(S)
  BY DEF Vendor!Cardinality, Cardinality, Vendor!IsFiniteSet, IsFiniteSet
<1>3. ASSUME NEW W PROVE Vendor!MergeWindows(W) = Win!MergeWindows(W)
  BY DEF Vendor!MergeWindows, Win!MergeWindows, Vendor!FoldLeft, Win!FoldLeft, Vendor!MapThenFoldSet,
         Win!MapThenFoldSet, Vendor!Begin, Vendor!End, Win!Begin, Win!End, Vendor!Absorb, Win!Absorb,
         Vendor!Sorted, Win!Sorted, Vendor!Earlier, Win!Earlier, Vendor!Cardinality, Win!Cardinality,
         Vendor!IsFiniteSet, Win!IsFiniteSet, Vendor!Max, Win!Max, Vendor!Last, Win!Last,
         Vendor!Front, Win!Front
<1>4. ASSUME NEW m, NEW lo, NEW hi PROVE Vendor!Clip(m, lo, hi) = Win!Clip(m, lo, hi)
  BY DEF Vendor!Clip, Win!Clip, Vendor!FlattenSeq, Win!FlattenSeq, Vendor!Begin, Vendor!End, Win!Begin,
         Win!End, Vendor!ClipWindow, Win!ClipWindow
<1>5. ASSUME NEW m PROVE Vendor!TotalLength(m) = Win!TotalLength(m)
  BY DEF Vendor!TotalLength, Win!TotalLength, Vendor!FoldLeft, Win!FoldLeft, Vendor!MapThenFoldSet,
         Win!MapThenFoldSet, Vendor!Length, Win!Length, Vendor!Begin, Vendor!End, Win!Begin, Win!End,
         Vendor!Max, Win!Max
<1>6. ASSUME NEW s PROVE Vendor!FlattenSeq(s) = FlattenSeq(s)
  BY DEF Vendor!FlattenSeq, FlattenSeq
<1>7. ASSUME NEW s PROVE Vendor!ToSet(s) = {s[i] : i \in DOMAIN s}
  BY DEF Vendor!ToSet
<1> QED BY <1>1, <1>2, <1>3, <1>4, <1>5, <1>6, <1>7

(* The days of a week follow each other.                                     *)
LEMMA WeekdayNext ==
    ASSUME first \in 0..6, NEW n \in Int
    PROVE  /\ Vendor!Weekday(n) \in 0..6
           /\ Vendor!Weekday(n + 1) = IF Vendor!Weekday(n) = 6 THEN 0 ELSE Vendor!Weekday(n) + 1
BY DEF Vendor!Weekday

(* When a trading day is over, and its halt.                                 *)
HaltBegin(n) == 24 * n + behind + 16
HaltEnd(n) == IF Vendor!Weekday(n) = 4 THEN 24 * n + behind + 65 ELSE 24 * n + behind + 17

(* The halt that begins on a day is a window from its begin to its end.      *)
LEMMA HaltIs ==
    ASSUME behind \in 1..23, NEW n \in Int
    PROVE  /\ Vendor!HaltOf(n) = <<HaltBegin(n), HaltEnd(n)>> /\ Vendor!HaltOf(n) \in Window
           /\ HaltBegin(n) \in Int /\ HaltEnd(n) \in Int /\ HaltBegin(n) < HaltEnd(n)
<1>1. Vendor!LocalHour(n, 16) = HaltBegin(n) /\ Vendor!LocalHour(n, 17) = 24 * n + behind + 17
      /\ Vendor!LocalHour(n + 2, 17) = 24 * n + behind + 65
  BY DEF Vendor!LocalHour, HaltBegin
<1>2. HaltBegin(n) \in Int /\ HaltEnd(n) \in Int /\ HaltBegin(n) < HaltEnd(n)
  BY DEF HaltBegin, HaltEnd
<1>3. Vendor!HaltOf(n) = <<HaltBegin(n), HaltEnd(n)>>
  BY <1>1 DEF Vendor!HaltOf, HaltEnd
<1> QED BY <1>2, <1>3 DEF Window

(* The exchange is closed in an hour of a UTC day exactly when the hour is   *)
(* in a halt that begins on one of four local days.                          *)
LEMMA HolidayIsHalt ==
    ASSUME first \in 0..6, behind \in 1..23, NEW d \in Nat, NEW t \in (24 * d)..(24 * d + 23)
    PROVE  Vendor!OnHoliday(t) <=>
               \E n \in (d - 3)..d : Vendor!Weekday(n) # 5 /\ HaltBegin(n) <= t /\ t < HaltEnd(n)
<1> DEFINE m == (t - behind) \div 24
           h == (t - behind) % 24
           W(n) == Vendor!Weekday(n)
<1>0. t \in Int /\ behind \in Int /\ 24 * d <= t /\ t <= 24 * d + 23 /\ 1 <= behind /\ behind <= 23
  OBVIOUS
<1>1. m \in Int /\ h \in 0..23 /\ t - behind = 24 * m + h
  BY <1>0
<1>2. (t - behind + 168) % 24 = h
  BY <1>0, <1>1
<1> HIDE DEF m, h
<1>3. m = d - 1 \/ m = d
  BY <1>0, <1>1
<1>4. Vendor!OnHoliday(t) <=> h = 16 \/ W(m) = 5 \/ (W(m) = 4 /\ h >= 16) \/ (W(m) = 6 /\ h < 17)
  BY <1>2 DEF Vendor!OnHoliday, m
<1>5. \A n \in Int : /\ W(n) \in 0..6 /\ W(n + 1) = IF W(n) = 6 THEN 0 ELSE W(n) + 1
  BY WeekdayNext
<1>6. \A n \in Int : (HaltBegin(n) <= t <=> 24 * n + 16 <= 24 * m + h)
                  /\ (t < HaltEnd(n) <=> IF W(n) = 4 THEN 24 * m + h < 24 * n + 65
                                         ELSE 24 * m + h < 24 * n + 17)
  BY <1>0, <1>1 DEF HaltBegin, HaltEnd
<1> DEFINE Shut(n) == n \in (d - 3)..d /\ W(n) # 5 /\ HaltBegin(n) <= t /\ t < HaltEnd(n)
<1>7. m \in (d - 3)..d /\ m - 1 \in (d - 3)..d /\ m - 2 \in (d - 3)..d /\ m - 1 + 1 = m /\ m - 2 + 1 = m - 1
  BY <1>3
<1>8. /\ W(m) = IF W(m - 1) = 6 THEN 0 ELSE W(m - 1) + 1
      /\ W(m - 1) = IF W(m - 2) = 6 THEN 0 ELSE W(m - 2) + 1
      /\ W(m) \in 0..6 /\ W(m - 1) \in 0..6 /\ W(m - 2) \in 0..6
  <2>1. m - 1 \in Int /\ m - 2 \in Int
    BY <1>1
  <2> QED BY <1>1, <1>5, <1>7, <2>1
<1> HIDE DEF W
<1>9. ASSUME Vendor!OnHoliday(t) PROVE \E n \in (d - 3)..d : Shut(n)
  <2>1. CASE W(m) = 5
    <3>1. W(m - 1) = 4
      BY <1>8, <2>1
    <3>2. Shut(m - 1)
      BY <1>1, <1>6, <1>7, <3>1
    <3> QED BY <1>7, <3>2
  <2>2. CASE W(m) = 6 /\ h < 17
    <3>1. W(m - 2) = 4
      BY <1>8, <2>2
    <3>2. Shut(m - 2)
      BY <1>1, <1>6, <1>7, <2>2, <3>1
    <3> QED BY <1>7, <3>2
  <2>3. CASE W(m) = 4 /\ h >= 16
    <3>1. Shut(m)
      BY <1>1, <1>6, <1>7, <2>3
    <3> QED BY <1>7, <3>1
  <2>4. CASE W(m) # 5 /\ h = 16
    <3>1. Shut(m)
      BY <1>1, <1>6, <1>7, <2>4
    <3> QED BY <1>7, <3>1
  <2> QED BY <1>4, <1>9, <2>1, <2>2, <2>3, <2>4
<1>10. ASSUME NEW n \in (d - 3)..d, Shut(n) PROVE Vendor!OnHoliday(t)
  <2>0. n \in Int
    OBVIOUS
  <2>1. CASE W(n) = 4
    <3>1. 24 * n + 16 <= 24 * m + h /\ 24 * m + h < 24 * n + 65
      BY <1>6, <1>10, <2>0, <2>1
    <3>2. m = n \/ m = n + 1 \/ m = n + 2
      BY <1>1, <2>0, <3>1
    <3>3. CASE m = n
      BY <1>1, <1>4, <2>0, <2>1, <3>1, <3>3
    <3>4. CASE m = n + 1
      <4>1. m - 1 = n
        BY <2>0, <3>4
      <4>2. W(m) = 5
        BY <1>8, <2>1, <4>1
      <4> QED BY <1>4, <4>2
    <3>5. CASE m = n + 2
      <4>1. m - 2 = n
        BY <2>0, <3>5
      <4>2. W(m) = 6
        BY <1>8, <2>1, <4>1
      <4>3. h < 17
        BY <1>1, <2>0, <3>1, <3>5
      <4> QED BY <1>4, <4>2, <4>3
    <3> QED BY <3>2, <3>3, <3>4, <3>5
  <2>2. CASE W(n) # 4
    <3>1. 24 * n + 16 <= 24 * m + h /\ 24 * m + h < 24 * n + 17
      BY <1>6, <1>10, <2>0, <2>2
    <3>2. m = n /\ h = 16
      BY <1>1, <2>0, <3>1
    <3> QED BY <1>4, <3>2
  <2> QED BY <2>1, <2>2
<1> QED BY <1>9, <1>10 DEF W

(* The hours of a day the exchange is closed.                                 *)
Shut(d) == {t \in (24 * d)..(24 * d + 23) : Vendor!OnHoliday(t)}

(* The closed windows of a day are apart and have the hours of the exchange's *)
(* calendar, each once.                                                       *)
LEMMA ClosedIsShut ==
    ASSUME first \in 0..6, behind \in 1..23, NEW d \in Nat
    PROVE  Apart(Vendor!Closed(d)) /\ TicksAll(Vendor!Closed(d)) = Shut(d)
<1> DEFINE N == {m \in (d - 3)..d : Vendor!Weekday(m) # 5}
           piece(n) == Win!ClipWindow(<<HaltBegin(n), HaltEnd(n)>>, 24 * d, 24 * d + 24)
           f == [n \in N |-> piece(n)]
           W == {piece(n) : n \in N}
<1>0. 24 * d \in Int /\ 24 * d + 24 \in Int /\ (24 * d + 24) - 1 = 24 * d + 23
  OBVIOUS
<1>1. IsFiniteSet(N) /\ N \subseteq Int
  <2>1. PICK a \in Int : a = d - 3
    OBVIOUS
  <2>2. IsFiniteSet(a..d) /\ a..d \subseteq Int
    BY FS_Interval
  <2>3. N \in SUBSET (a..d)
    BY <2>1
  <2> QED BY <2>2, <2>3, FS_Subset
<1>2. Vendor!Closed(d) = Win!MergeWindows(W)
  <2>1. \A n \in N : Vendor!ClipWindow(Vendor!HaltOf(n), 24 * d, 24 * d + 24) = piece(n)
    BY <1>1, HaltIs, VendorWindows
  <2>2. W = {Vendor!ClipWindow(Vendor!HaltOf(n), Vendor!DayBegin(d), Vendor!DayEnd(d)) : n \in N}
    BY <2>1 DEF Vendor!DayBegin, Vendor!DayEnd
  <2> QED BY <2>2, VendorWindows DEF Vendor!Closed
<1>3. ASSUME NEW n \in N
      PROVE  piece(n) \in Window
             /\ TicksIn(piece(n)) = {t \in (24 * d)..(24 * d + 23) : HaltBegin(n) <= t /\ t < HaltEnd(n)}
  <2>1. /\ <<HaltBegin(n), HaltEnd(n)>> \in Window /\ HaltBegin(n) <= HaltEnd(n)
        /\ HaltBegin(n) \in Int /\ HaltEnd(n) \in Int
    <3>1. n \in Int
      BY <1>1
    <3>2. /\ HaltBegin(n) \in Int /\ HaltEnd(n) \in Int /\ HaltBegin(n) < HaltEnd(n)
      BY <3>1, HaltIs
    <3> QED BY <3>2 DEF Window
  <2>2. piece(n) \in Window
        /\ TicksIn(piece(n)) = TicksIn(<<HaltBegin(n), HaltEnd(n)>>) \cap ((24 * d)..((24 * d + 24) - 1))
    <3> DEFINE w == <<HaltBegin(n), HaltEnd(n)>>
    <3>1. w \in Window /\ w[1] <= w[2]
      BY <2>1
    <3> HIDE DEF w
    <3>2. /\ Win!ClipWindow(w, 24 * d, 24 * d + 24) \in Window
          /\ TicksIn(Win!ClipWindow(w, 24 * d, 24 * d + 24))
               = TicksIn(w) \cap ((24 * d)..((24 * d + 24) - 1))
      BY <1>0, <3>1, ClippedWindow
    <3> QED BY <3>2 DEF w
  <2>3. TicksIn(<<HaltBegin(n), HaltEnd(n)>>) = HaltBegin(n)..(HaltEnd(n) - 1)
    BY DEF TicksIn
  <2> HIDE DEF piece
  <2> QED BY <1>0, <2>1, <2>2, <2>3
<1>4. IsFiniteSet(W) /\ W \subseteq Window
  <2>1. f \in Surjection(N, W)
    BY DEF Surjection
  <2>2. W \subseteq Window
    BY <1>3
  <2> HIDE DEF f, W, N
  <2> QED BY <1>1, <2>1, <2>2, FS_Surjection DEF ExistsSurjection
<1>5. UNION {TicksIn(w) : w \in W} = Shut(d)
  <2> HIDE DEF piece
  <2>1. ASSUME NEW t \in UNION {TicksIn(w) : w \in W} PROVE t \in Shut(d)
    <3>1. PICK n \in N : t \in TicksIn(piece(n))
      OBVIOUS
    <3>2. t \in (24 * d)..(24 * d + 23) /\ HaltBegin(n) <= t /\ t < HaltEnd(n)
      BY <1>3, <3>1
    <3>3. n \in (d - 3)..d /\ Vendor!Weekday(n) # 5
      OBVIOUS
    <3>4. Vendor!OnHoliday(t)
      BY <3>2, <3>3, HolidayIsHalt
    <3> QED BY <3>2, <3>4 DEF Shut
  <2>2. ASSUME NEW t \in Shut(d) PROVE t \in UNION {TicksIn(w) : w \in W}
    <3>1. t \in (24 * d)..(24 * d + 23) /\ Vendor!OnHoliday(t)
      BY DEF Shut
    <3>2. PICK n \in (d - 3)..d : Vendor!Weekday(n) # 5 /\ HaltBegin(n) <= t /\ t < HaltEnd(n)
      BY <3>1, HolidayIsHalt
    <3>3. n \in N
      BY <3>2
    <3>4. t \in TicksIn(piece(n))
      BY <1>3, <3>1, <3>2, <3>3
    <3> QED BY <3>3, <3>4
  <2> QED BY <2>1, <2>2
<1> HIDE DEF W
<1> QED BY <1>2, <1>4, <1>5, MergedWindows

(* The closed time between two records of the day.                            *)
LEMMA ClosedPartIs ==
    ASSUME first \in 0..6, behind \in 1..23, NEW d \in Nat, NEW from \in Int, NEW to \in Int
    PROVE  /\ IsFiniteSet(Shut(d) \cap (from..(to - 1)))
           /\ Vendor!ClosedPart(from, to, d) = Cardinality(Shut(d) \cap (from..(to - 1)))
<1> DEFINE m == Vendor!Closed(d)
           c == Win!Clip(m, from, to)
<1>1. Apart(m) /\ TicksAll(m) = Shut(d)
  BY ClosedIsShut
<1> HIDE DEF m
<1>2. Apart(c) /\ TicksAll(c) = Shut(d) \cap (from..(to - 1))
  BY <1>1, ClippedWindows
<1>3. Vendor!ClosedPart(from, to, d) = Win!TotalLength(c)
  BY VendorWindows DEF Vendor!ClosedPart, m
<1> HIDE DEF c
<1> QED BY <1>2, <1>3, TotalIsTicks

(* The records of a day among some records.                                   *)
DayPart(s, d) == FlattenSeq([i \in DOMAIN s |-> IF Vendor!DayOf(s[i]) = d THEN <<s[i]>> ELSE <<>>])

(* One record more is one more of its own day and of no other.                *)
LEMMA DayPartGrows ==
    ASSUME NEW s \in Seq(Int), NEW t \in Int, NEW d
    PROVE  DayPart(Append(s, t), d)
             = IF Vendor!DayOf(t) = d THEN Append(DayPart(s, d), t) ELSE DayPart(s, d)
<1> DEFINE n == Len(s)
           piece(x) == IF Vendor!DayOf(x) = d THEN <<x>> ELSE <<>>
           table == [i \in 1..n |-> piece(s[i])]
           a == Append(s, t)
<1>1. n \in Nat /\ DOMAIN s = 1..n /\ \A i \in 1..n : s[i] \in Int
  OBVIOUS
<1>2. DOMAIN a = 1..(n + 1) /\ a[n + 1] = t /\ \A i \in 1..n : a[i] = s[i]
  BY <1>1
<1>3. \A x \in Int : piece(x) \in Seq(Int)
  <2> SUFFICES ASSUME NEW x \in Int PROVE piece(x) \in Seq(Int)
    OBVIOUS
  <2>1. <<x>> \in Seq(Int) /\ <<>> \in Seq(Int)
    OBVIOUS
  <2> QED BY <2>1
<1>4. DayPart(s, d) = FlattenSeq(table)
  BY <1>1 DEF DayPart
<1>5. DayPart(a, d) = FlattenSeq([i \in 1..(n + 1) |-> piece(a[i])])
  BY <1>2 DEF DayPart
<1> HIDE DEF n, a, piece
<1>6. table \in Seq(Seq(Int)) /\ Len(table) = n
  <2>1. table \in [1..n -> Seq(Int)]
    BY <1>1, <1>3
  <2>2. DOMAIN table = 1..n
    OBVIOUS
  <2> HIDE DEF table
  <2>3. table \in Seq(Seq(Int))
    BY <1>1, <2>1, TableIsSeq
  <2> QED BY <1>1, <2>2, <2>3, LenProperties
<1>7. [i \in 1..(n + 1) |-> piece(a[i])] = Append(table, piece(t))
  <2> DEFINE more == [i \in 1..(n + 1) |-> piece(a[i])]
             grown == Append(table, piece(t))
  <2>1. more \in [1..(n + 1) -> Seq(Int)]
    <3>1. \A i \in 1..(n + 1) : i = n + 1 \/ i \in 1..n
      BY <1>1
    <3>2. \A i \in 1..(n + 1) : a[i] \in Int
      BY <1>1, <1>2, <3>1
    <3> QED BY <1>3, <3>2
  <2>2. more \in Seq(Seq(Int)) /\ Len(more) = n + 1
    <3> HIDE DEF more
    <3>1. more \in Seq(Seq(Int))
      BY <1>1, <2>1, TableIsSeq
    <3>2. DOMAIN more = 1..(n + 1)
      BY <2>1
    <3> QED BY <1>1, <3>1, <3>2, LenProperties
  <2>3. piece(t) \in Seq(Int)
    BY <1>3
  <2>4. table = [i \in 1..n |-> piece(s[i])]
    OBVIOUS
  <2> HIDE DEF table
  <2>5. /\ grown \in Seq(Seq(Int)) /\ Len(grown) = n + 1 /\ grown[n + 1] = piece(t)
        /\ \A i \in 1..n : grown[i] = table[i]
    BY <1>6, <2>3, AppendProperties
  <2>6. \A i \in 1..(n + 1) : grown[i] = more[i]
    <3>1. \A i \in 1..(n + 1) : i = n + 1 \/ i \in 1..n
      BY <1>1
    <3>2. \A i \in 1..n : grown[i] = piece(s[i]) /\ more[i] = piece(s[i])
      BY <1>1, <1>2, <2>4, <2>5
    <3>3. n + 1 \in 1..(n + 1)
      BY <1>1
    <3>4. more[n + 1] = piece(t)
      BY <1>2, <3>3
    <3> QED BY <2>5, <3>1, <3>2, <3>4
  <2> HIDE DEF grown, more
  <2>7. grown = more
    BY <2>2, <2>5, <2>6, SeqEqual
  <2> QED BY <2>7 DEF grown, more
<1>8. DayPart(a, d) = DayPart(s, d) \o piece(t)
  <2> HIDE DEF table
  <2>1. FlattenSeq(Append(table, piece(t))) = FlattenSeq(table) \o piece(t)
    BY <1>3, <1>6, FlattenAppend
  <2> QED BY <1>4, <1>5, <1>7, <2>1
<1>9. DayPart(s, d) \in Seq(Int)
  <2> HIDE DEF table
  <2> QED BY <1>4, <1>6, FlattenType
<1> HIDE DEF table
<1>10. CASE Vendor!DayOf(t) = d
  <2>1. piece(t) = <<t>>
    BY <1>10 DEF piece
  <2>2. DayPart(s, d) \o <<t>> = Append(DayPart(s, d), t)
    BY <1>9
  <2> QED BY <1>8, <1>10, <2>1, <2>2 DEF a
<1>11. CASE Vendor!DayOf(t) # d
  <2>1. piece(t) = <<>>
    BY <1>11 DEF piece
  <2>2. DayPart(s, d) \o <<>> = DayPart(s, d)
    BY <1>9, ConcatEmptySeq
  <2> QED BY <1>8, <1>11, <2>1, <2>2 DEF a
<1> QED BY <1>10, <1>11

(* The hours of a day between records close together, with the exchange open. *)
FreshTime(taken, d) ==
    {t \in (24 * d)..(24 * d + 23) :
        /\ ~Vendor!OnHoliday(t)
        /\ \E i \in 1..(Len(taken) - 1) :
              taken[i] <= t /\ t < taken[i + 1] /\ taken[i + 1] - taken[i] <= Quiet}

(* The report of a day is that of its records so far: `covered' is their      *)
(* fresh time, unless one was out of order, and each quiet interval is        *)
(* between two of them in a row.                                              *)
DayReport == [events : Int, disorder : Nat, covered : Int, quiet : SUBSET (Int \X Int), unexplained : Int]
DayGood(r, last, taken, d) ==
    /\ r \in DayReport /\ taken \in Seq((24 * d)..(24 * d + 23))
    /\ last = IF taken = <<>> THEN -1 ELSE taken[Len(taken)]
    /\ r.disorder = 0 =>
          /\ \A i, j \in 1..Len(taken) : i < j => taken[i] <= taken[j]
          /\ r.covered = Cardinality(FreshTime(taken, d))
    /\ \A w \in r.quiet : \E i \in 1..(Len(taken) - 1) :
          w = <<taken[i], taken[i + 1]>> /\ taken[i + 1] - taken[i] > Quiet

(* Fresh time is finite, and grows with a record that comes soon enough by    *)
(* the open time since the last one.                                          *)
LEMMA FreshGrows ==
    ASSUME first \in 0..6, behind \in 1..23, Quiet \in Nat, NEW d \in Nat,
           NEW taken \in Seq((24 * d)..(24 * d + 23)), NEW t \in (24 * d)..(24 * d + 23),
           taken # <<>>, taken[Len(taken)] <= t,
           \A i, j \in 1..Len(taken) : i < j => taken[i] <= taken[j]
    PROVE  LET from == taken[Len(taken)]
               old == Cardinality(FreshTime(taken, d))
               new == Cardinality(FreshTime(Append(taken, t), d))
           IN  /\ old \in Nat
               /\ t - from > Quiet => new = old
               /\ t - from <= Quiet => new = old + ((t - from) - Vendor!ClosedPart(from, t, d))
               /\ Vendor!ClosedPart(from, t, d) <= t - from
               /\ Vendor!ClosedPart(from, t, d) \in Nat
<1> DEFINE n == Len(taken)
           from == taken[n]
           a == Append(taken, t)
           D == (24 * d)..(24 * d + 23)
           inside == from..(t - 1)
           F == FreshTime(taken, d)
           Link(s, i, x) == s[i] <= x /\ x < s[i + 1] /\ s[i + 1] - s[i] <= Quiet
<1>1. /\ n \in Nat /\ n >= 1 /\ \A i \in 1..n : taken[i] \in D /\ taken[i] \in Int
      /\ from \in Int /\ from \in D /\ t \in Int /\ from <= t
  <2>1. n \in Nat /\ n # 0
    OBVIOUS
  <2>2. \A i \in 1..n : taken[i] \in D /\ taken[i] \in Int
    OBVIOUS
  <2>3. n \in 1..n
    BY <2>1
  <2> QED BY <2>1, <2>2, <2>3
<1>2. a \in Seq(D) /\ Len(a) = n + 1 /\ a[n + 1] = t /\ \A i \in 1..n : a[i] = taken[i]
  BY <1>1, AppendProperties
<1>3. IsFiniteSet(D)
  <2>1. PICK x \in Int : x = 24 * d
    OBVIOUS
  <2>2. PICK y \in Int : y = 24 * d + 23
    OBVIOUS
  <2>3. IsFiniteSet(x..y)
    BY FS_Interval
  <2> QED BY <2>1, <2>2, <2>3
<1>4. IsFiniteSet(inside) /\ Cardinality(inside) = t - from
  <2>1. PICK x \in Int : x = from
    BY <1>1
  <2>2. PICK y \in Int : y = t - 1
    BY <1>1
  <2>3. IsFiniteSet(x..y) /\ Cardinality(x..y) = IF x > y THEN 0 ELSE y - x + 1
    BY FS_Interval
  <2> QED BY <1>1, <2>1, <2>2, <2>3
<1>5. inside \subseteq D
  BY <1>1
<1>6. /\ Vendor!ClosedPart(from, t, d) = Cardinality(inside \cap Shut(d))
      /\ Vendor!ClosedPart(from, t, d) \in Nat /\ Vendor!ClosedPart(from, t, d) <= t - from
  <2>1. /\ IsFiniteSet(Shut(d) \cap inside)
        /\ Vendor!ClosedPart(from, t, d) = Cardinality(Shut(d) \cap inside)
    BY <1>1, ClosedPartIs
  <2> HIDE DEF inside, from
  <2>2. Shut(d) \cap inside \in SUBSET inside /\ Shut(d) \cap inside = inside \cap Shut(d)
    OBVIOUS
  <2>3. Cardinality(Shut(d) \cap inside) <= Cardinality(inside)
        /\ Cardinality(Shut(d) \cap inside) \in Nat
    BY <1>4, <2>1, <2>2, FS_Subset, FS_CardinalityType
  <2> QED BY <1>4, <2>1, <2>2, <2>3
<1>7. /\ F = {x \in D : ~Vendor!OnHoliday(x) /\ \E i \in 1..(n - 1) : Link(taken, i, x)}
      /\ FreshTime(a, d) = {x \in D : ~Vendor!OnHoliday(x) /\ \E i \in 1..n : Link(a, i, x)}
  <2>1. F = {x \in D : ~Vendor!OnHoliday(x) /\ \E i \in 1..(n - 1) : Link(taken, i, x)}
    BY DEF FreshTime
  <2>2. (n + 1) - 1 = n
    BY <1>1
  <2> HIDE DEF a
  <2>3. FreshTime(a, d) = {x \in D : ~Vendor!OnHoliday(x) /\ \E i \in 1..n : Link(a, i, x)}
    BY <1>2, <2>2 DEF FreshTime
  <2> QED BY <2>1, <2>3
<1> HIDE DEF a, F, Link
<1>8. \A i \in 1..(n - 1) : i \in 1..n /\ i + 1 \in 1..n /\ i # n
  BY <1>1
<1>9. \A x : \A i \in 1..(n - 1) : Link(a, i, x) <=> Link(taken, i, x)
  BY <1>2, <1>8 DEF Link
<1>10. \A x : Link(a, n, x) <=> from <= x /\ x < t /\ t - from <= Quiet
  <2>1. a[n] = from /\ a[n + 1] = t
    BY <1>1, <1>2
  <2> QED BY <2>1 DEF Link
<1>11. \A x \in F : x < from
  <2> SUFFICES ASSUME NEW x \in F PROVE x < from
    OBVIOUS
  <2>1. PICK i \in 1..(n - 1) : Link(taken, i, x)
    BY <1>7
  <2>2. x < taken[i + 1] /\ taken[i + 1] \in Int /\ x \in Int
    <3>1. x \in D
      BY <1>7
    <3>2. i + 1 \in 1..n
      BY <1>8
    <3>3. taken[i + 1] \in Int
      BY <1>1, <3>2
    <3> QED BY <2>1, <3>1, <3>3 DEF Link
  <2>3. taken[i + 1] <= from
    <3>1. i + 1 \in 1..n /\ n \in 1..n /\ (i + 1 = n \/ i + 1 < n)
      BY <1>1, <1>8
    <3> QED BY <1>1, <3>1
  <2> QED BY <1>1, <2>2, <2>3
<1>12. IsFiniteSet(F) /\ Cardinality(F) \in Nat
  <2>1. F \in SUBSET D
    BY <1>7
  <2> QED BY <1>3, <2>1, FS_Subset, FS_CardinalityType
<1>13. ASSUME t - from > Quiet PROVE FreshTime(a, d) = F
  <2>1. \A x : ~Link(a, n, x)
    BY <1>1, <1>10, <1>13
  <2>2. \A x : (\E i \in 1..n : Link(a, i, x)) <=> \E i \in 1..(n - 1) : Link(taken, i, x)
    <3>1. \A i \in 1..n : i = n \/ i \in 1..(n - 1)
      BY <1>1
    <3> QED BY <1>8, <1>9, <2>1, <3>1
  <2> QED BY <1>7, <2>2
<1>14. ASSUME t - from <= Quiet PROVE FreshTime(a, d) = F \cup (inside \ Shut(d))
  <2>1. \A x \in D : Link(a, n, x) <=> x \in inside
    BY <1>1, <1>10, <1>14
  <2>2. \A x \in D : x \in Shut(d) <=> Vendor!OnHoliday(x)
    BY DEF Shut
  <2>3. \A x : (\E i \in 1..n : Link(a, i, x)) <=> Link(a, n, x) \/ \E i \in 1..(n - 1) : Link(taken, i, x)
    <3>1. \A i \in 1..n : i = n \/ i \in 1..(n - 1)
      BY <1>1
    <3>2. n \in 1..n
      BY <1>1
    <3> QED BY <1>8, <1>9, <3>1, <3>2
  <2> HIDE DEF inside, D
  <2> QED BY <1>5, <1>7, <2>1, <2>2, <2>3
<1>15. F \cap (inside \ Shut(d)) = {}
  BY <1>1, <1>11
<1> HIDE DEF inside, from
<1>16. /\ IsFiniteSet(inside \ Shut(d))
       /\ Cardinality(inside \ Shut(d)) = (t - from) - Vendor!ClosedPart(from, t, d)
  <2>1. IsFiniteSet(inside \ Shut(d))
        /\ Cardinality(inside \ Shut(d)) = Cardinality(inside) - Cardinality(inside \cap Shut(d))
    BY ONLY <1>4, FS_Difference
  <2> QED BY <1>4, <1>6, <2>1
<1>17. Cardinality(F \cup (inside \ Shut(d))) = Cardinality(F) + Cardinality(inside \ Shut(d))
  <2>1. Cardinality(F \cup (inside \ Shut(d))) = Cardinality(F) + Cardinality(inside \ Shut(d)) - 0
    BY <1>12, <1>15, <1>16, FS_Union, FS_EmptySet
  <2>2. Cardinality(inside \ Shut(d)) \in Nat
    BY <1>16, FS_CardinalityType
  <2> QED BY <1>12, <2>1, <2>2
<1> QED BY <1>6, <1>12, <1>13, <1>14, <1>16, <1>17 DEF F, a, from

(* The closed time between two hours of a day is at most the time between.    *)
LEMMA ClosedWithin ==
    ASSUME first \in 0..6, behind \in 1..23, NEW d \in Nat, NEW from \in Int, NEW to \in Int,
           from <= to
    PROVE  Vendor!ClosedPart(from, to, d) \in Int /\ Vendor!ClosedPart(from, to, d) <= to - from
<1> DEFINE inside == from..(to - 1)
<1>1. IsFiniteSet(inside) /\ Cardinality(inside) = to - from
  <2>1. PICK y \in Int : y = to - 1
    OBVIOUS
  <2>2. IsFiniteSet(from..y) /\ Cardinality(from..y) = IF from > y THEN 0 ELSE y - from + 1
    BY FS_Interval
  <2> QED BY <2>1, <2>2
<1>2. IsFiniteSet(Shut(d) \cap inside)
      /\ Vendor!ClosedPart(from, to, d) = Cardinality(Shut(d) \cap inside)
  BY ClosedPartIs
<1> HIDE DEF inside
<1>3. Shut(d) \cap inside \in SUBSET inside
  OBVIOUS
<1>4. Cardinality(Shut(d) \cap inside) <= Cardinality(inside)
      /\ Cardinality(Shut(d) \cap inside) \in Nat
  BY <1>1, <1>2, <1>3, FS_Subset, FS_CardinalityType
<1> QED BY <1>1, <1>2, <1>4

(* A record more on a day's report.                                           *)
LEMMA ScoreKeepsReport ==
    ASSUME first \in 0..6, behind \in 1..23, Quiet \in Nat, NEW d \in Nat,
           NEW r, NEW before, NEW taken, DayGood(r, before, taken, d),
           NEW t \in (24 * d)..(24 * d + 23), NEW cross \in BOOLEAN
    PROVE  DayGood(Vendor!Score(r, before, t, d, cross), t, Append(taken, t), d)
<1> DEFINE n == Len(taken)
           D == (24 * d)..(24 * d + 23)
           a == Append(taken, t)
           q == Vendor!Timed(r, before, t, d)
           scored == Vendor!Score(r, before, t, d, cross)
           closed == Vendor!ClosedPart(before, t, d)
<1>1. /\ r \in DayReport /\ taken \in Seq(D) /\ n \in Nat /\ t \in Int /\ t \in D
      /\ before = IF taken = <<>> THEN -1 ELSE taken[n]
      /\ \A i \in 1..n : taken[i] \in D /\ taken[i] \in Int
  <2>1. taken \in Seq(D)
    BY DEF DayGood
  <2>2. \A i \in 1..n : taken[i] \in D
    BY <2>1
  <2>3. D \subseteq Int
    OBVIOUS
  <2> QED BY <2>1, <2>2, <2>3 DEF DayGood
<1>2. a \in Seq(D) /\ Len(a) = n + 1 /\ a[n + 1] = t /\ \A i \in 1..n : a[i] = taken[i]
  BY <1>1, AppendProperties
<1>3. a # <<>> /\ a[Len(a)] = t
  <2> HIDE DEF a, n
  <2>1. Len(a) # 0 /\ Len(<<>>) = 0
    BY <1>1, <1>2
  <2> QED BY <1>2, <2>1
<1>4. \A i \in 1..(n - 1) : i \in 1..n /\ i + 1 \in 1..n /\ i \in 1..((n + 1) - 1)
  BY <1>1
<1>5. ASSUME q \in DayReport
      PROVE  scored \in DayReport /\ scored.disorder = q.disorder /\ scored.covered = q.covered
             /\ scored.quiet = q.quiet
  <2> HIDE DEF q
  <2>1. scored = IF cross /\ ~Vendor!InWindow(t, Vendor!NoMatch(d))
                 THEN [[q EXCEPT !.events = @ + 1] EXCEPT !.unexplained = @ + 1]
                 ELSE [q EXCEPT !.events = @ + 1]
    BY DEF Vendor!Score, q
  <2> HIDE DEF scored
  <2>2. [q EXCEPT !.events = @ + 1] \in DayReport
        /\ [q EXCEPT !.events = @ + 1].disorder = q.disorder
        /\ [q EXCEPT !.events = @ + 1].covered = q.covered
        /\ [q EXCEPT !.events = @ + 1].quiet = q.quiet
    BY <1>5 DEF DayReport
  <2>3. PICK e \in DayReport : e = [q EXCEPT !.events = @ + 1]
    BY <2>2
  <2>4. [e EXCEPT !.unexplained = @ + 1] \in DayReport
        /\ [e EXCEPT !.unexplained = @ + 1].disorder = e.disorder
        /\ [e EXCEPT !.unexplained = @ + 1].covered = e.covered
        /\ [e EXCEPT !.unexplained = @ + 1].quiet = e.quiet
    BY DEF DayReport
  <2> QED BY <2>1, <2>2, <2>3, <2>4
<1>6. \A w \in r.quiet : \E i \in 1..((n + 1) - 1) :
          w = <<a[i], a[i + 1]>> /\ a[i + 1] - a[i] > Quiet
  <2> SUFFICES ASSUME NEW w \in r.quiet
               PROVE  \E i \in 1..((n + 1) - 1) : w = <<a[i], a[i + 1]>> /\ a[i + 1] - a[i] > Quiet
    OBVIOUS
  <2>1. PICK i \in 1..(n - 1) : w = <<taken[i], taken[i + 1]>> /\ taken[i + 1] - taken[i] > Quiet
    BY DEF DayGood
  <2>2. i \in 1..n /\ i + 1 \in 1..n /\ i \in 1..((n + 1) - 1)
    BY <1>4
  <2>3. a[i] = taken[i] /\ a[i + 1] = taken[i + 1]
    BY <1>2, <2>2
  <2> QED BY <2>1, <2>2, <2>3
<1> DEFINE Sorted(s) == \A i, j \in 1..Len(s) : i < j => s[i] <= s[j]
<1>7. ASSUME q \in DayReport,
             q.disorder = 0 => Sorted(a) /\ q.covered = Cardinality(FreshTime(a, d)),
             q.quiet \subseteq r.quiet \cup {<<before, t>>},
             <<before, t>> \in q.quiet => taken # <<>> /\ t - before > Quiet
      PROVE  DayGood(scored, t, a, d)
  <2>1. \A w \in q.quiet : \E i \in 1..((n + 1) - 1) : w = <<a[i], a[i + 1]>> /\ a[i + 1] - a[i] > Quiet
    <3> SUFFICES ASSUME NEW w \in q.quiet
                 PROVE  \E i \in 1..((n + 1) - 1) : w = <<a[i], a[i + 1]>> /\ a[i + 1] - a[i] > Quiet
      OBVIOUS
    <3>1. CASE w \in r.quiet
      BY <1>6, <3>1
    <3>2. CASE w = <<before, t>> /\ w \in q.quiet
      <4>1. taken # <<>> /\ t - before > Quiet
        BY <1>7, <3>2
      <4>2. n \in 1..((n + 1) - 1) /\ n \in 1..n /\ before = taken[n]
        BY <1>1, <4>1
      <4>3. a[n] = before /\ a[n + 1] = t
        BY <1>2, <4>2
      <4> QED BY <3>2, <4>1, <4>2, <4>3
    <3> QED BY <1>7, <3>1, <3>2
  <2>2. scored \in DayReport /\ scored.disorder = q.disorder /\ scored.covered = q.covered
             /\ scored.quiet = q.quiet
    BY <1>5, <1>7
  <2> HIDE DEF scored, q, a
  <2>3. scored.disorder = 0 => Sorted(a) /\ scored.covered = Cardinality(FreshTime(a, d))
    BY <1>7, <2>2
  <2>4. \A w \in scored.quiet : \E i \in 1..(Len(a) - 1) : w = <<a[i], a[i + 1]>> /\ a[i + 1] - a[i] > Quiet
    BY <1>2, <2>1, <2>2
  <2> QED BY <1>2, <1>3, <2>2, <2>3, <2>4 DEF DayGood
<1>8. CASE taken = <<>>
  <2>1. q = r
    BY <1>1, <1>8 DEF Vendor!Timed, Vendor!None
  <2>2. n = 0 /\ Len(a) = 1
    BY <1>2, <1>8
  <2>3. Sorted(a)
    BY <1>1, <1>2, <2>2
  <2>4. FreshTime(a, d) = {} /\ FreshTime(taken, d) = {}
    <3>1. 1..(1 - 1) = {} /\ 1..(0 - 1) = {}
      OBVIOUS
    <3> HIDE DEF a
    <3> QED BY <2>2, <3>1 DEF FreshTime
  <2>5. r.disorder = 0 => r.covered = Cardinality(FreshTime(taken, d))
    BY DEF DayGood
  <2>6. <<before, t>> \notin r.quiet
    <3>1. \A w \in r.quiet : \E i \in 1..(0 - 1) : TRUE
      BY <2>2 DEF DayGood
    <3>2. 1..(0 - 1) = {}
      OBVIOUS
    <3> QED BY <3>1, <3>2
  <2> HIDE DEF q, a, Sorted
  <2> QED BY <1>1, <1>7, <2>1, <2>3, <2>4, <2>5, <2>6 DEF a
<1>9. CASE taken # <<>>
  <2>1. before = taken[n] /\ before \in D /\ before \in Int /\ before # -1 /\ n \in 1..n
    <3>1. n \in 1..n
      BY <1>1, <1>9
    <3> QED BY <1>1, <1>9, <3>1
  <2>2. CASE t < before
    <3>1. q = [r EXCEPT !.disorder = @ + 1]
      BY <2>1, <2>2 DEF Vendor!Timed, Vendor!None
    <3>2. q \in DayReport /\ q.disorder # 0 /\ q.quiet = r.quiet
      BY <1>1, <3>1 DEF DayReport
    <3>3. <<before, t>> \in r.quiet => t - before > Quiet
      <4>1. ASSUME <<before, t>> \in r.quiet PROVE t - before > Quiet
        <5>1. PICK i \in 1..(n - 1) :
                 <<before, t>> = <<taken[i], taken[i + 1]>> /\ taken[i + 1] - taken[i] > Quiet
          BY <4>1 DEF DayGood
        <5> QED BY <5>1
      <4> QED BY <4>1
    <3> HIDE DEF q, a, Sorted
    <3> QED BY <1>7, <1>9, <3>2, <3>3 DEF a
  <2>3. CASE ~(t < before)
    <3>1. before <= t
      BY <1>1, <2>1, <2>3
    <3>2. Sorted(taken) => Sorted(a)
      <4> SUFFICES ASSUME Sorted(taken), NEW i \in 1..(n + 1), NEW j \in 1..(n + 1), i < j
                   PROVE  a[i] <= a[j]
        BY <1>2
      <4>1. i \in 1..n /\ (j = n + 1 \/ j \in 1..n)
        BY <1>1
      <4>2. CASE j \in 1..n
        BY <1>2, <4>1, <4>2
      <4>3. CASE j = n + 1
        <5>1. taken[i] <= taken[n]
          <6>1. i = n \/ i < n
            BY <1>1, <4>1
          <6> QED BY <1>1, <2>1, <4>1, <6>1
        <5>2. taken[i] \in Int
          BY <1>1, <4>1
        <5> QED BY <1>1, <1>2, <2>1, <3>1, <4>1, <4>3, <5>1, <5>2
      <4> QED BY <4>1, <4>2, <4>3
    <3> DEFINE late == t - before > Quiet /\ closed < t - before
    <3>3. q = IF late THEN [r EXCEPT !.quiet = @ \cup {<<before, t>>}]
                      ELSE [r EXCEPT !.covered = @ + (t - before) - closed]
      BY <2>1, <2>3 DEF Vendor!Timed, Vendor!None
    <3>4. ASSUME r.disorder = 0
          PROVE  /\ Sorted(a) /\ closed \in Nat /\ closed <= t - before
                 /\ r.covered \in Int /\ t - before \in Int
                 /\ t - before > Quiet => Cardinality(FreshTime(a, d)) = r.covered
                 /\ t - before <= Quiet =>
                        Cardinality(FreshTime(a, d)) = r.covered + ((t - before) - closed)
      <4>1. Sorted(taken) /\ r.covered = Cardinality(FreshTime(taken, d))
        BY <3>4 DEF DayGood
      <4>2. Sorted(a)
        BY <3>2, <4>1
      <4>3. /\ Cardinality(FreshTime(taken, d)) \in Nat
            /\ t - taken[n] > Quiet =>
                  Cardinality(FreshTime(Append(taken, t), d)) = Cardinality(FreshTime(taken, d))
            /\ t - taken[n] <= Quiet =>
                  Cardinality(FreshTime(Append(taken, t), d))
                    = Cardinality(FreshTime(taken, d)) + ((t - taken[n]) - Vendor!ClosedPart(taken[n], t, d))
            /\ Vendor!ClosedPart(taken[n], t, d) <= t - taken[n]
            /\ Vendor!ClosedPart(taken[n], t, d) \in Nat
        BY <1>1, <1>9, <2>1, <3>1, <4>1, FreshGrows
      <4>4. taken[n] = before /\ r.covered \in Int /\ t - before \in Int
        BY <1>1, <2>1 DEF DayReport
      <4> HIDE DEF Sorted
      <4>5. closed \in Nat /\ closed <= t - before
        BY <4>3, <4>4
      <4>6. t - before > Quiet => Cardinality(FreshTime(a, d)) = r.covered
        BY <4>1, <4>3, <4>4
      <4>7. t - before <= Quiet => Cardinality(FreshTime(a, d)) = r.covered + ((t - before) - closed)
        BY <4>1, <4>3, <4>4
      <4> QED BY ONLY <4>2, <4>4, <4>5, <4>6, <4>7
    <3>5. closed \in Int /\ closed <= t - before
      BY <1>1, <2>1, <3>1, ClosedWithin
    <3> HIDE DEF closed, Sorted, a
    <3>6. CASE late
      <4>1. q = [r EXCEPT !.quiet = @ \cup {<<before, t>>}]
        BY <3>3, <3>6
      <4>2. q \in DayReport /\ q.disorder = r.disorder /\ q.covered = r.covered
            /\ q.quiet = r.quiet \cup {<<before, t>>}
        <5>1. <<before, t>> \in Int \X Int
          BY <1>1, <2>1
        <5> HIDE DEF q
        <5> QED BY <1>1, <4>1, <5>1 DEF DayReport
      <4>3. q.disorder = 0 => Sorted(a) /\ q.covered = Cardinality(FreshTime(a, d))
        BY <3>4, <3>6, <4>2
      <4> HIDE DEF q
      <4> QED BY <1>7, <1>9, <3>6, <4>2, <4>3 DEF a
    <3>7. CASE ~late
      <4>1. q = [r EXCEPT !.covered = @ + (t - before) - closed]
        BY <3>3, <3>7
      <4>2. r.covered \in Int /\ t - before \in Int
        BY <1>1, <2>1 DEF DayReport
      <4>3. q \in DayReport /\ q.disorder = r.disorder
            /\ q.covered = r.covered + (t - before) - closed /\ q.quiet = r.quiet
        <5>1. PICK dt \in Int : dt = t - before
          BY <4>2
        <5>2. PICK c \in Int : c = closed
          BY <3>5
        <5> HIDE DEF q
        <5>3. q = [r EXCEPT !.covered = @ + dt - c]
          BY <4>1, <5>1, <5>2
        <5>4. q \in DayReport /\ q.disorder = r.disorder /\ q.covered = r.covered + dt - c /\ q.quiet = r.quiet
          <6>1. PICK sum \in Int : sum = r.covered + dt - c
            BY <4>2
          <6>2. q = [r EXCEPT !.covered = sum]
            BY <5>3, <6>1
          <6>3. q \in DayReport /\ q.disorder = r.disorder /\ q.covered = sum /\ q.quiet = r.quiet
            BY <1>1, <6>2 DEF DayReport
          <6> QED BY <6>1, <6>3
        <5> QED BY <5>1, <5>2, <5>4
      <4>4. q.disorder = 0 => Sorted(a) /\ q.covered = Cardinality(FreshTime(a, d))
        <5> SUFFICES ASSUME r.disorder = 0 PROVE Sorted(a) /\ q.covered = Cardinality(FreshTime(a, d))
          BY <4>3
        <5>1. CASE t - before <= Quiet
          BY <3>4, <3>5, <4>2, <4>3, <5>1
        <5>2. CASE t - before > Quiet
          <6>1. closed = t - before
            BY <3>5, <3>7, <4>2, <5>2
          <6> QED BY <3>4, <3>5, <4>2, <4>3, <5>2, <6>1
        <5> QED BY <4>2, <5>1, <5>2
      <4>5. <<before, t>> \in r.quiet => t - before > Quiet
        <5>1. ASSUME <<before, t>> \in r.quiet PROVE t - before > Quiet
          <6>1. PICK i \in 1..(n - 1) :
                   <<before, t>> = <<taken[i], taken[i + 1]>> /\ taken[i + 1] - taken[i] > Quiet
            BY <5>1 DEF DayGood
          <6> QED BY <6>1
        <5> QED BY <5>1
      <4> HIDE DEF q
      <4> QED BY <1>7, <1>9, <4>3, <4>4, <4>5 DEF a
    <3> QED BY <3>6, <3>7
  <2> QED BY <2>2, <2>3
<1> QED BY <1>8, <1>9

(* What the reading of a vendor file keeps: each day's report is that of its  *)
(* records, and until a record comes for a closed day each day's partition    *)
(* holds them.                                                                *)
VendorInv ==
    /\ first \in 0..6 /\ behind \in 1..23 /\ IsFiniteSet(rolls) /\ rolls \subseteq Nat
    /\ recv \in Seq(Int)
    /\ report \in [FileDays -> DayReport] /\ prev \in [FileDays -> Int]
    /\ parts \in [FileDays -> Seq(Int)]
    /\ \A d \in FileDays : DayGood(report[d], prev[d], DayPart(recv, d), d)
    /\ ~failed => \A d \in FileDays : parts[d] = DayPart(recv, d)

(* An empty file has empty days.                                              *)
LEMMA VendorBegins == ASSUME Vendor!VendorDaysAssumption, Vendor!Init PROVE VendorInv
<1>1. /\ first \in 0..6 /\ behind \in 1..23 /\ recv = <<>>
      /\ report = [d \in FileDays |-> Vendor!NewReport] /\ prev = [d \in FileDays |-> -1]
      /\ parts = [d \in FileDays |-> <<>>]
  BY DEF Vendor!VendorDaysAssumption, Vendor!Init, Vendor!None
<1>2. IsFiniteSet(rolls) /\ rolls \subseteq Nat
  <2>1. IsFiniteSet(Rolls) /\ rolls \in SUBSET Rolls /\ Rolls \subseteq Nat
    <3>1. Vendor!IsFiniteSet(Rolls) => IsFiniteSet(Rolls)
      BY DEF Vendor!IsFiniteSet, IsFiniteSet
    <3> QED BY <3>1 DEF Vendor!VendorDaysAssumption, Vendor!Init
  <2> QED BY <2>1, FS_Subset
<1>3. \A d : DayPart(<<>>, d) = <<>>
  <2>1. DOMAIN <<>> = {} /\ 1..0 = {}
    OBVIOUS
  <2> QED BY <2>1 DEF DayPart, FlattenSeq
<1>4. /\ Vendor!NewReport \in DayReport /\ Vendor!NewReport.disorder = 0
      /\ Vendor!NewReport.covered = 0 /\ Vendor!NewReport.quiet = {}
  BY DEF Vendor!NewReport, DayReport
<1>5. \A d : FreshTime(<<>>, d) = {}
  <2>1. 1..(Len(<<>>) - 1) = {}
    OBVIOUS
  <2> QED BY <2>1 DEF FreshTime
<1>6. \A d : DayGood(Vendor!NewReport, -1, <<>>, d)
  <2>1. \A d : <<>> \in Seq((24 * d)..(24 * d + 23))
    OBVIOUS
  <2>2. Len(<<>>) = 0 /\ 1..0 = {}
    OBVIOUS
  <2> QED BY <1>4, <1>5, <2>1, <2>2, FS_EmptySet DEF DayGood
<1>7. <<>> \in Seq(Int)
  OBVIOUS
<1> QED BY <1>1, <1>2, <1>3, <1>4, <1>6, <1>7 DEF VendorInv

(* A record keeps the books of the days.                                      *)
LEMMA RecordKeepsDays ==
    ASSUME Vendor!VendorDaysAssumption, VendorInv, Vendor!Record PROVE VendorInv'
<1>1. PICK gap \in Steps, cross \in BOOLEAN :
          LET t == IF recv = <<>> THEN gap ELSE Vendor!Last(recv) + gap
              d == Vendor!DayOf(t)
          IN  /\ t >= 0 /\ d \in FileDays
              /\ recv' = Append(recv, t)
              /\ report' = [report EXCEPT ![d] = Vendor!Score(@, prev[d], t, d, cross)]
              /\ prev' = [prev EXCEPT ![d] = t]
              /\ Vendor!Ingest(t)
              /\ UNCHANGED <<first, behind, rolls>>
  BY DEF Vendor!Record
<1> DEFINE hourOf == IF recv = <<>> THEN gap ELSE Vendor!Last(recv) + gap
<1>2. hourOf \in Int
  <2>1. gap \in Int
    BY DEF Vendor!VendorDaysAssumption
  <2>2. recv # <<>> => Vendor!Last(recv) \in Int
    <3>1. recv \in Seq(Int)
      BY DEF VendorInv
    <3>2. recv # <<>> => recv[Len(recv)] \in Int
      BY <3>1
    <3> QED BY <3>2 DEF Vendor!Last
  <2> QED BY <2>1, <2>2
<1>3. PICK t \in Int : t = hourOf
  BY <1>2
<1>4. PICK d \in FileDays : d = Vendor!DayOf(t)
  BY <1>1, <1>3
<1>5. /\ t >= 0 /\ recv' = Append(recv, t)
      /\ report' = [report EXCEPT ![d] = Vendor!Score(report[d], prev[d], t, d, cross)]
      /\ prev' = [prev EXCEPT ![d] = t]
      /\ Vendor!Ingest(t)
      /\ UNCHANGED <<first, behind, rolls>>
  BY <1>1, <1>3, <1>4
<1> HIDE DEF hourOf
<1>6. d \in Nat /\ t \in (24 * d)..(24 * d + 23)
  <2>1. d \in Nat
    BY DEF Vendor!VendorDaysAssumption
  <2>2. d = t \div 24
    BY <1>4 DEF Vendor!DayOf
  <2> QED BY <1>5, <2>1, <2>2
<1>7. /\ first \in 0..6 /\ behind \in 1..23 /\ recv \in Seq(Int) /\ Quiet \in Nat
      /\ report \in [FileDays -> DayReport] /\ prev \in [FileDays -> Int]
      /\ parts \in [FileDays -> Seq(Int)]
  BY DEF VendorInv, Vendor!VendorDaysAssumption
<1>8. \A e : DayPart(Append(recv, t), e)
               = IF d = e THEN Append(DayPart(recv, e), t) ELSE DayPart(recv, e)
  BY <1>4, <1>7, DayPartGrows
<1>9. DayGood(Vendor!Score(report[d], prev[d], t, d, cross), t, Append(DayPart(recv, d), t), d)
  <2>1. DayGood(report[d], prev[d], DayPart(recv, d), d)
    BY DEF VendorInv
  <2> QED BY <1>6, <1>7, <2>1, ScoreKeepsReport
<1>10. Vendor!Score(report[d], prev[d], t, d, cross) \in DayReport
  BY <1>9 DEF DayGood
<1>11. ASSUME NEW e \in FileDays
       PROVE  DayGood(report'[e], prev'[e], DayPart(recv', e), e)
  <2>1. CASE e = d
    BY <1>5, <1>7, <1>8, <1>9, <2>1
  <2>2. CASE e # d
    <3>1. report'[e] = report[e] /\ prev'[e] = prev[e] /\ DayPart(recv', e) = DayPart(recv, e)
      BY <1>5, <1>7, <1>8, <2>2
    <3> QED BY <3>1 DEF VendorInv
  <2> QED BY <2>1, <2>2
<1>12. /\ parts' \in [FileDays -> Seq(Int)]
       /\ ~failed' => \A e \in FileDays : parts'[e] = DayPart(recv', e)
  <2>1. CASE failed' /\ parts' = parts
    BY <1>7, <2>1
  <2>2. CASE parts' = [parts EXCEPT ![d] = Append(@, t)] /\ failed' = failed
    <3>1. parts[d] \in Seq(Int)
      BY <1>7
    <3>2. Append(parts[d], t) \in Seq(Int)
      BY <3>1
    <3> QED BY <1>5, <1>7, <1>8, <2>2, <3>2 DEF VendorInv
  <2>3. (failed' /\ parts' = parts) \/ (parts' = [parts EXCEPT ![d] = Append(@, t)] /\ failed' = failed)
    BY <1>4, <1>5 DEF Vendor!Ingest, Vendor!Route
  <2> QED BY <2>1, <2>2, <2>3
<1>13. recv' \in Seq(Int) /\ report' \in [FileDays -> DayReport] /\ prev' \in [FileDays -> Int]
  BY <1>5, <1>7, <1>10
<1>14. \A s, e : FreshTime(s, e)' = FreshTime(s, e)
  BY <1>5 DEF FreshTime, Vendor!OnHoliday, Vendor!Weekday
<1>15. \A r, p, s, e : DayGood(r, p, s, e) => DayGood(r, p, s, e)'
  BY <1>14 DEF DayGood
<1>16. \A e \in FileDays : DayGood(report[e], prev[e], DayPart(recv, e), e)'
  <2> SUFFICES ASSUME NEW e \in FileDays PROVE DayGood(report[e], prev[e], DayPart(recv, e), e)'
    OBVIOUS
  <2>1. PICK r : r = report'[e]
    OBVIOUS
  <2>2. PICK p : p = prev'[e]
    OBVIOUS
  <2>3. PICK s : s = DayPart(recv', e)
    OBVIOUS
  <2>4. DayGood(r, p, s, e)'
    BY <1>11, <1>15, <2>1, <2>2, <2>3
  <2>5. DayPart(recv, e)' = s
    BY <2>3 DEF DayPart
  <2> QED BY <2>1, <2>2, <2>4, <2>5 DEF DayGood
<1>17. \A e : DayPart(recv, e)' = DayPart(recv', e)
  BY DEF DayPart
<1> QED BY <1>5, <1>7, <1>12, <1>13, <1>16, <1>17 DEF VendorInv

(* The windows of a sequence of windows apart are finitely many, with the     *)
(* ticks of the sequence.                                                     *)
LEMMA ApartAsSet ==
    ASSUME NEW m, Apart(m), NEW S, S = {m[i] : i \in DOMAIN m}
    PROVE  /\ IsFiniteSet(S) /\ S \subseteq Window /\ UNION {TicksIn(w) : w \in S} = TicksAll(m)
           /\ \A t : Vendor!InWindow(t, m) <=> t \in TicksAll(m)
<1> DEFINE n == Len(m)
<1>1. n \in Nat /\ DOMAIN m = 1..n /\ \A i \in 1..n : m[i] \in Window
  BY DEF Apart
<1>2. IsFiniteSet(1..n)
  BY <1>1, FS_Interval
<1> DEFINE f == [i \in 1..n |-> m[i]]
<1>3. f \in Surjection(1..n, S)
  BY <1>1 DEF Surjection
<1>4. IsFiniteSet(S)
  <2> HIDE DEF f
  <2> QED BY <1>2, <1>3, FS_Surjection DEF ExistsSurjection
<1> HIDE DEF n
<1>5. UNION {TicksIn(w) : w \in S} = TicksAll(m)
  BY <1>1 DEF TicksAll, TicksTo, n
<1>6. \A t : Vendor!InWindow(t, m) <=> t \in TicksAll(m)
  BY <1>1 DEF Vendor!InWindow, Vendor!Ticks, Vendor!Begin, Vendor!End, TicksIn, TicksAll, TicksTo, n
<1> QED BY <1>1, <1>4, <1>5, <1>6

(* What a day excludes is made of windows, finitely many.                     *)
LEMMA ExclusionsAreWindows ==
    ASSUME Vendor!VendorDaysAssumption, VendorInv, NEW d \in FileDays
    PROVE  /\ Apart(Vendor!Excluded(d))
           /\ Shut(d) \subseteq TicksAll(Vendor!Excluded(d))
           /\ \A r \in rolls : (24 * r - Horizon)..(24 * r + Lookback - 1) \subseteq TicksAll(Vendor!Excluded(d))
           /\ \A w \in Vendor!LongSilences(d) : TicksIn(w) \subseteq TicksAll(Vendor!Excluded(d))
<1>0. /\ d \in Nat /\ Grace \in Nat /\ Horizon \in Nat /\ Lookback \in Nat
      /\ first \in 0..6 /\ behind \in 1..23 /\ IsFiniteSet(rolls) /\ rolls \subseteq Nat
      /\ parts[d] \in Seq(Int)
  BY DEF Vendor!VendorDaysAssumption, VendorInv
<1> DEFINE c == Vendor!Closed(d)
           C == Vendor!ToSet(c)
           N == {<<Vendor!Begin(w), Vendor!End(w) + Grace>> : w \in C}
           k == Vendor!NoMatch(d)
           K == Vendor!ToSet(k)
           R == {<<Vendor!DayBegin(r) - Horizon, Vendor!DayBegin(r) + Lookback>> : r \in rolls}
           u == Vendor!RollWindows
           U == Vendor!ToSet(u)
           L == Vendor!LongSilences(d)
           W == C \cup K \cup U \cup L
<1>1. Apart(c) /\ TicksAll(c) = Shut(d)
  BY <1>0, ClosedIsShut
<1>2. /\ k = Win!MergeWindows(N) /\ u = Win!MergeWindows(R)
      /\ Vendor!Excluded(d) = Win!MergeWindows(W)
  BY VendorWindows DEF Vendor!NoMatch, Vendor!RollWindows, Vendor!Excluded
<1> HIDE DEF c, k, u
<1>3. IsFiniteSet(C) /\ C \subseteq Window /\ UNION {TicksIn(w) : w \in C} = TicksAll(c)
  BY <1>1, VendorWindows, ApartAsSet
<1> HIDE DEF C
<1>4. Apart(k)
  <2> DEFINE f == [w \in C |-> <<w[1], w[2] + Grace>>]
  <2>1. N = {<<w[1], w[2] + Grace>> : w \in C}
    BY DEF Vendor!Begin, Vendor!End
  <2>2. f \in Surjection(C, N)
    BY <2>1 DEF Surjection
  <2>3. N \subseteq Window
    <3>1. \A w \in C : w[1] \in Int /\ w[2] \in Int
      BY <1>3 DEF Window
    <3>2. \A w \in C : w[2] + Grace \in Int
      BY <1>0, <3>1
    <3>3. \A w \in C : <<w[1], w[2] + Grace>> \in Window
      BY <3>1, <3>2 DEF Window
    <3> HIDE DEF N
    <3> QED BY <2>1, <3>3
  <2> HIDE DEF f, N
  <2>4. IsFiniteSet(N)
    BY <1>3, <2>2, FS_Surjection DEF ExistsSurjection
  <2> QED BY <1>2, <2>3, <2>4, MergedWindows
<1>5. IsFiniteSet(K) /\ K \subseteq Window
  BY <1>4, VendorWindows, ApartAsSet
<1>6. Apart(u) /\ TicksAll(u) = UNION {TicksIn(w) : w \in R}
  <2> DEFINE f == [r \in rolls |-> <<24 * r - Horizon, 24 * r + Lookback>>]
  <2>1. R = {<<24 * r - Horizon, 24 * r + Lookback>> : r \in rolls}
    BY DEF Vendor!DayBegin
  <2>2. f \in Surjection(rolls, R)
    BY <2>1 DEF Surjection
  <2>3. R \subseteq Window
    BY <1>0, <2>1 DEF Window
  <2> HIDE DEF f, R
  <2>4. IsFiniteSet(R)
    BY <1>0, <2>2, FS_Surjection DEF ExistsSurjection
  <2> QED BY <1>2, <2>3, <2>4, MergedWindows
<1>7. IsFiniteSet(U) /\ U \subseteq Window /\ UNION {TicksIn(w) : w \in U} = TicksAll(u)
  BY <1>6, VendorWindows, ApartAsSet
<1>8. IsFiniteSet(L) /\ L \subseteq Window
  <2> DEFINE p == parts[d]
             n == Len(p)
             S == Vendor!Silences(d)
             f == [i \in 1..(n - 1) |-> <<p[i], p[i + 1]>>]
  <2>1. n \in Nat /\ \A i \in 1..n : p[i] \in Int
    BY <1>0
  <2>2. \A i \in 1..(n - 1) : i \in 1..n /\ i + 1 \in 1..n
    BY <2>1
  <2>3. S = {<<p[i], p[i + 1]>> : i \in 1..(n - 1)}
    BY DEF Vendor!Silences
  <2> HIDE DEF S
  <2>4. f \in Surjection(1..(n - 1), S)
    BY <2>3 DEF Surjection
  <2>5. S \subseteq Window
    <3> HIDE DEF p, n
    <3> QED BY <2>1, <2>2, <2>3 DEF Window
  <2>6. IsFiniteSet(1..(n - 1))
    <3>1. n \in Nat
      BY <2>1
    <3> HIDE DEF n
    <3>2. n - 1 \in Int
      BY ONLY <3>1
    <3>3. PICK b \in Int : b = n - 1
      BY ONLY <3>2
    <3> QED BY <3>3, FS_Interval
  <2> HIDE DEF f, n
  <2>7. IsFiniteSet(S)
    BY <2>4, <2>6, FS_Surjection DEF ExistsSurjection
  <2>8. L \in SUBSET S
    BY DEF Vendor!LongSilences, S
  <2> QED BY <2>5, <2>7, <2>8, FS_Subset
<1> HIDE DEF K, U, L
<1>9. IsFiniteSet(W) /\ W \subseteq Window
  <2>1. IsFiniteSet(C \cup K)
    BY <1>3, <1>5, FS_Union
  <2>2. IsFiniteSet((C \cup K) \cup U)
    BY <1>7, <2>1, FS_Union
  <2>3. IsFiniteSet(((C \cup K) \cup U) \cup L)
    BY <1>8, <2>2, FS_Union
  <2> QED BY <1>3, <1>5, <1>7, <1>8, <2>3
<1>10. C \subseteq W /\ U \subseteq W /\ L \subseteq W
  OBVIOUS
<1> HIDE DEF W
<1>11. Apart(Vendor!Excluded(d)) /\ TicksAll(Vendor!Excluded(d)) = UNION {TicksIn(w) : w \in W}
  BY <1>2, <1>9, MergedWindows
<1>12. Shut(d) \subseteq TicksAll(Vendor!Excluded(d))
  BY <1>1, <1>3, <1>10, <1>11
<1>13. ASSUME NEW r \in rolls
       PROVE  (24 * r - Horizon)..(24 * r + Lookback - 1) \subseteq TicksAll(Vendor!Excluded(d))
  <2>1. <<24 * r - Horizon, 24 * r + Lookback>> \in R
    BY DEF Vendor!DayBegin
  <2>2. TicksIn(<<24 * r - Horizon, 24 * r + Lookback>>) \subseteq TicksAll(u)
    BY <1>6, <2>1
  <2>3. TicksIn(<<24 * r - Horizon, 24 * r + Lookback>>) = (24 * r - Horizon)..(24 * r + Lookback - 1)
    <3>1. r \in Nat /\ Horizon \in Nat /\ Lookback \in Nat
      BY <1>0
    <3> QED BY ONLY <3>1 DEF TicksIn
  <2> HIDE DEF R
  <2> QED BY <1>7, <1>10, <1>11, <2>2, <2>3
<1>14. \A w \in L : TicksIn(w) \subseteq TicksAll(Vendor!Excluded(d))
  BY <1>10, <1>11
<1> QED BY <1>11, <1>12, <1>13, <1>14 DEF L

(* What the days promise: coverage is fresh open time, what is not excluded   *)
(* is safe and each partition holds its own records.                          *)
LEMMA VendorPromise ==
    ASSUME Vendor!VendorDaysAssumption, VendorInv
    PROVE  Vendor!CoverageIsFreshTime /\ Vendor!UnexcludedIsSafe /\ Vendor!PartitionsExact
<1>0. \A d \in FileDays : d \in Nat /\ DayGood(report[d], prev[d], DayPart(recv, d), d)
  BY DEF Vendor!VendorDaysAssumption, VendorInv
<1>1. \A d : Vendor!RecordsOf(d) = DayPart(recv, d)
  BY VendorWindows DEF Vendor!RecordsOf, DayPart
<1>2. \A d \in Nat : Vendor!DayBegin(d) = 24 * d /\ Vendor!DayEnd(d) - 1 = 24 * d + 23
  BY DEF Vendor!DayBegin, Vendor!DayEnd
<1>3. Vendor!CoverageIsFreshTime
  <2> SUFFICES ASSUME NEW d \in FileDays, report[d].disorder = 0
               PROVE  report[d].covered = Vendor!Cardinality(
                         {t \in Vendor!DayBegin(d)..(Vendor!DayEnd(d) - 1) :
                            /\ ~Vendor!OnHoliday(t)
                            /\ \E i \in 1..(Len(DayPart(recv, d)) - 1) :
                                 /\ DayPart(recv, d)[i] <= t /\ t < DayPart(recv, d)[i + 1]
                                 /\ DayPart(recv, d)[i + 1] - DayPart(recv, d)[i] <= Quiet})
    BY <1>1 DEF Vendor!CoverageIsFreshTime
  <2>1. report[d].covered = Cardinality(FreshTime(DayPart(recv, d), d))
    BY <1>0 DEF DayGood
  <2> QED BY <1>0, <1>2, <2>1, VendorWindows DEF FreshTime
<1>4. Vendor!PartitionsExact
  BY <1>1 DEF VendorInv, Vendor!PartitionsExact
<1>5. Vendor!UnexcludedIsSafe
  <2> SUFFICES ASSUME ~failed, NEW d \in FileDays,
                      NEW t \in Vendor!Ticks(<<Vendor!DayBegin(d), Vendor!DayEnd(d)>>),
                      ~Vendor!InWindow(t, Vendor!Excluded(d))
               PROVE  /\ ~Vendor!OnHoliday(t) /\ t \notin Vendor!TicksOf(report[d].quiet)
                      /\ \A r \in rolls : ~(t - Lookback < Vendor!DayBegin(r) /\ Vendor!DayBegin(r) <= t + Horizon)
    BY DEF Vendor!UnexcludedIsSafe
  <2>1. t \in (24 * d)..(24 * d + 23) /\ t \in Int
    BY <1>0, <1>2 DEF Vendor!Ticks, Vendor!Begin, Vendor!End
  <2>2. /\ Apart(Vendor!Excluded(d))
        /\ Shut(d) \subseteq TicksAll(Vendor!Excluded(d))
        /\ \A r \in rolls : (24 * r - Horizon)..(24 * r + Lookback - 1) \subseteq TicksAll(Vendor!Excluded(d))
        /\ \A w \in Vendor!LongSilences(d) : TicksIn(w) \subseteq TicksAll(Vendor!Excluded(d))
    BY ExclusionsAreWindows
  <2>3. t \notin TicksAll(Vendor!Excluded(d))
    BY <2>2, ApartAsSet
  <2>4. ~Vendor!OnHoliday(t)
    BY <2>1, <2>2, <2>3 DEF Shut
  <2>5. t \notin Vendor!TicksOf(report[d].quiet)
    <3> SUFFICES ASSUME NEW w \in report[d].quiet, t \in Vendor!Ticks(w) PROVE FALSE
      BY DEF Vendor!TicksOf
    <3> DEFINE p == DayPart(recv, d)
    <3>1. PICK i \in 1..(Len(p) - 1) : w = <<p[i], p[i + 1]>> /\ p[i + 1] - p[i] > Quiet
      BY <1>0 DEF DayGood
    <3>2. parts[d] = p
      BY DEF VendorInv
    <3> HIDE DEF p
    <3>3. w \in Vendor!LongSilences(d)
      BY <3>1, <3>2 DEF Vendor!LongSilences, Vendor!Silences, Vendor!Length, Vendor!Begin, Vendor!End
    <3>4. t \in TicksIn(w)
      BY DEF Vendor!Ticks, Vendor!Begin, Vendor!End, TicksIn
    <3> QED BY <2>2, <2>3, <3>3, <3>4
  <2>6. ASSUME NEW r \in rolls, t - Lookback < Vendor!DayBegin(r), Vendor!DayBegin(r) <= t + Horizon
        PROVE  FALSE
    <3>1. r \in Nat /\ Lookback \in Nat /\ Horizon \in Nat
      BY DEF VendorInv, Vendor!VendorDaysAssumption
    <3>2. t - Lookback < 24 * r /\ 24 * r <= t + Horizon
      BY <2>6 DEF Vendor!DayBegin
    <3>3. t \in (24 * r - Horizon)..(24 * r + Lookback - 1)
      BY <2>1, <3>1, <3>2
    <3> QED BY <2>2, <2>3, <3>3
  <2> QED BY <2>4, <2>5, <2>6
<1> QED BY <1>3, <1>4, <1>5

(* A step of another part leaves the days as they are.                        *)
LEMMA DaysUnchanged == ASSUME VendorInv, UNCHANGED vendorVars PROVE VendorInv'
<1>1. /\ first' = first /\ behind' = behind /\ rolls' = rolls /\ recv' = recv
      /\ report' = report /\ prev' = prev /\ parts' = parts /\ failed' = failed
  BY DEF vendorVars
<1>2. \A s, e : FreshTime(s, e)' = FreshTime(s, e)
  BY <1>1 DEF FreshTime, Vendor!OnHoliday, Vendor!Weekday
<1>3. \A r, p, s, e : DayGood(r, p, s, e) => DayGood(r, p, s, e)'
  BY <1>2 DEF DayGood
<1>4. ASSUME NEW e \in FileDays
      PROVE  /\ DayGood(report[e], prev[e], DayPart(recv, e), e)'
             /\ ~failed' => parts'[e] = DayPart(recv, e)'
  <2>1. PICK r : r = report[e]
    OBVIOUS
  <2>2. PICK p : p = prev[e]
    OBVIOUS
  <2>3. PICK s : s = DayPart(recv, e)
    OBVIOUS
  <2>4. DayGood(r, p, s, e)'
    BY <1>3, <2>1, <2>2, <2>3 DEF VendorInv
  <2>5. DayPart(recv, e)' = s
    BY <1>1, <2>3 DEF DayPart
  <2>6. report'[e] = r /\ prev'[e] = p
    BY <1>1, <2>1, <2>2
  <2>7. ~failed' => parts'[e] = s
    BY <1>1, <2>3 DEF VendorInv
  <2> QED BY <2>4, <2>5, <2>6, <2>7 DEF DayGood
<1> QED BY <1>1, <1>4 DEF VendorInv

(* On every day of a vendor file the coverage is the open time between records *)
(* close together, what no window excludes is safe to label, and each          *)
(* partition holds its day's records (session.py, ingest.py, validate.py).     *)
THEOREM VendorDaysAreExact == Spec => []VendorDaysExact
<1>1. Init => VendorInv
  BY PartsAssumption, VendorBegins DEF Init
<1>2. VendorInv /\ [Next]_vars => VendorInv'
  <2> SUFFICES ASSUME VendorInv, [Next]_vars PROVE VendorInv'
    OBVIOUS
  <2>1. Vendor!Record \/ UNCHANGED vendorVars
    BY DEF Next, vars, Vendor!Next, vendorVars, Vendor!vvars
  <2>2. CASE Vendor!Record
    BY <2>2, PartsAssumption, RecordKeepsDays
  <2>3. CASE UNCHANGED vendorVars
    BY <2>3, DaysUnchanged
  <2> QED BY <2>1, <2>2, <2>3
<1>3. VendorInv => VendorDaysExact
  BY PartsAssumption, VendorPromise DEF VendorDaysExact
<1> QED BY <1>1, <1>2, <1>3, PTL DEF Spec
=============================================================================
