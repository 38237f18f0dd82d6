-------------------------- MODULE Operations_proof --------------------------
(***************************************************************************)
(* What MCOperations checks of the parts beside the capture loop, proved   *)
(* for every value of its constants: the order of the service's shutdown,  *)
(* the shell's hold on what it started, the day files of the telemetry     *)
(* store, the truth of what `make status` and the log view show.  Each     *)
(* part has an inductive invariant; a step of the composition is a step of *)
(* the part or leaves it alone.                                            *)
(***************************************************************************)
EXTENDS MCOperations, DataLemmas
-----------------------------------------------------------------------------
(* Why an end marker can be trusted.  It is written in the last loop only, *)
(* and that loop is entered once the loop before it has visited every      *)
(* writer; until then an open writer is one that is still to be visited.   *)
ServiceInv ==
    /\ todo \in Seq(Service!Venues) /\ late \subseteq Service!Venues
    /\ writer \in [Service!Venues -> {"none", "open", "closed"}]
    /\ marks \in [Service!Venues -> SUBSET {"start", "end"}]
    /\ (\E v \in Service!Venues : "end" \in marks[v]) => main \in {"marking"} \cup Service!Gone
    /\ main = "closing" => \A v \in Service!Venues : writer[v] = "open" => v \in ToSet(todo)
    /\ main = "marking" => \A v \in Service!Venues : writer[v] # "open"
    /\ Service!EndMarkerMeansClosed
    /\ dryRun /\ main \in {"starting", "marking"} => todo = <<>>
    /\ Service!DryRunLeavesNoTrace

(* The service starts with nothing on disk.                                *)
LEMMA ServiceStartsClean == ASSUME Service!ServiceAssumption, Service!Init PROVE ServiceInv
<1>1. todo \in Seq(Service!Venues)
  BY DEF Service!Init, Service!ServiceAssumption
<1> QED
  BY <1>1 DEF Service!Init, ServiceInv, Service!EndMarkerMeansClosed, Service!DryRunLeavesNoTrace

(* The steps of run_service before its last loop.                          *)
LEMMA StartingKeepsInv ==
    ASSUME ServiceInv, Service!LogStart \/ Service!StartTasks \/ Service!GatherEnds \/ Service!HeartbeatRaises
    PROVE  ServiceInv'
<1> USE DEF Service!Gone
<1>1. CASE Service!LogStart
  <2>1. Head(todo) \in Service!Venues /\ todo' \in Seq(Service!Venues)
    BY <1>1, HeadOrTail DEF Service!LogStart, Service!LogMark, ServiceInv
  <2>2. ~dryRun
    BY <1>1 DEF Service!LogStart, Service!LogMark, ServiceInv
  <2>3. \A v \in Service!Venues : "end" \in marks'[v] <=> "end" \in marks[v]
    BY <1>1, <2>1 DEF Service!LogStart, Service!LogMark, ServiceInv
  <2>4. marks' \in [Service!Venues -> SUBSET {"start", "end"}]
    BY <1>1, <2>1 DEF Service!LogStart, Service!LogMark, ServiceInv
  <2> QED
    BY <1>1, <2>1, <2>2, <2>3, <2>4
       DEF Service!LogStart, ServiceInv, Service!EndMarkerMeansClosed, Service!DryRunLeavesNoTrace
<1>2. CASE Service!StartTasks \/ Service!GatherEnds \/ Service!HeartbeatRaises
  BY <1>2 DEF Service!StartTasks, Service!GatherEnds, Service!HeartbeatRaises, ServiceInv, Service!EndMarkerMeansClosed,
              Service!DryRunLeavesNoTrace
<1> QED
  BY <1>1, <1>2

(* The loop that closes the writers.                                       *)
LEMMA ShutdownKeepsInv ==
    ASSUME Service!ServiceAssumption, ServiceInv, Service!HeartbeatAwaited \/ Service!CloseWriter \/ Service!WritersClosed
    PROVE  ServiceInv'
<1> USE DEF Service!Gone
<1>1. CASE Service!HeartbeatAwaited
  <2>1. todo' \in Seq(Service!Venues) /\ ToSet(todo') = Service!Venues
    BY <1>1 DEF Service!HeartbeatAwaited, Service!ServiceAssumption, Service!Venues, Service!ToSet, ToSet
  <2> QED
    BY <1>1, <2>1 DEF Service!HeartbeatAwaited, ServiceInv, Service!EndMarkerMeansClosed, Service!DryRunLeavesNoTrace
<1>2. CASE Service!CloseWriter
  <2>1. /\ Head(todo) \in Service!Venues /\ todo' \in Seq(Service!Venues)
        /\ ToSet(todo) = {Head(todo)} \cup ToSet(todo')
    BY <1>2, HeadOrTail DEF Service!CloseWriter, ServiceInv
  <2>2. /\ writer' \in [Service!Venues -> {"none", "open", "closed"}] /\ writer'[Head(todo)] # "open"
        /\ \A v \in Service!Venues : v # Head(todo) => writer'[v] = writer[v]
        /\ writer[Head(todo)] = "none" => writer' = writer
    BY <1>2, <2>1 DEF Service!CloseWriter, ServiceInv
  <2>3. \A v \in Service!Venues : writer'[v] = "open" => v \in ToSet(todo')
    BY <1>2, <2>1, <2>2 DEF Service!CloseWriter, ServiceInv
  <2>4. Service!DryRunLeavesNoTrace'
    BY <1>2, <2>1, <2>2 DEF Service!CloseWriter, ServiceInv, Service!DryRunLeavesNoTrace
  <2> QED
    BY <1>2, <2>1, <2>2, <2>3, <2>4 DEF Service!CloseWriter, ServiceInv, Service!EndMarkerMeansClosed
<1>3. CASE Service!WritersClosed
  <2>1. ToSet(todo) = {}
    BY <1>3 DEF Service!WritersClosed, ToSet
  <2>2. todo' \in Seq(Service!Venues) /\ (dryRun => todo' = <<>>)
    BY <1>3 DEF Service!WritersClosed, Service!ServiceAssumption
  <2> QED
    BY <1>3, <2>1, <2>2 DEF Service!WritersClosed, ServiceInv, Service!EndMarkerMeansClosed, Service!DryRunLeavesNoTrace
<1> QED
  BY <1>1, <1>2, <1>3

(* The loop that writes the end markers, and the ways the service ends.    *)
LEMMA EndingKeepsInv ==
    ASSUME ServiceInv, Service!LogEnd \/ Service!Exit \/ Service!FileFails \/ Service!Kill
    PROVE  ServiceInv'
<1> USE DEF Service!Gone
<1>1. CASE Service!LogEnd
  <2>1. Head(todo) \in Service!Venues /\ todo' \in Seq(Service!Venues)
    BY <1>1, HeadOrTail DEF Service!LogEnd, Service!LogMark, ServiceInv
  <2>2. ~dryRun
    BY <1>1 DEF Service!LogEnd, Service!LogMark, ServiceInv
  <2>3. marks' \in [Service!Venues -> SUBSET {"start", "end"}]
    BY <1>1, <2>1 DEF Service!LogEnd, Service!LogMark, ServiceInv
  <2> QED
    BY <1>1, <2>1, <2>2, <2>3 DEF Service!LogEnd, ServiceInv, Service!EndMarkerMeansClosed, Service!DryRunLeavesNoTrace
<1>2. CASE Service!Exit \/ Service!FileFails \/ Service!Kill
  BY <1>2 DEF Service!Exit, Service!FileFails, Service!Kill, ServiceInv, Service!EndMarkerMeansClosed, Service!DryRunLeavesNoTrace
<1> QED
  BY <1>1, <1>2

(* The other tasks: a frame is stored before the shutdown, or late.        *)
LEMMA TasksKeepInv ==
    ASSUME ServiceInv, NEW v \in Service!Venues,
           Service!StoreFrame(v) \/ Service!PrintFrame(v) \/ Service!Return(v) \/ Service!Raise(v) \/ Service!LateFrame(v) \/ Service!CancelTask(v)
    PROVE  ServiceInv'
<1> USE DEF Service!Gone, Service!Suspended
<1>1. CASE Service!StoreFrame(v)
  BY <1>1 DEF Service!StoreFrame, ServiceInv, Service!EndMarkerMeansClosed, Service!DryRunLeavesNoTrace
<1>2. CASE Service!LateFrame(v)
  BY <1>2 DEF Service!LateFrame, ServiceInv, Service!EndMarkerMeansClosed, Service!DryRunLeavesNoTrace
<1>3. CASE Service!PrintFrame(v) \/ Service!Return(v) \/ Service!Raise(v) \/ Service!CancelTask(v)
  BY <1>3 DEF Service!PrintFrame, Service!Return, Service!Raise, Service!CancelTask, ServiceInv, Service!EndMarkerMeansClosed,
              Service!DryRunLeavesNoTrace
<1> QED
  BY <1>1, <1>2, <1>3

(* A step of the process keeps the invariant.                              *)
LEMMA ServiceStepKeepsInv == ASSUME Service!ServiceAssumption, ServiceInv, [Service!Next]_(Service!vars) PROVE ServiceInv'
<1>1. CASE Service!HeartbeatEnds \/ Service!ProbeFails \/ Service!Signal \/ UNCHANGED Service!vars
  BY <1>1 DEF Service!HeartbeatEnds, Service!ProbeFails, Service!Signal, Service!vars, ServiceInv, Service!EndMarkerMeansClosed,
              Service!DryRunLeavesNoTrace
<1> QED
  BY <1>1, StartingKeepsInv, ShutdownKeepsInv, EndingKeepsInv, TasksKeepInv DEF Service!Next, Service!Main

(* A step of the composition is a step of the service or leaves it alone.  *)
LEMMA ServiceSteps == [Next]_vars => [Service!Next]_(Service!vars)
BY DEF Next, vars, serviceVars, Service!vars

(* The invariant of the shutdown order holds always, for every list of     *)
(* venues and every set of faults.                                         *)
THEOREM ShutdownKeepsOrder == Spec => []ServiceInv
<1>1. Init => ServiceInv
  BY ServiceStartsClean, PartsAssumption DEF Init
<1>2. ServiceInv /\ [Next]_vars => ServiceInv'
  BY ServiceStepKeepsInv, ServiceSteps, PartsAssumption
<1> QED
  BY <1>1, <1>2, PTL DEF Spec

(* Once any venue has an end marker, every venue's frames are finished.    *)
THEOREM EndMarkersAreTrue == Spec => []EndMarkerMeansClosed
<1>1. ServiceInv => EndMarkerMeansClosed
  BY DEF ServiceInv, EndMarkerMeansClosed
<1> QED
  BY <1>1, ShutdownKeepsOrder, PTL

(* A dry run writes no marker and opens no file.                           *)
THEOREM DryRunsAreClean == Spec => []Service!DryRunLeavesNoTrace
<1>1. ServiceInv => Service!DryRunLeavesNoTrace
  BY DEF ServiceInv
<1> QED
  BY <1>1, ShutdownKeepsOrder, PTL
-----------------------------------------------------------------------------
(* Why no writing service is forgotten: a wrapper that is up is procs' or  *)
(* the one stop() waits for, and only a kill parts a wrapper from a        *)
(* service that still writes.                                              *)
Owned(c) == procs[kindOf[c]] = c \/ stopping = c
OwnerInv ==
    /\ kindOf \in Seq(Kinds)
    /\ wrapper \in [Desktop!Children -> {"up", "gone"}]
    /\ service \in [Desktop!Children -> {"none", "up", "ending", "gone"}]
    /\ procs \in [Kinds -> {Desktop!NoChild} \cup Desktop!Children] /\ stopping \in {Desktop!NoChild} \cup Desktop!Children
    /\ \A k \in Kinds : procs[k] # Desktop!NoChild => kindOf[procs[k]] = k
    /\ \A c \in Desktop!Children : wrapper[c] = "up" => window # "gone" /\ Owned(c)
    /\ \A c \in Desktop!Children : wrapper[c] = "gone" /\ c \notin killed => ~Desktop!Writing(c)
    /\ window \in {"open", "closing", "gone"} /\ toStop \subseteq Kinds
    /\ window # "open" => \A k \in Kinds \ toStop : procs[k] = Desktop!NoChild

(* Children are numbered from one; NoChild is none of them.                *)
LEMMA ChildrenAreNumbered ==
    ASSUME kindOf \in Seq(Kinds) PROVE Desktop!Children = 1..Len(kindOf) /\ Len(kindOf) \in Nat
BY DEF Desktop!Children

(* A step that moves nothing but buttons.                                  *)
LEMMA ButtonsKeepInv ==
    ASSUME OwnerInv, UNCHANGED <<window, Desktop!manager, Desktop!os>> PROVE OwnerInv'
BY DEF OwnerInv, Owned, Desktop!Writing, Desktop!Children, Desktop!manager, Desktop!os

(* Reaping forgets only wrappers that are gone.                            *)
LEMMA ReapingKeepsInv ==
    ASSUME OwnerInv, procs' \in {procs, Desktop!Reaped}, UNCHANGED <<window, stopping, toStop, Desktop!os>>
    PROVE  OwnerInv'
<1>1. UNCHANGED <<kindOf, wrapper, service, killed, window, stopping, toStop>> /\ Desktop!Children' = Desktop!Children
  BY DEF Desktop!os, Desktop!Children
<1>2. \A k \in Kinds : \/ procs'[k] = procs[k]
                       \/ procs'[k] = Desktop!NoChild /\ procs[k] \in Desktop!Children /\ wrapper[procs[k]] = "gone"
  BY DEF Desktop!Reaped, OwnerInv
<1>3. procs' \in [Kinds -> {Desktop!NoChild} \cup Desktop!Children]
  BY <1>2 DEF Desktop!Reaped, OwnerInv
<1>4. \A c \in Desktop!Children : kindOf[c] \in Kinds
  BY DEF OwnerInv, Desktop!Children
<1>5. \A c \in Desktop!Children : wrapper[c] = "up" /\ Owned(c) => Owned(c)'
  BY <1>1, <1>2, <1>4 DEF Owned
<1>6. \A k \in Kinds : procs'[k] # Desktop!NoChild => procs'[k] = procs[k]
  BY <1>2
<1>7. \A c \in Desktop!Children : Desktop!Writing(c)' <=> Desktop!Writing(c)
  BY <1>1 DEF Desktop!Writing
<1> QED
  BY <1>1, <1>2, <1>3, <1>5, <1>6, <1>7 DEF OwnerInv

(* A new child takes the place of none that is up.                         *)
LEMMA SpawnKeepsInv == ASSUME OwnerInv, NEW k \in Kinds, Desktop!Start(k) PROVE OwnerInv'
<1> DEFINE n == Len(kindOf) + 1
<1>1. /\ kindOf' = Append(kindOf, k) /\ wrapper' = Append(wrapper, "up")
      /\ service' = Append(service, "none") /\ procs' = [Desktop!Reaped EXCEPT ![k] = n]
      /\ Desktop!Reaped[k] = Desktop!NoChild /\ window = "open" /\ stopping = Desktop!NoChild
      /\ UNCHANGED <<window, stopping, toStop, killed>>
  BY DEF Desktop!Start, Desktop!Idle
<1>2. /\ Desktop!Children = 1..Len(kindOf) /\ Len(kindOf) \in Nat
      /\ kindOf' \in Seq(Kinds) /\ Len(kindOf') = n /\ Desktop!Children' = 1..n
      /\ n \notin Desktop!Children /\ Desktop!Children' = Desktop!Children \cup {n} /\ Desktop!NoChild \notin Desktop!Children'
  BY <1>1, ChildrenAreNumbered DEF OwnerInv, Desktop!Children, Desktop!NoChild
<1>3. n = Len(kindOf) + 1 /\ Len(kindOf) \in Nat
  BY <1>2
<1>4. /\ wrapper \in [1..Len(kindOf) -> {"up", "gone"}]
      /\ service \in [1..Len(kindOf) -> {"none", "up", "ending", "gone"}]
  BY <1>2 DEF OwnerInv
<1>5. /\ wrapper' \in [Desktop!Children' -> {"up", "gone"}] /\ wrapper'[n] = "up"
      /\ \A c \in Desktop!Children : wrapper'[c] = wrapper[c]
  <2>1. Append(wrapper, "up") \in [1..Len(kindOf) + 1 -> {"up", "gone"}]
    BY <1>3, <1>4, Appending
  <2>2. /\ Append(wrapper, "up")[Len(kindOf) + 1] = "up"
        /\ \A c \in 1..Len(kindOf) : Append(wrapper, "up")[c] = wrapper[c]
    BY <1>3, <1>4, Appending
  <2> QED
    BY <2>1, <2>2, <1>1, <1>2, <1>3
<1>6. /\ service' \in [Desktop!Children' -> {"none", "up", "ending", "gone"}]
      /\ \A c \in Desktop!Children : service'[c] = service[c]
  <2>1. "none" \in {"none", "up", "ending", "gone"}
    OBVIOUS
  <2>2. Append(service, "none") \in [1..Len(kindOf) + 1 -> {"none", "up", "ending", "gone"}]
    BY <2>1, <1>3, <1>4, Appending
  <2>3. \A c \in 1..Len(kindOf) : Append(service, "none")[c] = service[c]
    BY <2>1, <1>3, <1>4, Appending
  <2> QED
    BY <2>2, <2>3, <1>1, <1>2, <1>3
<1>7. kindOf'[n] = k /\ \A c \in Desktop!Children : kindOf'[c] = kindOf[c] /\ kindOf[c] \in Kinds
  BY <1>1, <1>2 DEF OwnerInv
<1>8. /\ Desktop!Reaped \in [Kinds -> {Desktop!NoChild} \cup Desktop!Children]
      /\ \A j \in Kinds : \/ Desktop!Reaped[j] = procs[j]
                          \/ Desktop!Reaped[j] = Desktop!NoChild /\ procs[j] \in Desktop!Children /\ wrapper[procs[j]] = "gone"
  BY DEF Desktop!Reaped, OwnerInv
<1>9. /\ procs' \in [Kinds -> {Desktop!NoChild} \cup Desktop!Children'] /\ procs'[k] = n
      /\ \A j \in Kinds \ {k} : procs'[j] = Desktop!Reaped[j]
  BY <1>1, <1>2, <1>8
<1>10. \A j \in Kinds : procs'[j] # Desktop!NoChild => kindOf'[procs'[j]] = j
  BY <1>7, <1>8, <1>9 DEF OwnerInv
<1>11. ASSUME NEW c \in Desktop!Children', wrapper'[c] = "up" PROVE Owned(c)'
  <2>1. CASE c = n
    BY <2>1, <1>7, <1>9 DEF Owned
  <2>2. CASE c \in Desktop!Children
    <3>1. wrapper[c] = "up" /\ procs[kindOf[c]] = c
      BY <2>2, <1>1, <1>2, <1>5, <1>11 DEF OwnerInv, Owned
    <3>2. Desktop!Reaped[kindOf[c]] = c
      BY <3>1, <2>2, <1>7, <1>8
    <3>3. kindOf[c] # k
      BY <3>2, <2>2, <1>1, <1>2
    <3> QED
      BY <3>2, <3>3, <2>2, <1>7, <1>9 DEF Owned
  <2> QED
    BY <2>1, <2>2, <1>2
<1>12. \A c \in Desktop!Children' : wrapper'[c] = "gone" /\ c \notin killed' => ~Desktop!Writing(c)'
  BY <1>1, <1>2, <1>5, <1>6 DEF OwnerInv, Desktop!Writing
<1> QED
  BY <1>1, <1>2, <1>5, <1>6, <1>9, <1>10, <1>11, <1>12 DEF OwnerInv

(* A stop hands the child over to the wait.                                *)
LEMMA StopKeepsInv ==
    ASSUME OwnerInv, NEW k \in Kinds, stopping = Desktop!NoChild, window # "gone",
           procs' = [procs EXCEPT ![k] = Desktop!NoChild], stopping' = procs[k],
           IF procs[k] = Desktop!NoChild THEN UNCHANGED <<wrapper, service>> ELSE Desktop!Terminate(procs[k]),
           UNCHANGED <<window, kindOf, killed>>, toStop' \in {toStop, toStop \ {k}}
    PROVE  OwnerInv'
<1>1. Desktop!Children' = Desktop!Children /\ \A c \in Desktop!Children : kindOf[c] \in Kinds /\ c # Desktop!NoChild
  BY ChildrenAreNumbered DEF OwnerInv, Desktop!Children, Desktop!NoChild
<1>2. /\ procs' \in [Kinds -> {Desktop!NoChild} \cup Desktop!Children] /\ stopping' \in {Desktop!NoChild} \cup Desktop!Children
      /\ procs'[k] = Desktop!NoChild /\ \A j \in Kinds \ {k} : procs'[j] = procs[j]
  BY DEF OwnerInv
<1>3. /\ wrapper' \in [Desktop!Children -> {"up", "gone"}]
      /\ service' \in [Desktop!Children -> {"none", "up", "ending", "gone"}]
      /\ \A c \in Desktop!Children : wrapper'[c] = "up" => wrapper[c] = "up"
      /\ \A c \in Desktop!Children : wrapper'[c] = "gone" /\ c \notin killed' => ~Desktop!Writing(c)'
  <2>1. CASE procs[k] = Desktop!NoChild
    BY <2>1 DEF OwnerInv, Desktop!Writing
  <2>2. CASE procs[k] # Desktop!NoChild
    <3>1. procs[k] \in Desktop!Children /\ Desktop!Terminate(procs[k])
      BY <2>2 DEF OwnerInv
    <3>2. CASE service[procs[k]] = "none"
      BY <3>1, <3>2 DEF Desktop!Terminate, OwnerInv, Desktop!Writing
    <3>3. CASE service[procs[k]] = "up" /\ wrapper[procs[k]] = "up"
      BY <3>1, <3>3 DEF Desktop!Terminate, OwnerInv, Desktop!Writing
    <3>4. CASE /\ service[procs[k]] # "none"
               /\ service[procs[k]] # "up" \/ wrapper[procs[k]] # "up"
      BY <3>1, <3>4 DEF Desktop!Terminate, OwnerInv, Desktop!Writing
    <3> QED
      BY <3>2, <3>3, <3>4
  <2> QED
    BY <2>1, <2>2
<1>4. \A c \in Desktop!Children : wrapper'[c] = "up" => Owned(c)'
  BY <1>1, <1>2, <1>3 DEF OwnerInv, Owned
<1>5. window' # "open" => \A j \in Kinds \ toStop' : procs'[j] = Desktop!NoChild
  BY <1>2 DEF OwnerInv
<1> QED
  BY <1>1, <1>2, <1>3, <1>4, <1>5 DEF OwnerInv

(* When stop() returns, the wrapper it waited for is gone.                 *)
LEMMA ReturnKeepsInv == ASSUME OwnerInv, Desktop!ChildExited \/ Desktop!GraceExpires PROVE OwnerInv'
<1>1. /\ stopping \in Desktop!Children /\ stopping' = Desktop!NoChild /\ wrapper'[stopping] = "gone"
      /\ UNCHANGED <<window, procs, toStop, kindOf, service>>
      /\ wrapper' \in [Desktop!Children -> {"up", "gone"}] /\ killed \subseteq killed'
      /\ \A c \in Desktop!Children \ {stopping} : wrapper'[c] = wrapper[c]
      /\ wrapper[stopping] = "up" => stopping \in killed'
  BY DEF Desktop!ChildExited, Desktop!GraceExpires, Desktop!StopReturns, OwnerInv
<1>2. Desktop!Children' = Desktop!Children
  BY <1>1 DEF Desktop!Children
<1>3. \A c \in Desktop!Children : wrapper'[c] = "up" => window' # "gone" /\ Owned(c)'
  BY <1>1 DEF OwnerInv, Owned
<1>4. \A c \in Desktop!Children : wrapper'[c] = "gone" /\ c \notin killed' => ~Desktop!Writing(c)'
  BY <1>1 DEF OwnerInv, Desktop!Writing
<1> QED
  BY <1>1, <1>2, <1>3, <1>4 DEF OwnerInv

(* The window closes; nothing is up when it goes.                          *)
LEMMA ClosingKeepsInv == ASSUME OwnerInv, Desktop!CloseWindow \/ Desktop!Exit PROVE OwnerInv'
<1>1. UNCHANGED <<procs, stopping, kindOf, wrapper, service, killed>> /\ Desktop!Children' = Desktop!Children
  BY DEF Desktop!CloseWindow, Desktop!Exit, Desktop!manager, Desktop!os, Desktop!Children
<1>2. \A c \in Desktop!Children : (Owned(c)' <=> Owned(c)) /\ (Desktop!Writing(c)' <=> Desktop!Writing(c))
  BY <1>1 DEF Owned, Desktop!Writing
<1>3. CASE Desktop!CloseWindow
  BY <1>1, <1>2, <1>3 DEF Desktop!CloseWindow, OwnerInv
<1>4. CASE Desktop!Exit
  <2>1. \A c \in Desktop!Children : kindOf[c] \in Kinds /\ c # Desktop!NoChild
    BY ChildrenAreNumbered DEF OwnerInv, Desktop!Children, Desktop!NoChild
  <2>2. \A c \in Desktop!Children : ~Owned(c)
    BY <1>4, <2>1 DEF Desktop!Exit, Desktop!Idle, OwnerInv, Owned
  <2> QED
    BY <1>1, <1>2, <1>4, <2>2 DEF Desktop!Exit, Desktop!manager, OwnerInv
<1> QED
  BY <1>3, <1>4

(* What the processes do themselves.                                       *)
LEMMA ProcessesKeepInv ==
    ASSUME OwnerInv, NEW c \in Desktop!Children,
           Desktop!ServiceStarts(c) \/ Desktop!ServiceEnds(c) \/ Desktop!ServiceCrashes(c) \/ Desktop!WrapperEnds(c)
    PROVE  OwnerInv'
<1>1. UNCHANGED <<window, procs, stopping, toStop, kindOf, killed>> /\ Desktop!Children' = Desktop!Children
  BY DEF Desktop!ServiceStarts, Desktop!ServiceEnds, Desktop!ServiceCrashes, Desktop!WrapperEnds, Desktop!manager, Desktop!Children
<1>2. CASE Desktop!ServiceStarts(c) \/ Desktop!ServiceEnds(c) \/ Desktop!ServiceCrashes(c)
  BY <1>1, <1>2 DEF Desktop!ServiceStarts, Desktop!ServiceEnds, Desktop!ServiceCrashes, OwnerInv, Owned, Desktop!Writing
<1>3. CASE Desktop!WrapperEnds(c)
  BY <1>1, <1>3 DEF Desktop!WrapperEnds, OwnerInv, Owned, Desktop!Writing
<1> QED
  BY <1>2, <1>3

(* Every step leaves each service that writes with an owner.               *)
LEMMA ShellStepKeepsInv == ASSUME OwnerInv, [Desktop!Next]_(Desktop!vars) PROVE OwnerInv'
<1>1. CASE Desktop!Poll
  BY <1>1, ReapingKeepsInv DEF Desktop!Poll
<1>2. ASSUME NEW k \in Kinds, Desktop!Click(k) \/ Desktop!StopNone(k)
      PROVE  OwnerInv'
  BY <1>2, ButtonsKeepInv DEF Desktop!Click, Desktop!StopNone
<1>3. ASSUME NEW k \in Kinds, Desktop!StartRefused(k)
      PROVE  OwnerInv'
  BY <1>3, ReapingKeepsInv DEF Desktop!StartRefused
<1>4. ASSUME NEW k \in Kinds, Desktop!Stop(k)
      PROVE  OwnerInv'
  BY <1>4, StopKeepsInv DEF Desktop!Stop, Desktop!Idle
<1>5. CASE Desktop!StopNext
  <2>1. PICK k \in toStop :
           /\ toStop' = toStop \ {k}
           /\ procs' = [procs EXCEPT ![k] = Desktop!NoChild] /\ stopping' = procs[k]
           /\ IF procs[k] = Desktop!NoChild THEN UNCHANGED <<wrapper, service>> ELSE Desktop!Terminate(procs[k])
    BY <1>5 DEF Desktop!StopNext
  <2>2. k \in Kinds
    BY DEF OwnerInv
  <2> QED
    BY <1>5, <2>1, <2>2, StopKeepsInv DEF Desktop!StopNext
<1>6. CASE UNCHANGED Desktop!vars
  BY <1>6, ButtonsKeepInv DEF Desktop!vars
<1> QED
  BY <1>1, <1>2, <1>3, <1>4, <1>5, <1>6, SpawnKeepsInv, ReturnKeepsInv, ClosingKeepsInv,
     ProcessesKeepInv DEF Desktop!Next, Desktop!Shell, Desktop!Processes

(* Every service that writes is known to the shell, unless the grace ran   *)
(* out on its wrapper, for any kinds and any number of starts.             *)
THEOREM ShellOwnsServices == Spec => []ServicesAreOwned
<1>1. Init => OwnerInv
  BY DEF Init, Desktop!Init, OwnerInv, Desktop!Children, Desktop!NoChild
<1>2. [Next]_vars => [Desktop!Next]_(Desktop!vars)
  BY DEF Next, vars, desktopVars, Desktop!vars, Desktop!ui, Desktop!manager, Desktop!os
<1>3. OwnerInv /\ [Next]_vars => OwnerInv'
  BY <1>2, ShellStepKeepsInv
<1>4. OwnerInv => ServicesAreOwned
  BY DEF OwnerInv, ServicesAreOwned, Desktop!ServicesAreOwned, Owned
<1> QED
  BY <1>1, <1>3, <1>4, PTL DEF Spec
-----------------------------------------------------------------------------
Ordered(s, n) ==
    /\ s \in Seq(Nat)
    /\ \A i \in 1..Len(s) : 1 <= s[i] /\ s[i] <= n
    /\ \A i, j \in 1..Len(s) : i < j => s[i] < s[j]
Begins(s, t) == Len(s) <= Len(t) /\ \A i \in 1..Len(s) : s[i] = t[i]
Shows(v) == latest[v] = 0 \/ \E d \in Telemetry!Days : latest[v] \in Range(flushed[<<v, d>>])
StoreInv ==
    /\ now \in 0..LastTick /\ rows \in Nat /\ venue \in 1..Len(Probed)
    /\ buffers \in [Telemetry!Keys -> Seq(Nat)] /\ flushed \in [Telemetry!Keys -> Seq(Nat)]
    /\ disk \in [Telemetry!Keys -> Seq(Nat)]
    /\ \A k \in Telemetry!Keys : Ordered(buffers[k], rows) /\ Ordered(flushed[k], rows)
    /\ \A k \in Telemetry!Keys : disk[k] = Telemetry!Torn \/ disk[k] = flushed[k]
    /\ \A k \in Telemetry!Keys : buffers[k] # <<>> => Begins(flushed[k], buffers[k])
    /\ step \notin {"flush", "down"} => toWrite = {} /\ writing = Telemetry!NoKey
    /\ step = "flush" => /\ toWrite \subseteq Telemetry!Keys
                         /\ writing = Telemetry!NoKey \/ writing \in toWrite
                         /\ \A k \in toWrite : buffers[k] # <<>>
    /\ step \in {"flush", "latest"} =>
           \A k \in Telemetry!Keys \ toWrite : buffers[k] # <<>> => buffers[k] = flushed[k]
    /\ \A v \in Range(Probed) : Shows(v)

(* A step of the composition is one of the store or leaves it alone.       *)
LEMMA StoreSteps == [Next]_vars => [Telemetry!Next]_(Telemetry!vars)
BY DEF Next, vars, storeVars, Telemetry!vars, Telemetry!memory

(* The instance's Range is the library's.                                  *)
LEMMA SameRange == \A s : Telemetry!Range(s) = Range(s)
BY DEF Telemetry!Range, Range

(* Nothing is buffered, written or shown at first.                         *)
LEMMA StoreStarts == ASSUME Telemetry!StoreAssumption, Telemetry!Init PROVE StoreInv
<1>1. Probed \in Seq(Range(Probed)) /\ Probed # <<>>
  BY SameRange DEF Telemetry!StoreAssumption
<1>2. 1 \in 1..Len(Probed)
  BY <1>1
<1>3. Ordered(<<>>, rows) /\ <<>> \in Seq(Nat)
  BY DEF Ordered
<1>4. \A k \in Telemetry!Keys : buffers[k] = <<>> /\ flushed[k] = <<>> /\ disk[k] = <<>>
  BY DEF Telemetry!Init, Telemetry!Empty, Telemetry!Missing
<1>5. /\ buffers \in [Telemetry!Keys -> Seq(Nat)] /\ flushed \in [Telemetry!Keys -> Seq(Nat)]
      /\ disk \in [Telemetry!Keys -> Seq(Nat)]
  BY <1>3 DEF Telemetry!Init, Telemetry!Empty, Telemetry!Missing
<1>6. \A v \in Range(Probed) : Shows(v)
  BY SameRange DEF Telemetry!Init, Shows
<1>7. now \in 0..LastTick /\ rows \in Nat /\ venue \in 1..Len(Probed) /\ step = "down"
  BY <1>2 DEF Telemetry!Init, Telemetry!StoreAssumption
<1> QED BY <1>3, <1>4, <1>5, <1>6, <1>7 DEF StoreInv

(* A sample is taken of a venue and a day that have a buffer.              *)
LEMMA KeyProbed ==
    ASSUME Telemetry!StoreAssumption, StoreInv
    PROVE  <<Probed[venue], Telemetry!Today>> \in Telemetry!Keys
<1>1. Probed \in Seq(Range(Probed))
  BY SameRange DEF Telemetry!StoreAssumption
<1>2. Probed[venue] \in Range(Probed)
  BY <1>1 DEF StoreInv
<1>3. now \in Nat /\ now <= LastTick /\ LastTick \in Nat /\ DayTicks \in Nat \ {0}
  BY DEF StoreInv, Telemetry!StoreAssumption
<1>4. Telemetry!Today \in Telemetry!Days
  BY <1>3 DEF Telemetry!Today, Telemetry!Days
<1> QED BY <1>2, <1>4, SameRange DEF Telemetry!Keys

(* A sample goes after all there are, so a buffer only grows on its file.  *)
LEMMA ProbeKeepsInv ==
    ASSUME Telemetry!StoreAssumption, StoreInv, Telemetry!Probe PROVE StoreInv'
<1> DEFINE k == <<Probed[venue], Telemetry!Today>>
           s == Telemetry!Seeded(k)
           a == Append(s, rows + 1)
<1>0. /\ step = "probe" /\ s # Telemetry!Torn /\ buffers' = [buffers EXCEPT ![k] = a]
      /\ rows' = rows + 1 /\ rows \in Nat
      /\ UNCHANGED <<now, lives, writing, disk, latest, flushed>>
  BY DEF Telemetry!Probe, StoreInv
<1>1. k \in Telemetry!Keys
  BY KeyProbed
<1>2. /\ s = IF buffers[k] # <<>> THEN buffers[k] ELSE disk[k]
      /\ disk[k] = Telemetry!Torn \/ disk[k] = flushed[k]
      /\ flushed[k] \in Seq(Nat) /\ Ordered(flushed[k], rows) /\ Ordered(buffers[k], rows)
      /\ buffers[k] # <<>> => Begins(flushed[k], buffers[k])
  BY <1>1 DEF StoreInv, Telemetry!Seeded
<1>a. a = Append(s, rows + 1)
  OBVIOUS
<1> HIDE DEF k, s, a
<1>b. \A f \in Seq(Nat) : Begins(f, f)
  BY DEF Begins
<1>c. Ordered(s, rows) /\ Begins(flushed[k], s)
  <2>1. CASE buffers[k] # <<>>
    BY <2>1, <1>2
  <2>2. CASE buffers[k] = <<>>
    <3>1. s = flushed[k]
      BY <2>2, <1>0, <1>2
    <3> QED BY <3>1, <1>2, <1>b
  <2> QED BY <2>1, <2>2
<1>3. /\ a \in Seq(Nat) /\ a # <<>> /\ Len(a) = Len(s) + 1 /\ Len(s) \in Nat
      /\ \A i \in 1..Len(s) : a[i] = s[i] /\ a[i] \in Nat
      /\ a[Len(s) + 1] = rows + 1
  <2>1. s \in Seq(Nat) /\ rows + 1 \in Nat
    BY <1>0, <1>c DEF Ordered
  <2>2. a \in Seq(Nat) /\ Len(a) = Len(s) + 1 /\ Len(s) \in Nat
    BY <2>1, <1>a
  <2>3. \A i \in 1..Len(s) : a[i] = s[i] /\ a[i] \in Nat
    BY <2>1, <1>a
  <2>4. a[Len(s) + 1] = rows + 1 /\ a # <<>>
    BY <2>1, <2>2, <1>a
  <2> QED BY <2>2, <2>3, <2>4
<1>4. Ordered(a, rows + 1)
  <2>1. \A i \in 1..Len(a) : 1 <= a[i] /\ a[i] <= rows + 1
    BY <1>0, <1>c, <1>3 DEF Ordered
  <2>2. ASSUME NEW i \in 1..Len(a), NEW j \in 1..Len(a), i < j PROVE a[i] < a[j]
    <3>1. i \in 1..Len(s) /\ a[i] = s[i] /\ s[i] <= rows /\ s[i] \in Nat
      BY <2>2, <1>c, <1>3 DEF Ordered
    <3>2. CASE j \in 1..Len(s)
      BY <2>2, <3>1, <3>2, <1>c, <1>3 DEF Ordered
    <3>3. CASE j = Len(s) + 1
      BY <3>1, <3>3, <1>0, <1>3
    <3> QED BY <3>2, <3>3, <1>3
  <2> QED BY <2>1, <2>2, <1>3 DEF Ordered
<1>5. Begins(flushed[k], a)
  <2> DEFINE f == flushed[k]
  <2>1. f \in Seq(Nat) /\ Begins(f, s)
    BY <1>2, <1>c
  <2> HIDE DEF f
  <2>2. Len(f) \in Nat /\ Len(f) <= Len(s) /\ \A i \in 1..Len(f) : f[i] = s[i]
    BY <2>1 DEF Begins
  <2>3. \A i \in 1..Len(f) : f[i] = a[i]
    BY <2>2, <1>3
  <2>4. Begins(f, a)
    BY <2>2, <2>3, <1>3 DEF Begins
  <2> QED BY <2>4 DEF f
<1>6. \A j \in Telemetry!Keys : buffers'[j] = (IF j = k THEN a ELSE buffers[j])
  BY <1>0, <1>1 DEF StoreInv
<1>7. buffers' \in [Telemetry!Keys -> Seq(Nat)]
  BY <1>0, <1>1, <1>3 DEF StoreInv
<1>8. \A s1 : Ordered(s1, rows) => Ordered(s1, rows + 1)
  BY <1>0 DEF Ordered
<1>9. /\ \A j \in Telemetry!Keys : Ordered(buffers'[j], rows') /\ Ordered(flushed'[j], rows')
      /\ \A j \in Telemetry!Keys : buffers'[j] # <<>> => Begins(flushed'[j], buffers'[j])
  BY <1>0, <1>4, <1>5, <1>6, <1>8 DEF StoreInv
<1>10. toWrite = {} /\ writing = Telemetry!NoKey
  BY <1>0 DEF StoreInv
<1>11. /\ venue' \in 1..Len(Probed) /\ step' \in {"probe", "flush"}
       /\ step' = "probe" => toWrite' = {}
       /\ step' = "flush" => toWrite' = {j \in Telemetry!Keys : buffers'[j] # <<>>}
  <2>1. Len(Probed) \in Nat /\ venue \in 1..Len(Probed)
    BY SameRange DEF StoreInv, Telemetry!StoreAssumption
  <2>2. CASE venue < Len(Probed)
    BY <2>1, <2>2, <1>0, <1>10 DEF Telemetry!Probe
  <2>3. CASE ~(venue < Len(Probed))
    BY <2>1, <2>3, <1>0, <1>10 DEF Telemetry!Probe
  <2> QED BY <2>2, <2>3
<1>12. \A v \in Range(Probed) : Shows(v)'
  BY <1>0 DEF StoreInv, Shows
<1>13. /\ now' \in 0..LastTick /\ rows' \in Nat /\ flushed' \in [Telemetry!Keys -> Seq(Nat)]
       /\ disk' \in [Telemetry!Keys -> Seq(Nat)]
       /\ \A j \in Telemetry!Keys : disk'[j] = Telemetry!Torn \/ disk'[j] = flushed'[j]
  BY <1>0 DEF StoreInv
<1> QED BY <1>0, <1>7, <1>9, <1>10, <1>11, <1>12, <1>13 DEF StoreInv

(* A write makes the file what the buffer holds, which begins with it.     *)
LEMMA WriteKeepsInv ==
    ASSUME StoreInv, Telemetry!WriteDay PROVE StoreInv'
<1>1. /\ step = "flush" /\ writing \in toWrite /\ writing \in Telemetry!Keys
      /\ disk' = [disk EXCEPT ![writing] = buffers[writing]]
      /\ flushed' = [flushed EXCEPT ![writing] = buffers[writing]]
      /\ toWrite' = toWrite \ {writing} /\ writing' = Telemetry!NoKey
      /\ UNCHANGED <<now, lives, step, venue, buffers, rows, latest>>
  BY DEF Telemetry!WriteDay, StoreInv
<1>2. /\ disk' \in [Telemetry!Keys -> Seq(Nat)] /\ flushed' \in [Telemetry!Keys -> Seq(Nat)]
      /\ \A k \in Telemetry!Keys : flushed'[k] = IF k = writing THEN buffers[k] ELSE flushed[k]
      /\ \A k \in Telemetry!Keys : disk'[k] = IF k = writing THEN buffers[k] ELSE disk[k]
  BY <1>1 DEF StoreInv
<1>3. Begins(flushed[writing], buffers[writing])
  BY <1>1 DEF StoreInv
<1>4. \A k \in Telemetry!Keys : Begins(flushed[k], flushed'[k])
  <2>1. ASSUME NEW k \in Telemetry!Keys PROVE flushed[k] \in Seq(Nat) /\ Begins(flushed[k], flushed[k])
    BY DEF StoreInv, Begins
  <2> QED BY <2>1, <1>2, <1>3
<1>5. \A k \in Telemetry!Keys : Range(flushed[k]) \subseteq Range(flushed'[k])
  <2> SUFFICES ASSUME NEW k \in Telemetry!Keys PROVE Range(flushed[k]) \subseteq Range(flushed'[k])
    OBVIOUS
  <2> DEFINE s == flushed[k]
             t == flushed'[k]
  <2>1. s \in Seq(Nat) /\ t \in Seq(Nat) /\ Begins(s, t)
    BY <1>2, <1>4 DEF StoreInv
  <2> HIDE DEF s, t
  <2>2. DOMAIN s = 1..Len(s) /\ DOMAIN t = 1..Len(t) /\ Len(s) \in Nat /\ Len(t) \in Nat
    BY <2>1
  <2>3. Range(s) \subseteq Range(t)
    BY <2>1, <2>2 DEF Begins, Range
  <2> QED BY <2>3 DEF s, t
<1>6. ASSUME NEW v \in Range(Probed) PROVE Shows(v)'
  <2>1. CASE latest[v] = 0
    BY <2>1, <1>1 DEF Shows
  <2>2. ASSUME NEW d \in Telemetry!Days, latest[v] \in Range(flushed[<<v, d>>]) PROVE Shows(v)'
    <3>1. <<v, d>> \in Telemetry!Keys
      BY SameRange DEF Telemetry!Keys
    <3> QED BY <3>1, <2>2, <1>1, <1>5 DEF Shows
  <2> QED BY <2>1, <2>2 DEF Shows, StoreInv
<1>7. \A k \in Telemetry!Keys : Begins(buffers[k], buffers[k])
  BY DEF Begins, StoreInv
<1>8. \A k \in Telemetry!Keys : buffers'[k] # <<>> => Begins(flushed'[k], buffers'[k])
  BY <1>1, <1>2, <1>7 DEF StoreInv
<1>9. /\ \A k \in Telemetry!Keys : Ordered(buffers'[k], rows') /\ Ordered(flushed'[k], rows')
      /\ \A k \in Telemetry!Keys : disk'[k] = Telemetry!Torn \/ disk'[k] = flushed'[k]
      /\ \A k \in Telemetry!Keys \ toWrite' : buffers'[k] # <<>> => buffers'[k] = flushed'[k]
  BY <1>1, <1>2 DEF StoreInv
<1>10. toWrite' \subseteq Telemetry!Keys /\ \A k \in toWrite' : buffers'[k] # <<>>
  BY <1>1 DEF StoreInv
<1> QED BY <1>1, <1>2, <1>6, <1>8, <1>9, <1>10 DEF StoreInv

(* The newest day of a venue that is buffered is there.                    *)
LEMMA NewestDay ==
    ASSUME Telemetry!StoreAssumption, NEW v, Telemetry!DaysOf(v) # {}
    PROVE  Telemetry!Max(Telemetry!DaysOf(v)) \in Telemetry!DaysOf(v)
<1> DEFINE D == Telemetry!DaysOf(v)
           N == LastTick \div DayTicks
           B == {N - d : d \in D}
<1>1. N \in Nat /\ D \subseteq 0..N
  BY DEF Telemetry!StoreAssumption, Telemetry!DaysOf, Telemetry!Days
<1> HIDE DEF N, D
<1>2. B \subseteq Nat /\ B # {}
  BY <1>1 DEF D
<1>3. PICK x \in B : \A y \in B : x <= y
  <2> HIDE DEF B
  <2> QED BY <1>2, LeastExists
<1>4. PICK d \in D : x = N - d
  BY <1>3
<1>5. \A e \in D : d >= e
  <2> SUFFICES ASSUME NEW e \in D PROVE d >= e
    OBVIOUS
  <2>1. N - d <= N - e
    BY <1>3, <1>4
  <2> QED BY <2>1, <1>1
<1>6. Telemetry!Max(D) \in D
  BY <1>5 DEF Telemetry!Max
<1> QED BY <1>6 DEF D

(* What the chart is given was flushed: every buffer equals its file then. *)
LEMMA LatestKeepsInv ==
    ASSUME Telemetry!StoreAssumption, StoreInv, Telemetry!WriteLatest PROVE StoreInv'
<1>1. /\ step = "latest" /\ step' = "wait" /\ toWrite = {} /\ writing = Telemetry!NoKey
      /\ UNCHANGED <<now, lives, venue, buffers, toWrite, writing, disk, rows, flushed>>
  BY DEF Telemetry!WriteLatest, StoreInv
<1>2. ASSUME NEW v \in Range(Probed) PROVE Shows(v)'
  <2> DEFINE d == Telemetry!Max(Telemetry!DaysOf(v))
             s == buffers[<<v, d>>]
  <2>0. v \in Telemetry!Range(Probed)
    BY SameRange
  <2>1. CASE Telemetry!DaysOf(v) = {}
    BY <2>0, <2>1 DEF Telemetry!WriteLatest, Shows
  <2>2. CASE Telemetry!DaysOf(v) # {}
    <3>1. latest'[v] = Telemetry!Last(s)
      BY <2>0, <2>2 DEF Telemetry!WriteLatest
    <3>2. d \in Telemetry!DaysOf(v)
      BY <2>2, NewestDay
    <3>3. d \in Telemetry!Days /\ s # <<>> /\ <<v, d>> \in Telemetry!Keys
      BY <3>2, <2>0 DEF Telemetry!DaysOf, Telemetry!Keys
    <3>4. s = flushed[<<v, d>>] /\ s \in Seq(Nat)
      BY <3>3, <1>1 DEF StoreInv
    <3> HIDE DEF s, d
    <3>5. Telemetry!Last(s) \in Range(s)
      <4>1. DOMAIN s = 1..Len(s) /\ Len(s) \in 1..Len(s)
        BY <3>3, <3>4
      <4> QED BY <4>1 DEF Telemetry!Last, Range
    <3> QED BY <3>1, <3>3, <3>4, <3>5, <1>1 DEF Shows
  <2> QED BY <2>1, <2>2
<1> QED BY <1>1, <1>2 DEF StoreInv

(* An opened file is torn, and the history keeps what it held.             *)
LEMMA OpenKeepsInv == ASSUME StoreInv, Telemetry!OpenDay PROVE StoreInv'
<1>1. PICK k \in toWrite : writing' = k /\ disk' = [disk EXCEPT ![k] = Telemetry!Torn]
  BY DEF Telemetry!OpenDay
<1>2. /\ step = "flush" /\ k \in Telemetry!Keys
      /\ UNCHANGED <<now, lives, step, venue, buffers, toWrite, rows, latest, flushed>>
  BY DEF Telemetry!OpenDay, StoreInv
<1>3. Telemetry!Torn \in Seq(Nat)
  BY DEF Telemetry!Torn
<1>4. /\ disk' \in [Telemetry!Keys -> Seq(Nat)]
      /\ \A j \in Telemetry!Keys : disk'[j] = IF j = k THEN Telemetry!Torn ELSE disk[j]
  BY <1>1, <1>2, <1>3 DEF StoreInv
<1>5. \A v \in Range(Probed) : Shows(v)'
  BY <1>2 DEF StoreInv, Shows
<1> QED BY <1>1, <1>2, <1>4, <1>5 DEF StoreInv

(* The steps that write nothing and forget at most what is buffered.       *)
LEMMA QuietKeepsInv ==
    ASSUME Telemetry!StoreAssumption, StoreInv,
           Telemetry!Start \/ Telemetry!SeedRaises \/ Telemetry!DropPast \/ Telemetry!NextCycle
           \/ Telemetry!Crash \/ Telemetry!Tick \/ UNCHANGED Telemetry!vars
    PROVE  StoreInv'
<1>0. UNCHANGED <<disk, rows, latest, flushed>>
  BY DEF Telemetry!Start, Telemetry!SeedRaises, Telemetry!DropPast, Telemetry!NextCycle,
         Telemetry!Crash, Telemetry!Tick, Telemetry!vars
<1>1. \A v \in Range(Probed) : Shows(v)'
  BY <1>0 DEF StoreInv, Shows
<1>2. <<>> \in Seq(Nat) /\ Ordered(<<>>, rows)
  BY DEF Ordered
<1>3. CASE Telemetry!Start
  <2>1. 1 \in 1..Len(Probed)
    BY SameRange DEF Telemetry!StoreAssumption
  <2>2. /\ buffers' = [k \in Telemetry!Keys |-> <<>>] /\ toWrite' = {} /\ now' = now
        /\ writing' = Telemetry!NoKey /\ step' = "probe" /\ venue' = 1
    BY <1>3 DEF Telemetry!Start, Telemetry!Empty
  <2> QED BY <2>1, <2>2, <1>0, <1>1, <1>2 DEF StoreInv
<1>4. CASE Telemetry!DropPast
  <2>1. /\ buffers' = [k \in Telemetry!Keys |-> IF k[2] = Telemetry!Today THEN buffers[k] ELSE <<>>]
        /\ step = "flush" /\ step' = "latest" /\ toWrite = {} /\ writing = Telemetry!NoKey
        /\ UNCHANGED <<now, venue, toWrite, writing>>
    BY <1>4 DEF Telemetry!DropPast
  <2>2. /\ buffers' \in [Telemetry!Keys -> Seq(Nat)]
        /\ \A k \in Telemetry!Keys : buffers'[k] = buffers[k] \/ buffers'[k] = <<>>
    BY <2>1, <1>2 DEF StoreInv
  <2> QED BY <2>1, <2>2, <1>0, <1>1, <1>2 DEF StoreInv
<1>5. CASE Telemetry!SeedRaises \/ Telemetry!NextCycle \/ Telemetry!Crash
  BY <1>5, <1>0, <1>1 DEF Telemetry!SeedRaises, Telemetry!NextCycle, Telemetry!Crash, StoreInv
<1>6. CASE Telemetry!Tick
  <2>1. now' \in 0..LastTick
    BY <1>6 DEF Telemetry!Tick, StoreInv, Telemetry!StoreAssumption
  <2> QED BY <2>1, <1>6, <1>0, <1>1 DEF Telemetry!Tick, Telemetry!memory, StoreInv
<1>7. CASE UNCHANGED Telemetry!vars
  BY <1>7, <1>0, <1>1 DEF Telemetry!vars, Telemetry!memory, StoreInv
<1> QED BY <1>3, <1>4, <1>5, <1>6, <1>7

(* Every step of the store keeps its invariant.                            *)
LEMMA StoreStepKeepsInv ==
    ASSUME Telemetry!StoreAssumption, StoreInv, [Telemetry!Next]_(Telemetry!vars) PROVE StoreInv'
BY ProbeKeepsInv, WriteKeepsInv, LatestKeepsInv, OpenKeepsInv, QuietKeepsInv DEF Telemetry!Next

(* A step changes a day file only to a longer one, and never the order.    *)
LEMMA StoreStepGrows ==
    ASSUME Telemetry!StoreAssumption, StoreInv, [Telemetry!Next]_(Telemetry!vars),
           NEW k \in Telemetry!Keys, disk'[k] \notin {disk[k], Telemetry!Torn}
    PROVE  /\ Telemetry!IsPrefix(flushed[k], disk'[k])
           /\ \A i, j \in DOMAIN disk'[k] : i < j => disk'[k][i] < disk'[k][j]
<1>1. CASE Telemetry!WriteDay
  <2>1. /\ step = "flush" /\ writing \in toWrite /\ writing \in Telemetry!Keys
        /\ disk' = [disk EXCEPT ![writing] = buffers[writing]]
    BY <1>1 DEF Telemetry!WriteDay, StoreInv
  <2>2. k = writing /\ disk'[k] = buffers[k]
    BY <2>1 DEF StoreInv
  <2>3. Begins(flushed[k], buffers[k]) /\ Ordered(buffers[k], rows) /\ flushed[k] \in Seq(Nat)
    BY <2>1, <2>2 DEF StoreInv
  <2> DEFINE s == flushed[k]
             t == buffers[k]
  <2>4. /\ s \in Seq(Nat) /\ t \in Seq(Nat) /\ Len(s) \in Nat /\ Len(t) \in Nat
        /\ DOMAIN t = 1..Len(t) /\ Begins(s, t) /\ Ordered(t, rows)
    BY <2>3 DEF Ordered
  <2> HIDE DEF s, t
  <2>5. SubSeq(s, 1, Len(s)) = SubSeq(t, 1, Len(s))
    BY <2>4 DEF Begins
  <2>6. Telemetry!IsPrefix(s, t)
    BY <2>4, <2>5 DEF Telemetry!IsPrefix, Begins
  <2>7. \A i, j \in DOMAIN t : i < j => t[i] < t[j]
    BY <2>4 DEF Ordered
  <2> QED BY <2>2, <2>6, <2>7 DEF s, t
<1>2. CASE Telemetry!OpenDay
  <2>1. PICK j \in toWrite : disk' = [disk EXCEPT ![j] = Telemetry!Torn]
    BY <1>2 DEF Telemetry!OpenDay
  <2> QED BY <2>1 DEF StoreInv
<1>3. CASE ~Telemetry!WriteDay /\ ~Telemetry!OpenDay
  BY <1>3 DEF Telemetry!Next, Telemetry!vars, Telemetry!Start, Telemetry!Probe, Telemetry!SeedRaises,
     Telemetry!DropPast, Telemetry!WriteLatest, Telemetry!NextCycle, Telemetry!Crash, Telemetry!Tick
<1> QED BY <1>1, <1>2, <1>3

(* Day files only grow and hold each sample once, for any number of        *)
(* venues, restarts and crashes, and whatever the clock does; the chart    *)
(* shows nothing that was not on disk first.                               *)
THEOREM DayFilesOnlyGrow == Spec => DayFilesGrow
<1>1. Init => StoreInv
  BY StoreStarts, PartsAssumption DEF Init
<1>2. StoreInv /\ [Next]_vars => StoreInv'
  BY StoreSteps, StoreStepKeepsInv, PartsAssumption
<1> DEFINE Grow ==
      /\ \A v \in Telemetry!Range(Probed) : latest'[v] = 0 \/
              \E d \in Telemetry!Days : latest'[v] \in Telemetry!Range(flushed'[<<v, d>>])
      /\ \A k \in Telemetry!Keys : disk'[k] \notin {disk[k], Telemetry!Torn} =>
              /\ Telemetry!IsPrefix(flushed[k], disk'[k])
              /\ \A i, j \in DOMAIN disk'[k] : i < j => disk'[k][i] < disk'[k][j]
<1>3. StoreInv /\ StoreInv' /\ [Next]_vars => [Grow]_(Telemetry!vars)
  <2> SUFFICES ASSUME StoreInv, StoreInv', [Next]_vars PROVE Grow
    OBVIOUS
  <2>1. \A v \in Telemetry!Range(Probed) : Shows(v)'
    BY SameRange DEF StoreInv
  <2>2. [Telemetry!Next]_(Telemetry!vars)
    BY StoreSteps
  <2> QED BY <2>1, <2>2, SameRange, StoreStepGrows, PartsAssumption DEF Shows
<1> QED BY <1>1, <1>2, <1>3, PTL DEF Spec, DayFilesGrow, Telemetry!DayFilesGrow
-----------------------------------------------------------------------------
(* Why `make status` tells the truth: a beat is never newer than the last  *)
(* moment its venue was recorded, for the loop wakes an interval after it  *)
(* was started; and what the guard logged last was logged less than a      *)
(* repeat interval before the turn now waited for began.                   *)
HealthInv ==
    /\ clock \in Nat /\ wakes \in Nat /\ recorded \subseteq Watched /\ beating \in BOOLEAN
    /\ beats \in [Watched -> Int] /\ seen \in [Watched -> Int]
    /\ beating => clock <= wakes /\ wakes <= clock + Interval
    /\ \A v \in Watched : seen[v] <= clock
    /\ \A v \in recorded : beating => seen[v] = clock \/ wakes = clock + Interval
    /\ \A v \in Watched : beats[v] # Health!None => beats[v] <= seen[v]
    /\ lastLogged \in Int
    /\ beating /\ lastLevel \in {"low", "critical"} =>
           lastLogged # Health!None /\ wakes - lastLogged < Repeat + Interval

(* The same of the operator's view, ...                                   *)
LEMMA HealthSteps == [Next]_vars => [Health!Next]_(Health!vars)
BY DEF Next, vars, healthVars, Health!vars

(* Every step keeps the operator's view true.                              *)
LEMMA HealthStepKeepsInv ==
    ASSUME Health!HealthAssumption, HealthInv, [Health!Next]_(Health!vars) PROVE HealthInv'
<1> USE DEF Health!HealthAssumption, Health!None, HealthInv
<1>1. CASE Health!StartRecorder
  BY <1>1 DEF Health!StartRecorder, Health!Unread
<1>2. CASE Health!RecorderDies
  BY <1>2 DEF Health!RecorderDies
<1>3. CASE Health!Beat
  <2>1. \A v \in recorded : seen[v] = clock
    BY <1>3 DEF Health!Beat
  <2>2. lastLogged' \in Int
    BY <1>3 DEF Health!Beat, Health!CheckDisk
  <2>3. ASSUME lastLevel' \in {"low", "critical"}
        PROVE  lastLogged' # Health!None /\ wakes' - lastLogged' < Repeat + Interval
    BY <2>3, <1>3 DEF Health!Beat, Health!CheckDisk, Health!ShouldLog
  <2>4. beats' \in [Watched -> Int] /\ \A v \in Watched : beats'[v] # Health!None => beats'[v] <= seen'[v]
    BY <2>1, <1>3 DEF Health!Beat
  <2>5. /\ wakes' = clock + Interval /\ wakes' \in Nat
        /\ UNCHANGED <<clock, starts, recorded, beating, heard, seen, space>>
    BY <1>3 DEF Health!Beat
  <2>6. (clock \in Nat /\ wakes \in Nat /\ recorded \subseteq Watched /\ beating \in BOOLEAN)'
    BY <2>5
  <2>7. (seen \in [Watched -> Int])' /\ (beating => clock <= wakes /\ wakes <= clock + Interval)'
    BY <2>5
  <2>8. (\A v \in Watched : seen[v] <= clock)'
    BY <2>5
  <2>9. (\A v \in recorded : beating => seen[v] = clock \/ wakes = clock + Interval)'
    BY <2>5
  <2> QED BY <2>2, <2>3, <2>4, <2>6, <2>7, <2>8, <2>9
<1>4. CASE Health!DiskProbeFails
  BY <1>4 DEF Health!DiskProbeFails
<1>5. CASE Health!DiskChanges
  BY <1>5 DEF Health!DiskChanges
<1>6. CASE Health!Tick
  BY <1>6 DEF Health!Tick
<1>7. ASSUME NEW v \in Watched, Health!Message(v) PROVE HealthInv'
  BY <1>7 DEF Health!Message
<1>8. CASE UNCHANGED Health!vars
  BY <1>8 DEF Health!vars
<1> QED
  BY <1>1, <1>2, <1>3, <1>4, <1>5, <1>6, <1>7, <1>8 DEF Health!Next

(* What the invariant says of the status command and the guard.            *)
LEMMA HealthInvShows ==
    ASSUME Health!HealthAssumption, HealthInv
    PROVE  Health!AbsenceShows /\ Health!ShortageRepeated
<1> USE DEF Health!HealthAssumption, Health!None, HealthInv
<1>1. ASSUME Health!Healthy, NEW v \in Watched PROVE clock - seen[v] <= Health!StaleAfter
  <2>1. v \in DOMAIN Health!LatestHeartbeats /\ ~(Health!LatestHeartbeats[v] > Health!StaleAfter)
    BY <1>1 DEF Health!Healthy, Health!Stale
  <2>2. beats[v] # Health!None /\ Health!LatestHeartbeats[v] = clock - beats[v]
    BY <2>1 DEF Health!LatestHeartbeats
  <2> QED BY <2>1, <2>2 DEF Health!StaleAfter
<1>2. Health!AbsenceShows
  BY <1>1 DEF Health!AbsenceShows
<1>3. Health!ShortageRepeated
  BY DEF Health!ShortageRepeated
<1> QED BY <1>2, <1>3
-----------------------------------------------------------------------------
(* Why the tailer loses and repeats nothing while the file is not replaced *)
(* : what it emitted is the file up to its position, and the entries it    *)
(* dropped from the window are the beginning of it.                        *)
Piece == Nat \X {1, 2}
TailInv ==
    /\ rotations \in Nat
    /\ rotations = 0 =>
        /\ file \in Seq(Piece) /\ entries \in Seq(Seq(Piece))
        /\ written \in Nat
        /\ skipped \in 0..position /\ position \in 0..Len(file)
        /\ emitted = SubSeq(file, skipped + 1, position)
        /\ \E gone \in Seq(Piece) : emitted = gone \o Desktop!FlattenSeq(entries)

(* ... and of the log tailer.                                              *)
LEMMA TailSteps == [Next]_vars => [Desktop!TailNext]_(Desktop!tailVars)
BY DEF Next, vars, tailVars, Desktop!tailVars

(* The instance's FlattenSeq is the library's.                             *)
LEMMA SameFlatten == \A s : Desktop!FlattenSeq(s) = FlattenSeq(s)
BY DEF Desktop!FlattenSeq, FlattenSeq

(* A piece more at the end of the file changes nothing before it.          *)
LEMMA AppendKeepsPosition ==
    ASSUME TailInv, rotations = 0, NEW p \in Piece, file' = Append(file, p),
           written' \in Nat, UNCHANGED <<rotations, position, entries, skipped, emitted>>
    PROVE  TailInv'
<1>1. /\ file' \in Seq(Piece) /\ Len(file') = Len(file) + 1 /\ Len(file) \in Nat
      /\ \A i \in 1..Len(file) : file'[i] = file[i]
  BY DEF TailInv
<1>2. SubSeq(file', skipped + 1, position) = SubSeq(file, skipped + 1, position)
  <2>1. skipped + 1 \in Nat \ {0} /\ position \in 0..Len(file)
    BY DEF TailInv
  <2> QED BY <2>1, PartOfAppend DEF TailInv
<1>3. position' \in 0..Len(file') /\ skipped' \in 0..position'
  BY <1>1 DEF TailInv
<1> QED BY <1>1, <1>2, <1>3 DEF TailInv

(* read_line stops after the position, within the file.                    *)
LEMMA LineEndIn ==
    ASSUME file \in Seq(Piece), position \in 0..Len(file), position < Len(file)
    PROVE  Desktop!LineEnd \in position + 1..Len(file)
<1> DEFINE ends == {i \in (position + 1)..Len(file) : file[i][2] = 2}
<1>1. CASE ends = {}
  BY <1>1 DEF Desktop!LineEnd
<1>2. CASE ends # {}
  <2>1. ends \subseteq Nat
    OBVIOUS
  <2>2. \E i \in ends : \A j \in ends : i <= j
    <3> HIDE DEF ends
    <3> QED BY <1>2, <2>1, LeastExists
  <2>3. (CHOOSE i \in ends : \A j \in ends : i <= j) \in ends
    <3> HIDE DEF ends
    <3> QED BY <2>2
  <2>4. Desktop!LineEnd = CHOOSE i \in ends : \A j \in ends : i <= j
    BY <1>2 DEF Desktop!LineEnd
  <2>5. Desktop!LineEnd \in ends
    BY <2>3, <2>4
  <2> QED BY <2>5
<1> QED BY <1>1, <1>2

(* setLogs drops a beginning of the entries.                               *)
LEMMA ShownIsTheEnd ==
    ASSUME Desktop!TailAssumption, NEW e \in Seq(Seq(Piece))
    PROVE  /\ Desktop!Shown(e) \in Seq(Seq(Piece))
           /\ \E pre \in Seq(Seq(Piece)) : e = pre \o Desktop!Shown(e)
<1> DEFINE k == IF Len(e) > LogLimit THEN Len(e) - LogLimit + 1 ELSE 1
<1>1. Len(e) \in Nat /\ k \in 1..Len(e) + 1
  BY DEF Desktop!TailAssumption
<1>2. Desktop!Shown(e) = SubSeq(e, k, Len(e))
  BY DEF Desktop!Shown
<1> HIDE DEF k
<1>3. SubSeq(e, k, Len(e)) \in Seq(Seq(Piece)) /\ SubSeq(e, 1, k - 1) \in Seq(Seq(Piece))
  <2>1. k \in Nat \ {0} /\ 1 \in Nat \ {0} /\ k - 1 \in 0..Len(e) /\ Len(e) \in 0..Len(e)
    BY <1>1
  <2> QED BY <2>1, PartOfSeq
<1>4. e = SubSeq(e, 1, k - 1) \o SubSeq(e, k, Len(e))
  BY <1>1, SplitAt
<1> QED BY <1>2, <1>3, <1>4

(* A line read is emitted once, and the window drops its oldest entries.   *)
LEMMA ReadKeepsInv ==
    ASSUME Desktop!TailAssumption, TailInv, rotations = 0, Desktop!ReadLine
    PROVE  TailInv'
<1> DEFINE line == SubSeq(file, position + 1, Desktop!LineEnd)
           more == Append(entries, line)
<1>1. /\ file \in Seq(Piece) /\ position \in 0..Len(file) /\ position < Len(file)
      /\ Len(file) \in Nat /\ skipped \in 0..position /\ entries \in Seq(Seq(Piece))
      /\ emitted = SubSeq(file, skipped + 1, position)
      /\ entries' = Desktop!Shown(more) /\ emitted' = emitted \o line /\ position' = Desktop!LineEnd
      /\ UNCHANGED <<file, written, rotations, skipped>>
  BY DEF TailInv, Desktop!ReadLine
<1>2. Desktop!LineEnd \in position + 1..Len(file)
  BY <1>1, LineEndIn
<1>3. line \in Seq(Piece) /\ emitted \in Seq(Piece)
  <2>1. /\ position + 1 \in Nat \ {0} /\ skipped + 1 \in Nat \ {0}
        /\ Desktop!LineEnd \in 0..Len(file)
    BY <1>1, <1>2
  <2> QED BY <2>1, <1>1, PartOfSeq
<1>4. emitted' = SubSeq(file, skipped + 1, Desktop!LineEnd)
  <2>1. /\ skipped + 1 \in 1..Len(file) + 1 /\ position \in (skipped + 1) - 1..Len(file)
        /\ Desktop!LineEnd \in position..Len(file)
    BY <1>1, <1>2
  <2> QED BY <2>1, <1>1, ConcatAdjacentSubSeq
<1> HIDE DEF line
<1>5. more \in Seq(Seq(Piece)) /\ FlattenSeq(more) = FlattenSeq(entries) \o line
  BY <1>1, <1>3, FlattenAppend
<1> HIDE DEF more
<1>6. entries' \in Seq(Seq(Piece)) /\ \E pre \in Seq(Seq(Piece)) : more = pre \o entries'
  BY <1>1, <1>5, ShownIsTheEnd
<1>7. PICK pre \in Seq(Seq(Piece)) : more = pre \o entries'
  BY <1>6
<1>8. FlattenSeq(more) = FlattenSeq(pre) \o FlattenSeq(entries')
  BY <1>6, <1>7, FlattenConcat
<1>9. PICK gone \in Seq(Piece) : emitted = gone \o FlattenSeq(entries)
  BY SameFlatten DEF TailInv
<1>10. /\ FlattenSeq(entries) \in Seq(Piece) /\ FlattenSeq(pre) \in Seq(Piece)
       /\ FlattenSeq(entries') \in Seq(Piece)
  BY <1>1, <1>6, FlattenType
<1>11. emitted' = (gone \o FlattenSeq(pre)) \o FlattenSeq(entries')
  <2> DEFINE a == FlattenSeq(entries)  b == FlattenSeq(pre)  c == FlattenSeq(entries')
  <2>1. a \in Seq(Piece) /\ b \in Seq(Piece) /\ c \in Seq(Piece) /\ a \o line = b \o c
    BY <1>5, <1>8, <1>10
  <2>2. emitted' = (gone \o a) \o line
    BY <1>1, <1>9
  <2> HIDE DEF a, b, c
  <2>0. \A x, y, z \in Seq(Piece) : (x \o y) \o z = x \o (y \o z)
    BY ConcatAssociative
  <2>3. (gone \o a) \o line = gone \o (a \o line)
    BY ONLY <2>0, <2>1, <1>3, gone \in Seq(Piece)
  <2>4. gone \o (b \o c) = (gone \o b) \o c
    BY ONLY <2>1, gone \in Seq(Piece), SMTT(60)
  <2>5. emitted' = (gone \o b) \o c
    BY <2>1, <2>2, <2>3, <2>4
  <2> QED BY <2>5 DEF a, b, c
<1>12. gone \o FlattenSeq(pre) \in Seq(Piece)
  BY <1>10
<1>13. emitted' = (gone \o FlattenSeq(pre)) \o Desktop!FlattenSeq(entries')
  BY <1>11, SameFlatten
<1>14. \E g \in Seq(Piece) : emitted' = g \o Desktop!FlattenSeq(entries')
  BY <1>12, <1>13
<1>15. skipped' \in 0..position' /\ position' \in 0..Len(file')
  BY <1>1, <1>2
<1> QED BY <1>1, <1>4, <1>6, <1>14, <1>15 DEF TailInv

(* Every step of the log and its tailer keeps their invariant.             *)
LEMMA TailStepKeepsInv ==
    ASSUME Desktop!TailAssumption, TailInv, [Desktop!TailNext]_(Desktop!tailVars) PROVE TailInv'
<1>1. CASE Desktop!Rotate
  BY <1>1 DEF Desktop!Rotate, TailInv
<1>2. CASE rotations # 0 /\ ~Desktop!Rotate
  BY <1>2 DEF TailInv, Desktop!TailNext, Desktop!tailVars, Desktop!AppendLine, Desktop!AppendRest, Desktop!Wake,
              Desktop!ReadLine, Desktop!ReadEnds
<1>3. CASE rotations = 0 /\ Desktop!AppendLine
  <2>1. PICK p \in {1, 2} : file' = Append(file, <<written + 1, p>>)
    BY <1>3 DEF Desktop!AppendLine
  <2>2. <<written + 1, p>> \in Piece /\ written' \in Nat
    BY <1>3 DEF Desktop!AppendLine, TailInv, Piece
  <2>3. UNCHANGED <<rotations, position, entries, skipped, emitted>>
    BY <1>3 DEF Desktop!AppendLine
  <2> QED BY <1>3, <2>1, <2>2, <2>3, AppendKeepsPosition
<1>4. CASE rotations = 0 /\ Desktop!AppendRest
  <2>1. file \in Seq(Piece) /\ file # <<>> /\ Desktop!Last(file) = file[Len(file)]
    BY <1>4 DEF Desktop!AppendRest, Desktop!LineOpen, TailInv, Desktop!Last
  <2>2. Desktop!Last(file) \in Piece
    BY <2>1
  <2>3. <<Desktop!Last(file)[1], 2>> \in Piece /\ file' = Append(file, <<Desktop!Last(file)[1], 2>>)
    BY <2>2, <1>4 DEF Piece, Desktop!AppendRest
  <2>4. written' \in Nat /\ UNCHANGED <<rotations, position, entries, skipped, emitted>>
    BY <1>4 DEF Desktop!AppendRest, TailInv
  <2> QED BY <1>4, <2>3, <2>4, AppendKeepsPosition
<1>5. CASE rotations = 0 /\ Desktop!Wake
  <2>1. position' = position
    BY <1>5 DEF Desktop!Wake, TailInv
  <2> QED BY <2>1, <1>5 DEF Desktop!Wake, TailInv
<1>6. CASE rotations = 0 /\ Desktop!ReadLine
  BY <1>6, ReadKeepsInv
<1>7. CASE Desktop!ReadEnds \/ UNCHANGED Desktop!tailVars
  BY <1>7 DEF Desktop!ReadEnds, Desktop!tailVars, TailInv
<1> QED BY <1>1, <1>2, <1>3, <1>4, <1>5, <1>6, <1>7 DEF Desktop!TailNext, TailInv

(* The tailer starts at the end of the file with an empty window.          *)
LEMMA TailStarts == Desktop!TailInit => TailInv
<1> SUFFICES ASSUME Desktop!TailInit PROVE TailInv
  OBVIOUS
<1>1. rotations = 0 /\ written = 0 /\ entries = <<>> /\ emitted = <<>> /\ position = Len(file) /\ skipped = Len(file)
  BY DEF Desktop!TailInit
<1>2. <<<<0, 2>>>> \in Seq(Piece) /\ <<>> \in Seq(Piece) /\ <<>> \in Seq(Seq(Piece))
  BY DEF Piece
<1>3. file \in Seq(Piece)
  BY <1>2 DEF Desktop!TailInit
<1>4. Len(file) \in Nat /\ SubSeq(file, Len(file) + 1, Len(file)) = <<>>
  BY <1>3
<1>5. Desktop!FlattenSeq(<<>>) = <<>> /\ <<>> \o <<>> = <<>>
  <2>1. FlattenSeq(<<>>) = <<>>
    BY DEF FlattenSeq
  <2>2. <<>> \o <<>> = <<>>
    BY <1>2, ConcatEmptySeq
  <2> QED BY <2>1, <2>2, SameFlatten
<1>6. emitted = <<>> \o Desktop!FlattenSeq(entries)
  BY <1>1, <1>5
<1>7. \E gone \in Seq(Piece) : emitted = gone \o Desktop!FlattenSeq(entries)
  BY <1>2, <1>6
<1>8. skipped \in 0..position /\ position \in 0..Len(file) /\ emitted = SubSeq(file, skipped + 1, position)
  BY <1>1, <1>4
<1>9. rotations \in Nat /\ written \in Nat /\ entries \in Seq(Seq(Piece))
  BY <1>1, <1>2
<1> QED BY <1>3, <1>7, <1>8, <1>9 DEF TailInv

(* The window is then the end of what was emitted.                         *)
LEMMA TailInvShows == TailInv => Desktop!EveryPieceOnce
<1> SUFFICES ASSUME TailInv, rotations = 0
             PROVE  /\ emitted = SubSeq(file, skipped + 1, position)
                    /\ Desktop!IsSuffix(Desktop!FlattenSeq(entries), emitted)
  BY DEF Desktop!EveryPieceOnce
<1>1. PICK gone \in Seq(Piece) : emitted = gone \o FlattenSeq(entries)
  BY SameFlatten DEF TailInv
<1>2. FlattenSeq(entries) \in Seq(Piece)
  BY FlattenType DEF TailInv
<1>3. IsSuffix(FlattenSeq(entries), emitted)
  BY <1>1, <1>2, SuffixOfConcat
<1>4. Desktop!IsSuffix(FlattenSeq(entries), emitted)
  BY <1>3 DEF IsSuffix, IsPrefix, Reverse, Desktop!IsSuffix, Desktop!IsPrefix, Desktop!Reverse
<1> QED BY <1>4, SameFlatten DEF TailInv

(* The operator's view starts with nothing seen and nothing logged.        *)
LEMMA HealthStarts == ASSUME Health!HealthAssumption, Health!Init PROVE HealthInv
<1>1. /\ clock = 0 /\ wakes = 0 /\ recorded = {} /\ beating = FALSE /\ lastLogged = -1
      /\ beats = [v \in Watched |-> -1] /\ seen = [v \in Watched |-> 0]
  BY DEF Health!Init, Health!None
<1>2. beats \in [Watched -> Int] /\ seen \in [Watched -> Int] /\ lastLogged \in Int
  BY <1>1
<1>3. \A v \in Watched : seen[v] <= clock /\ beats[v] = Health!None
  BY <1>1 DEF Health!None
<1>4. (clock \in Nat /\ wakes \in Nat /\ recorded \subseteq Watched) /\ beating = FALSE
  BY <1>1
<1> QED BY <1>2, <1>3, <1>4 DEF HealthInv

(* What the operator is shown is true, whatever runs, stops and fails: no  *)
(* absent venue is healthy, no shortage goes quiet, and no piece of a log  *)
(* is lost or doubled, for any intervals and any size of the window.       *)
THEOREM OperatorIsToldTheTruth == Spec => []OperatorSeesTruth
<1>1. Init => HealthInv /\ TailInv
  BY HealthStarts, TailStarts, PartsAssumption DEF Init
<1>2. HealthInv /\ TailInv /\ [Next]_vars => HealthInv' /\ TailInv'
  BY HealthSteps, HealthStepKeepsInv, TailSteps, TailStepKeepsInv, PartsAssumption
<1>3. HealthInv /\ TailInv => OperatorSeesTruth
  BY HealthInvShows, TailInvShows, PartsAssumption DEF OperatorSeesTruth
<1> QED BY <1>1, <1>2, <1>3, PTL DEF Spec
=============================================================================
