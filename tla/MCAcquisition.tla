--------------------------- MODULE MCAcquisition ---------------------------
(***************************************************************************)
(* Where the data comes from beside the recorder, one part per behaviour:  *)
(* funding pages, monthly archives, purchases from the vendor, the days of *)
(* a vendor's file, and the trades extracted from a recording.             *)
(***************************************************************************)
EXTENDS Integers, Sequences, FiniteSets

CONSTANTS
    Coins, Limit, LastHour, PageRuns, PageFailures,                      \* FundingPages
    Symbols, Months, Size, Pegged, Volume, Listings, Splices, Retries,
    MaxThreads, MaxStops, MaxFaults,                                     \* MonthFiles
    Ranges, Buyers, Wares, Price, Unpriced, Cap, MaxOrders,              \* VendorPurchase
    Starts, Offsets, FileDays, Rolls, Steps, Grace, Quiet, Lookback,
    Horizon, MinPct, MaxRecords,                                         \* VendorDays
    Venues, Instruments, Unreadable, MaxTrades, MaxConnections, TradeRuns     \* TradeExtraction
MCVolume == [a |-> 3, b |-> 2, c |-> 1, p |-> 4]
MCListings == [a : {{}, {1, 3}}, b : {{1}}, c : {{1, 3}}, p : {{1, 3}}]
MCSplices == {<<"a", 2>>, <<"c", 3>>}
MCPrice == [x |-> 2, y |-> 3, z |-> Unpriced]
MCSteps == {-2, 3, 8, 22}

VARIABLES
    part,
    published, hour, page, lines, at, coin, cursor, body, got, history, begun, lives, failures,
    lost,
    archive, phase, members, spans, loaded, whole, partial, manifest, job, attempt, stops, faults,
    cutByNet, dropped,
    ledger, issued, step, wants, draft, final, content, raced,
    first, behind, rolls, recv, crossed, report, prev, open, done, parts, failed,
    venue, executed, connected, connections, sent, raw, stage, runs, pos, rows, files, upto

Pages == INSTANCE FundingPages WITH
    MaxRuns <- PageRuns, MaxFailures <- PageFailures,
    manifest <- lines, seen <- got, runs <- lives, dropped <- lost
Archives == INSTANCE MonthFiles WITH Archives <- Listings, final <- whole
Purchase == INSTANCE VendorPurchase WITH
    Files <- Wares, at <- step, partial <- draft, body <- content
Vendor == INSTANCE VendorDays WITH Days <- FileDays
Trades == INSTANCE TradeExtraction WITH Symbols <- Instruments, MaxRuns <- TradeRuns

ASSUME PartsAssumption ==
    /\ Pages!LimitAssumption /\ Archives!MonthsAssumption /\ Purchase!PurchaseAssumption
    /\ Vendor!VendorDaysAssumption /\ Trades!TradeAssumption

pageVars == <<published, hour, page, lines, at, coin, cursor, body, got, history, begun,
              lives, failures, lost>>
archiveVars == <<archive, phase, members, spans, loaded, whole, partial, manifest, job, attempt,
                 stops, faults, cutByNet, dropped>>
purchaseVars == <<ledger, issued, step, wants, draft, final, content, raced>>
vendorVars == <<first, behind, rolls, recv, crossed, report, prev, open, done, parts, failed>>
tradeVars == <<venue, executed, connected, connections, sent, raw, stage, runs, pos, rows,
               files, upto>>
vars == <<part, pageVars, archiveVars, purchaseVars, vendorVars, tradeVars>>

(* A part that does not run stays in one of its initial states.            *)
Init ==
    /\ part \in {"pages", "archives", "purchase", "vendor", "trades"}
    /\ Pages!Init /\ Archives!Init /\ Purchase!Init /\ Vendor!Init /\ Trades!Init
    /\ part # "archives" => archive = CHOOSE a \in Listings : TRUE
    /\ part # "vendor" => 
           first = (CHOOSE d \in Starts : TRUE) /\ behind = (CHOOSE h \in Offsets : TRUE) /\ rolls = {}
    /\ part # "trades" => venue = CHOOSE v \in Venues : TRUE
Next ==
    /\ UNCHANGED part
    /\ \/ /\ part = "pages" /\ Pages!Next
          /\ UNCHANGED <<archiveVars, purchaseVars, vendorVars, tradeVars>>
       \/ /\ part = "archives" /\ Archives!Next
          /\ UNCHANGED <<pageVars, purchaseVars, vendorVars, tradeVars>>
       \/ /\ part = "purchase" /\ Purchase!Next
          /\ UNCHANGED <<pageVars, archiveVars, vendorVars, tradeVars>>
       \/ /\ part = "vendor" /\ Vendor!Next
          /\ UNCHANGED <<pageVars, archiveVars, purchaseVars, tradeVars>>
       \/ /\ part = "trades" /\ Trades!Next
          /\ UNCHANGED <<pageVars, archiveVars, purchaseVars, vendorVars>>
Spec == Init /\ [][Next]_vars

(* A finished funding history is what the venue had published when it was  *)
(* asked for, whatever pages earlier runs left, and every page on disk     *)
(* that is whole has its line in the manifest, but for a kill.             *)
PagesAreTheVenues ==
    part = "pages" => Pages!SeriesComplete /\ Pages!PagesVouchedFor

(* A loaded history has exactly the months the archive has, and every file *)
(* under its final name is whole and has its line, but for the faults the  *)
(* code cannot see.                                                        *)
HistoriesAreTheArchives ==
    part = "archives" => Archives!HistoryIsTheArchives /\ Archives!FinalsVouchedFor

(* The ledger never shows less than the vendor charged, and a bought file  *)
(* is one whole download, whoever else was buying.                         *)
PurchasesAreAccounted ==
    part = "purchase" => Purchase!LedgerIsPessimistic /\ Purchase!BoughtFilesWhole

(* A vendor day's coverage is its fresh time, what is not excluded is safe *)
(* to label, and the ingested partitions hold each record in its own day.  *)
VendorDaysExact ==
    part = "vendor" =>
        Vendor!CoverageIsFreshTime /\ Vendor!UnexcludedIsSafe /\ Vendor!PartitionsExact

(* A trades file holds every trade of the recording once and in order,     *)
(* across reconnects that repeat trades and runs that die.                 *)
TradesOnceInOrder == part = "trades" => Trades!TradesOnceInOrder
=============================================================================
