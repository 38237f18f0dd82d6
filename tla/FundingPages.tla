---------------------------- MODULE FundingPages ----------------------------
(* Paged funding history of a universe of coins: full pages are reused from   *)
(* disk, the short tail page is asked for again, every page has a manifest    *)
(* line. The process may be killed between any two file operations.           *)
(* Source: data/archive/hyperliquid.py, http.py, manifest.py and              *)
(* research/cross/acquire.py                                                  *)
EXTENDS Integers, Sequences, SequencesExt, FiniteSets, FiniteSetsExt

CONSTANTS Coins, Limit, LastHour,
          MaxRuns, MaxFailures      \* bounds: runs of the job, failed requests

\* A page of a single row would always look like the last one.
LimitAssumption == Limit \in Nat /\ Limit > 1 /\ LastHour \in Nat

VARIABLES published,  \* hours the venue has a funding row for (the same for every coin)
          hour,
          page,       \* page[c, start]: the file under that key
          manifest,   \* <<coin, start, rows>> of every line
          at,         \* where the job stands
          coin, cursor, body, seen, \* the fetch_funding in progress
          history,    \* history[c] of the run: its rows, or an error
          begun,      \* what was published when this coin's fetch began
          runs, failures,
          dropped     \* history: lines that a kill kept out of the manifest
fvars == <<published, hour, page, manifest, at, coin, cursor, body, seen, history, begun, runs, failures, dropped>>
fetch == <<coin, cursor, seen, begun>>

Hours  == 1..LastHour
Keys   == Coins \X (0..(LastHour + 1))
\* A file that is absent or empty, one cut short, or one that parses.
Absent == [state |-> "absent", rows |-> <<>>]
Cut    == [state |-> "cut", rows |-> <<>>]
Whole(rows) == [state |-> "whole", rows |-> rows]
Missing  == [error |-> FALSE, rows |-> {}, done |-> FALSE]
Failed   == [error |-> TRUE, rows |-> {}, done |-> TRUE]
Got(set) == [error |-> FALSE, rows |-> set, done |-> TRUE]

Key == <<coin, cursor>>
Left == {c \in Coins : ~history[c].done}
\* fundingHistory: the first Limit rows from startTime on.
InOrder(set) == [n \in 1..Cardinality(set) |->
                  CHOOSE t \in set : Cardinality({u \in set : u < t}) = n - 1]
Answer(start) ==
  LET rows == InOrder({t \in published : t >= start})
  IN  IF Len(rows) > Limit THEN SubSeq(rows, 1, Limit) ELSE rows

Init == /\ published = {} /\ hour = 0
        /\ page = [k \in Keys |-> Absent] /\ manifest = {}
        /\ at = "down" /\ coin = CHOOSE c \in Coins : TRUE
        /\ cursor = 0 /\ body = <<>> /\ seen = {}
        /\ history = [c \in Coins |-> Missing] /\ begun = {}
        /\ runs = 0 /\ failures = 0 /\ dropped = {}

\* The next hour passes, with a funding row or (a venue outage) without.
Publish == /\ hour < LastHour /\ hour' = hour + 1
           /\ \/ published' = published \cup {hour + 1}
              \/ UNCHANGED published
           /\ UNCHANGED <<page, manifest, at, body, fetch, history, runs, failures, dropped>>

StartRun == /\ at = "down" /\ runs < MaxRuns /\ runs' = runs + 1
            /\ at' = "next" /\ history' = [c \in Coins |-> Missing]
            /\ UNCHANGED <<published, hour, page, manifest, body, fetch, failures, dropped>>

\* fetch_all: the next coin's fetch_coin, from GENESIS.
NextCoin == /\ at = "next" /\ Left # {}
            /\ coin' = CHOOSE c \in Left : TRUE
            /\ at' = "page" /\ cursor' = 0 /\ seen' = {} /\ begun' = published
            /\ UNCHANGED <<published, hour, page, manifest, body, history, runs, failures, dropped>>
FinishRun == /\ at = "next" /\ Left = {} /\ at' = "down"
             /\ UNCHANGED <<published, hour, page, manifest, body, fetch, history, runs, failures, dropped>>

\* fetch_coin keeps a failure on the coin's record; the other coins go on.
FailCoin == /\ history' = [history EXCEPT ![coin] = Failed] /\ at' = "next"
            /\ UNCHANGED <<published, hour, page, manifest, body, fetch, runs, dropped>>

-----------------------------------------------------------------------------
\* _fetch_page: a full page that parses is used as it is.
\* Mutant: any page on disk is.
ReusableAny(file) == file.state = "whole"
Reusable(file) == file.state = "whole" /\ Len(file.rows) >= Limit
FromCache == /\ at = "page" /\ Reusable(page[Key])
             /\ body' = page[Key].rows /\ at' = "take"
             /\ UNCHANGED <<published, hour, page, manifest, fetch, history, runs, failures, dropped>>
\* orjson refuses a page that is not empty and not whole.
Undecodable == at = "page" /\ page[Key].state = "cut" /\ FailCoin /\ UNCHANGED failures
Asks == at = "page" /\ ~Reusable(page[Key]) /\ page[Key].state # "cut"
\* post_bytes answers after its retries, or gives up.
Ask == /\ Asks /\ body' = Answer(cursor) /\ at' = "open"
       /\ UNCHANGED <<published, hour, page, manifest, fetch, history, runs, failures, dropped>>
AskFails == /\ Asks /\ failures < MaxFailures /\ failures' = failures + 1 /\ FailCoin

\* path.write_bytes: the file is emptied, filled, and then complete.
WriteStep(from, file, to) ==
  /\ at = from /\ at' = to /\ page' = [page EXCEPT ![Key] = file]
  /\ UNCHANGED <<published, hour, manifest, body, fetch, history, runs, failures, dropped>>
OpenPage   == WriteStep("open", Absent, "write")
WritePart  == WriteStep("write", Cut, "rest")
WriteRest  == WriteStep("rest", Whole(body), "record")
RecordPage == /\ at = "record" /\ at' = "take"
              /\ manifest' = manifest \cup {<<coin, cursor, body>>}
              /\ UNCHANGED <<published, hour, page, body, fetch, history, runs, failures, dropped>>

\* fetch_funding: keep the rows; a full page that moves on leads to the next.
LastPage(rows) == rows = <<>> \/ Len(rows) < Limit \/ Last(rows) <= cursor
Take == /\ at = "take"
        /\ LET kept == seen \cup Range(body) IN
             IF LastPage(body)
             THEN /\ history' = [history EXCEPT ![coin] = Got(kept)]
                  /\ at' = "next" /\ seen' = kept /\ UNCHANGED cursor
             ELSE /\ seen' = kept /\ cursor' = Last(body) + 1 /\ at' = "page"
                  /\ UNCHANGED history
        /\ UNCHANGED <<published, hour, page, manifest, body, coin, begun, runs, failures, dropped>>

\* The process is killed; what it had not yet recorded stays unrecorded.
Crash == /\ at # "down" /\ runs < MaxRuns
         /\ at' = "down"
         /\ dropped' = IF at = "record" THEN dropped \cup {<<coin, cursor, body>>} ELSE dropped
         /\ UNCHANGED <<published, hour, page, manifest, body, fetch, history, runs, failures>>

Next == \/ Publish \/ StartRun \/ NextCoin \/ FinishRun \/ FromCache \/ Undecodable
        \/ Ask \/ AskFails \/ OpenPage \/ WritePart \/ WriteRest \/ RecordPage \/ Take \/ Crash
Spec == Init /\ [][Next]_fvars

-----------------------------------------------------------------------------
(* A coin that came through has every hour published before its fetch began,  *)
(* nothing the venue never published, and no hole before its newest row,      *)
(* whatever mix of cached, grown and new pages it was read from.              *)
SeriesComplete ==
  \A c \in Coins : history[c].done /\ ~history[c].error =>
    /\ history[c].rows \subseteq published
    /\ \A t \in published : (\E u \in history[c].rows : t < u) => t \in history[c].rows
    /\ at = "next" /\ c = coin => begun \subseteq history[c].rows

(* A page that parses has a manifest line for exactly its rows, unless it is  *)
(* about to get one or a kill came between the two ("every raw page is stored *)
(* immutably with its own manifest line").                                    *)
PagesVouchedFor ==
  \A k \in Keys : page[k].state = "whole" =>
    LET line == <<k[1], k[2], page[k].rows>>
    IN  line \in manifest \cup dropped \/ (at = "record" /\ k = Key)

(* Stated by acquire.py, "the whole job is resumable", and broken by a page   *)
(* cut short: a coin fails only in a run in which a request failed.           *)
FailuresAreTheVenues ==
  (\E c \in Coins : history[c].error) => failures > 0
=============================================================================
