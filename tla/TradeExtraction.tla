--------------------------- MODULE TradeExtraction ---------------------------
(* From trades executed on a venue to one file of trades per symbol and day.  *)
(* A recorder that reconnects is sent a snapshot of what traded before; one   *)
(* pass over the recording parses the messages and feeds a writer per symbol; *)
(* the writers are closed one by one, and the pass can be killed and rerun,   *)
(* also while the day is still being recorded.                                *)
(* Source: data/trades/parse.py, extract.py; data/databento/ingest.py.        *)
(* Abstracted: a trade is its number in the order of execution; row groups    *)
(* and the in-progress file are DayRows'.  Messages of other channels, which  *)
(* yield no row, are left out.                                                *)
EXTENDS Integers, Sequences, SequencesExt, FiniteSetsExt

CONSTANTS Venues,      \* of kraken, coinbase, hyperliquid, cme
          Symbols,     \* integers: writers are closed in symbol order
          Unreadable,  \* a trade whose price or quantity does not parse
          MaxTrades, MaxConnections, MaxRuns   \* bounds
TradeAssumption == /\ Venues \subseteq {"kraken", "coinbase", "hyperliquid", "cme"}
                   /\ Unreadable \notin Symbols

VARIABLES venue,
          executed,    \* executed[i]: the symbol of the i-th trade
          connected, connections,
          sent,        \* how many trades this connection has delivered
          raw,         \* the recording: messages, each a sequence of events
          stage, runs, \* "idle", "read" or "close"
          pos,         \* records read
          rows,        \* rows[s]: appended to the writer of s, if it is open
          files, upto  \* final files, and how many records each one read
vars == <<venue, executed, connected, connections, sent, raw,
          stage, runs, pos, rows, files, upto>>
capture == <<venue, executed, connected, connections, sent, raw>>
dataset == <<stage, runs, pos, rows, files, upto>>

Event(type, trades) == [type |-> type, trades |-> trades]
Empty == [s \in Symbols |-> <<>>]

Init == /\ venue \in Venues
        /\ executed = <<>> /\ connected = FALSE /\ connections = 0 /\ sent = 0 /\ raw = <<>>
        /\ stage = "idle" /\ runs = 0 /\ pos = 0 /\ rows = Empty
        /\ files = Empty /\ upto = [s \in Symbols |-> 0]

-----------------------------------------------------------------------------
(* The venue.  Kraken and Coinbase answer a subscription with a snapshot of   *)
(* the trades before it; Coinbase bundles events; a purchased file holds one  *)
(* trade a record.                                                            *)
Trade(s) == /\ Len(executed) < MaxTrades /\ executed' = Append(executed, s)
            /\ venue = "cme" => s # Unreadable
            /\ UNCHANGED <<venue, connected, connections, sent, raw, dataset>>

Connect ==
  LET before == [i \in 1..Len(executed) |-> i] IN
  /\ ~connected /\ connections < MaxConnections
  /\ connected' = TRUE /\ connections' = connections + 1 /\ sent' = Len(executed)
  /\ raw' = IF before = <<>> \/ venue \in {"hyperliquid", "cme"} THEN raw
            ELSE Append(raw, <<Event("snapshot", before)>>)
  /\ UNCHANGED <<venue, executed, dataset>>

Deliver ==
  LET new == [i \in 1..(Len(executed) - sent) |-> sent + i] IN
  /\ connected /\ new # <<>> /\ sent' = Len(executed)
  /\ venue = "cme" => runs = 0      \* a purchased file is complete
  /\ raw' = CASE venue = "coinbase" ->
                   Append(raw, [i \in DOMAIN new |-> Event("update", <<new[i]>>)])
              [] venue = "cme" -> raw \o [i \in DOMAIN new |-> <<Event("update", <<new[i]>>)>>]
              [] OTHER -> Append(raw, <<Event("update", new)>>)
  /\ UNCHANGED <<venue, executed, connected, connections, dataset>>

Disconnect == /\ connected /\ connected' = FALSE
              /\ UNCHANGED <<venue, executed, connections, sent, raw, dataset>>

-----------------------------------------------------------------------------
\* The trades of certain symbols, one by one, in the order they are listed.
Of(symbols, trades) ==
  FlattenSeq([k \in DOMAIN trades |->
    IF executed[trades[k]] \in symbols THEN <<trades[k]>> ELSE <<>>])
\* Items without a usable price or quantity are skipped.
Readable(trades) == Of(Symbols, trades)

\* Mutant: the snapshot of a new subscription counts as trades.
KrakenRowsAll(message) == Readable(message[1].trades)
KrakenRows(message) ==
  IF message[1].type # "update" THEN <<>> ELSE Readable(message[1].trades)

CoinbaseRows(message) ==
  FlattenSeq([k \in DOMAIN message |->
    IF message[k].type # "update" THEN <<>> ELSE Readable(message[k].trades)])

HyperliquidRows(message) == Readable(message[1].trades)
VendorRow(record) == record[1].trades

Parse(message) == CASE venue = "kraken"      -> KrakenRows(message)
                    [] venue = "coinbase"    -> CoinbaseRows(message)
                    [] venue = "hyperliquid" -> HyperliquidRows(message)
                    [] venue = "cme"         -> VendorRow(message)

\* A run starts from the first record with no writer open.
Start == /\ stage = "idle" /\ runs < MaxRuns /\ runs' = runs + 1
         /\ stage' = "read" /\ pos' = 0 /\ rows' = Empty
         /\ UNCHANGED <<capture, files, upto>>

AppendRows(new) == rows' = [s \in Symbols |-> rows[s] \o Of({s}, new)]

\* One record: parsed, its rows appended, writers opened as needed.
Read == /\ stage = "read" /\ pos < Len(raw) /\ pos' = pos + 1
        /\ AppendRows(Parse(raw[pos + 1]))
        /\ UNCHANGED <<capture, stage, runs, files, upto>>

ReachEnd == /\ stage = "read" /\ pos = Len(raw) /\ stage' = "close"
            /\ UNCHANGED <<capture, runs, pos, rows, files, upto>>

\* The writers that are open, in the order in which they are closed.
OpenWriters == {s \in Symbols : rows[s] # <<>>}
FirstWriter == IF venue = "cme"
               THEN CHOOSE s \in OpenWriters : \A t \in OpenWriters : rows[s][1] <= rows[t][1]
               ELSE Min(OpenWriters)

\* Flush and rename; a symbol without rows gets no file.
Close == /\ stage = "close" /\ OpenWriters # {}
         /\ files' = [files EXCEPT ![FirstWriter] = rows[FirstWriter]]
         /\ upto' = [upto EXCEPT ![FirstWriter] = pos]
         /\ rows' = [rows EXCEPT ![FirstWriter] = <<>>]
         /\ UNCHANGED <<capture, stage, runs, pos>>

Finish == /\ stage = "close" /\ OpenWriters = {} /\ stage' = "idle"
          /\ UNCHANGED <<capture, runs, pos, rows, files, upto>>
Kill == /\ stage # "idle" /\ stage' = "idle" /\ rows' = Empty
        /\ UNCHANGED <<capture, runs, pos, files, upto>>

Next == \/ \E s \in Symbols \cup {Unreadable} : Trade(s)
        \/ Connect \/ Deliver \/ Disconnect
        \/ Start \/ Read \/ ReachEnd \/ Close \/ Finish \/ Kill
Spec == Init /\ [][Next]_vars

-----------------------------------------------------------------------------
Reported(i, n) == \E k \in 1..n : \E e \in DOMAIN raw[k] :
                    raw[k][e].type = "update" /\ i \in Range(raw[k][e].trades)

(* A file of trades holds each trade of its symbol once and in the order of   *)
(* execution, however often the recorder reconnected, and every one that was  *)
(* reported live in the records the run read, whichever run was killed before *)
(* ("snapshot-type trade messages are deliberately skipped"; extract.py).     *)
TradesOnceInOrder ==
  \A s \in Symbols : files[s] # <<>> =>
    /\ \A j, k \in DOMAIN files[s] : j < k => files[s][j] < files[s][k]
    /\ Range(files[s]) = {i \in DOMAIN executed : executed[i] = s /\ Reported(i, upto[s])}
=============================================================================
