--------------------------- MODULE VendorPurchase ---------------------------
(* Buying vendor files: price, check against the cap, commit to the ledger on *)
(* disk, download into a .partial file, rename. Several processes may buy,    *)
(* and each can fail or be killed between any two of these steps.             *)
(* Source: data/databento/budget.py, ingest.py                                *)
EXTENDS Integers, FiniteSets, FiniteSetsExt

CONSTANTS Buyers, Files,
          Ranges,     \* the files that cover a range of days
          Price,      \* Price[f]: the vendor's estimate, or Unpriced
          Unpriced, Cap,
          MaxOrders   \* bound on the downloads begun
PurchaseAssumption ==
  /\ IsFiniteSet(Buyers) /\ IsFiniteSet(Files) /\ Files # {}
  /\ Unpriced \notin Nat /\ Price \in [Files -> Nat \cup {Unpriced}] /\ Cap \in Nat

VARIABLES ledger,     \* ledger[f]: committed charges for f
          issued,     \* issued[f]: requests sent, each one charged by the vendor
          at, wants,  \* each buyer's step and file
          partial, final, \* the download a name leads to: <<buyer, file>>, or None
          body,       \* what each download has written
          raced       \* history: names of the races between buyers
pvars == <<ledger, issued, at, wants, partial, final, body, raced>>

None == <<>>
Downloads == Buyers \X Files
Spent == MapThenSumSet(LAMBDA f : ledger[f] * Price[f], {f \in Files : Price[f] # Unpriced})

Init == /\ ledger = [f \in Files |-> 0] /\ issued = [f \in Files |-> 0]
        /\ at = [b \in Buyers |-> "idle"] /\ wants = [b \in Buyers |-> CHOOSE f \in Files : TRUE]
        /\ partial = [f \in Files |-> None] /\ final = [f \in Files |-> None]
        /\ body = [d \in Downloads |-> "nothing"] /\ raced = {}

Goto(b, step) == at' = [at EXCEPT ![b] = step]
Others(b, steps) == \E c \in Buyers \ {b} : at[c] \in steps

\* A file that exists is refused; the others are priced, for nothing.  The
\* file of a month (fetch_range) and that of a day in it are two files.
Ask(b, f) == /\ at[b] = "idle" /\ final[f] = None /\ Goto(b, "priced")
             /\ wants' = [wants EXCEPT ![b] = f]
             /\ UNCHANGED <<ledger, issued, partial, final, body, raced>>
Quote(b, f)      == f \notin Ranges /\ Ask(b, f)
QuoteRange(b, f) == f \in Ranges /\ Ask(b, f)

\* check_affordable: against everything committed so far.
Affordable(f) == Price[f] # Unpriced /\ Price[f] <= Cap - Spent
Check(b) == /\ at[b] = "priced"
            /\ Goto(b, IF Affordable(wants[b]) THEN "cleared" ELSE "idle")
            /\ raced' = IF Others(b, {"cleared"}) THEN raced \cup {"cap"} ELSE raced
            /\ UNCHANGED <<ledger, issued, wants, partial, final, body>>
\* Mutant: a file bought before is not noted again.
ChargeOnce(f) == ledger' = [ledger EXCEPT ![f] = 1]
Charge(f) == ledger' = [ledger EXCEPT ![f] = @ + 1]
Commit(b) == /\ at[b] = "cleared" /\ Goto(b, "committed") /\ Charge(wants[b])
             /\ UNCHANGED <<issued, wants, partial, final, body, raced>>

\* _download_to_file: drop an old .partial, ask, and write a new one.
Download(b) ==
  LET f == wants[b] IN
  /\ at[b] = "committed" /\ Goto(b, "streaming")
  /\ MapThenSumSet(LAMBDA g : issued[g], Files) < MaxOrders
  /\ issued' = [issued EXCEPT ![f] = @ + 1]
  /\ partial' = [partial EXCEPT ![f] = <<b, f>>]
  /\ body' = [body EXCEPT ![<<b, f>>] = "cut"]
  /\ raced' = IF \E c \in Buyers \ {b} : at[c] \in {"streaming", "delivered"} /\ wants[c] = f
              THEN raced \cup {"file"} ELSE raced
  /\ UNCHANGED <<ledger, wants, final>>
Deliver(b) == /\ at[b] = "streaming" /\ Goto(b, "delivered")
              /\ body' = [body EXCEPT ![<<b, wants[b]>>] = "whole"]
              /\ UNCHANGED <<ledger, issued, wants, partial, final, raced>>
\* partial.replace(target), whatever is under the .partial name by now.
Rename(b) ==
  LET f == wants[b] IN
  /\ at[b] = "delivered" /\ Goto(b, "idle")
  /\ final' = [final EXCEPT ![f] = IF partial[f] = None THEN @ ELSE partial[f]]
  /\ partial' = [partial EXCEPT ![f] = None]
  /\ UNCHANGED <<ledger, issued, wants, body, raced>>
\* An exception in the vendor's client: the .partial file is removed.
DownloadFails(b) == /\ at[b] = "streaming" /\ Goto(b, "idle")
                    /\ partial' = [partial EXCEPT ![wants[b]] = None]
                    /\ UNCHANGED <<ledger, issued, wants, final, body, raced>>
Kill(b) == /\ at[b] # "idle" /\ Goto(b, "idle")
           /\ UNCHANGED <<ledger, issued, wants, partial, final, body, raced>>

Next == \E b \in Buyers :
          \/ \E f \in Files : Quote(b, f) \/ QuoteRange(b, f)
          \/ Check(b) \/ Commit(b) \/ Download(b) \/ Deliver(b) \/ Rename(b)
          \/ DownloadFails(b) \/ Kill(b)
Spec == Init /\ [][Next]_pvars

-----------------------------------------------------------------------------
(* The ledger is never optimistic: whatever fails or is killed, it holds a    *)
(* charge for every request that was sent. While no two buyers are between    *)
(* check and commit at once, what it holds stays within the cap.              *)
RequestsAreCharged == \A f \in Files : issued[f] <= ledger[f]
LedgerIsPessimistic == RequestsAreCharged /\ ("cap" \in raced \/ Spent <= Cap)

(* A file under its final name is a whole delivery, unless two buyers were    *)
(* downloading the same file at once.                                         *)
BoughtFilesWhole ==
  \A f \in Files : final[f] # None => body[final[f]] = "whole" \/ "file" \in raced

(* Stated by budget.py, "the ceiling is a real ceiling rather than a          *)
(* per-process convention", and broken by two buyers who both check before    *)
(* either commits.                                                            *)
CapIsReal == Spent <= Cap
=============================================================================
