---------------------------- MODULE FetchWindow -----------------------------
(***************************************************************************)
(* Which of an account's transactions a cycle looks at again, day by day:  *)
(* the fetch window of sync/engine.py (cursor, overlap, backfill, widened  *)
(* for rows still PENDING), the provider's and the engine's cutoffs, the   *)
(* pruning of old rows after each cycle, and the account mapping that may  *)
(* be disabled, removed and made again in between.                         *)
(*                                                                         *)
(* One account, of credit card transactions, with pending_import_enabled:  *)
(* a transaction may be held before it is booked, under a key of its own,  *)
(* and a hold may be voided.  The bank dates a transaction once.  What a   *)
(* cycle makes of what it looks at is SyncEngine's subject; here it books  *)
(* it, row by row, and finds a booked transaction's hold when it has one.  *)
(***************************************************************************)
EXTENDS Naturals

CONSTANTS
  Tx,         (* transactions of the account                               *)
  Backfill,   (* config: initial_backfill_days                             *)
  Overlap,    (* config: lookback_overlap_hours, in days                   *)
  Retention,  (* config: retention_days                                    *)
  Late,       (* how many days after its date a transaction may show up    *)
  MaxDay,     (* bound: the last day                                       *)
  None

(* What the validator of config.py demands, among others.                  *)
ASSUME WindowAssumption ==
  /\ Backfill \in Nat /\ Overlap \in Nat /\ Retention \in Nat /\ Late \in Nat
  /\ Retention >= Backfill + Overlap
  /\ MaxDay \in Nat /\ None \notin Nat

Day == 0..MaxDay
Key == {"hold", "final"}
NoRow == [status |-> "none", first |-> 0]

VARIABLES
  today,
  bank,     (* what the bank knows of each transaction                     *)
  date,     (* the date it gives it                                        *)
  row,      (* tracked_transactions: status, day of first_seen_at          *)
  entries,  (* the keys under which YNAB has an entry for a transaction    *)
  cursor,   (* account_cursors.last_synced_at                              *)
  mapping,  (* the account's row of account_mappings                       *)
  pruned    (* transactions whose row was pruned                           *)

outside == <<today, bank, date>>
vars == <<today, bank, date, row, entries, cursor, mapping, pruned>>

Init ==
  /\ today = 0
  /\ bank = [t \in Tx |-> "none"] /\ date = [t \in Tx |-> None]
  /\ row = [t \in Tx |-> NoRow] /\ entries = [t \in Tx |-> {}]
  /\ cursor = None /\ mapping = "enabled" /\ pruned = {}

Less(m, n)    == IF m > n THEN m - n ELSE 0
Greater(m, n) == IF m > n THEN m ELSE n

-----------------------------------------------------------------------------
(* Mutated forms, each a plausible bug in the definition it is named after.*)

(* The window is not widened for rows still waiting.                       *)
Waiting_Nobody == {}

(* Rows go as soon as ordinary windows end there: one day too early.       *)
Expired_Early(t, r) == r.status = "BOOKED" /\ date[t] + Backfill <= today

-----------------------------------------------------------------------------
(* The bank.                                                               *)
Tick == today < MaxDay /\ today' = today + 1
        /\ UNCHANGED <<bank, date, row, entries, cursor, mapping, pruned>>

Appear(t) ==
  /\ bank[t] = "none"
  /\ \E st \in {"held", "booked"} : bank' = [bank EXCEPT ![t] = st]
  /\ \E d \in Less(today, Late)..today : date' = [date EXCEPT ![t] = d]
  /\ UNCHANGED <<today, row, entries, cursor, mapping, pruned>>

BooksOrVoids(t) ==
  /\ bank[t] = "held"
  /\ \E st \in {"booked", "void"} : bank' = [bank EXCEPT ![t] = st]
  /\ UNCHANGED <<today, date, row, entries, cursor, mapping, pruned>>

-----------------------------------------------------------------------------
(* compute_since: the overlap before the last successful cycle, but no     *)
(* further back than the backfill.                                         *)
CursorSince ==
  IF cursor = None THEN Less(today, Backfill)
  ELSE Greater(Less(cursor, Overlap), Less(today, Backfill))

(* get_earliest_pending_first_seen and _compute_fetch_windows: a row still *)
(* PENDING widens the window to the day it was first seen.                 *)
Waiting == {t \in Tx : row[t].status = "PENDING"}
InWindow(d) == d >= CursorSince \/ \E t \in Waiting : d >= row[t].first

(* provider.fetch asks for the window and fetch_and_classify applies it.   *)
Observed == {t \in Tx : bank[t] \in {"held", "booked"} /\ InWindow(date[t])}

(* What a cycle makes of t: a row for what is new, the hold's row settled  *)
(* when t has booked, or nothing.  New is what has no row, and it is       *)
(* submitted under the key the bank shows: YNAB has one entry per key.     *)
KeyOf(t)   == IF bank[t] = "held" THEN "hold" ELSE "final"
New(t)     == row[t] = NoRow
Settles(t) == row[t].status = "PENDING" /\ bank[t] = "booked"

RowAfter(t) ==
  IF New(t) THEN [status |-> IF bank[t] = "held" THEN "PENDING" ELSE "BOOKED",
                  first |-> today]
  ELSE IF Settles(t) THEN [row[t] EXCEPT !.status = "BOOKED"]
  ELSE row[t]

(* prune_booked_transactions.                                              *)
Expired(t, r) == r.status = "BOOKED" /\ date[t] + Retention < today

(* The rows of S written, one after the other, and then the old ones pruned*)
(* unless the process dies first.                                          *)
Written(S) == [t \in Tx |-> IF t \in S THEN RowAfter(t) ELSE row[t]]

Process(S, prune) ==
  LET gone == {t \in Tx : prune /\ Expired(t, Written(S)[t])}
  IN /\ row' = [t \in Tx |-> IF t \in gone THEN NoRow ELSE Written(S)[t]]
     /\ entries' = [t \in Tx |-> IF t \in S /\ New(t) THEN entries[t] \cup {KeyOf(t)}
                                 ELSE entries[t]]
     /\ pruned' = (pruned \ S) \cup gone

CycleSucceeds ==
  /\ mapping = "enabled"
  /\ Process(Observed, TRUE)
  /\ cursor' = today
  /\ UNCHANGED <<outside, mapping>>

(* The fetch or the submission fails, or the process dies: the cursor     *)
(* stays.                                                                  *)
CycleFails ==
  /\ mapping = "enabled"
  /\ \E S \in SUBSET Observed, prune \in BOOLEAN : Process(S, prune)
  /\ UNCHANGED <<outside, cursor, mapping>>

(* Without an enabled mapping the account is not looked at, only pruned.   *)
CycleWithout ==
  /\ mapping # "enabled"
  /\ Process({}, TRUE)
  /\ UNCHANGED <<outside, cursor, mapping>>

-----------------------------------------------------------------------------
(* The account's mapping may change at any time, also while a cycle that   *)
(* reads it is under way; no change touches its rows or its cursor.        *)
MappingBecomes(m) ==
  /\ mapping' = m
  /\ UNCHANGED <<outside, row, entries, cursor, pruned>>

UpdateMapping ==
  \/ mapping = "enabled" /\ MappingBecomes("disabled")
  \/ mapping = "disabled" /\ MappingBecomes("enabled")

(* delete_mapping, delete_all_mappings.                                    *)
DeleteMapping == mapping # "absent" /\ MappingBecomes("absent")

CreateMapping ==
  mapping = "absent" /\ \E m \in {"enabled", "disabled"} : MappingBecomes(m)

(* seed_mappings_from_config at a restart: an empty table is filled from   *)
(* the configuration, also one the user has emptied.                       *)
Restart == mapping = "absent" /\ MappingBecomes("enabled")

Next ==
  \/ Tick \/ CycleSucceeds \/ CycleFails \/ CycleWithout
  \/ UpdateMapping \/ DeleteMapping \/ CreateMapping \/ Restart
  \/ \E t \in Tx : Appear(t) \/ BooksOrVoids(t)

Spec == Init /\ [][Next]_vars

-----------------------------------------------------------------------------
(* Properties.                                                             *)

TypeOK ==
  /\ today \in Day
  /\ bank \in [Tx -> {"none", "held", "booked", "void"}]
  /\ date \in [Tx -> Day \cup {None}]
  /\ row \in [Tx -> [status : {"none", "PENDING", "BOOKED"}, first : Day]]
  /\ entries \in [Tx -> SUBSET Key]
  /\ cursor \in Day \cup {None} /\ mapping \in {"enabled", "disabled", "absent"}
  /\ pruned \subseteq Tx

(* Does some row wait so long that its window reaches pruned rows?         *)
Widened == \E t \in Waiting : row[t].first + Retention < today

(* What was pruned is never looked at again, and so never submitted again, *)
(* by a window of ordinary width, whatever the cursor, the failures and the*)
(* edits of the mapping.                                                   *)
PrunedStaysOut == pruned \cap Observed # {} => Widened

(* A pruned transaction submitted again under the key it booked under, its *)
(* hold having another, is in YNAB twice.                                  *)
OneEntryPerTx == \A t \in Tx : entries[t] # Key

(* The first successful cycle after a hold has booked settles its row,     *)
(* however long that took and whatever was pruned or disabled meanwhile,   *)
(* unless the hold was first seen on a day after its date.                 *)
HoldsAreSettled ==
  [][CycleSucceeds =>
       \A t \in Tx : Settles(t) => row'[t].status # "PENDING" \/ date[t] < row[t].first]_vars

-----------------------------------------------------------------------------
(* The inductive invariant behind both: what the bank reports has a date,  *)
(* what was pruned is older than the retention.                            *)
Dated == \A t \in Tx : bank[t] # "none" <=> date[t] # None
RowsAreKnown == \A t \in Tx : row[t] # NoRow => bank[t] # "none"
PrunedIsOld == \A t \in pruned : date[t] # None /\ date[t] + Retention < today

WindowInv == TypeOK /\ Dated /\ RowsAreKnown /\ PrunedIsOld
=============================================================================
