------------------------------- MODULE Readd -------------------------------
(***************************************************************************)
(* Re-adding transactions resolved as deleted (readd_deleted_transaction   *)
(* in sync/engine.py, mark_readded in sync/state_db.py), on request of the *)
(* web page or the script, possibly several at once and next to the sync   *)
(* cycle that resolves them.                                               *)
(*                                                                         *)
(* A row's original entry and its re-adds are numbered: each has the       *)
(* import_id derived from the row's key and that number, and YNAB takes an *)
(* import_id once.  Of the cycle only the pending->booked correction of    *)
(* these rows is here, one step with its recovery; SyncEngine has the rest.*)
(* A row whose entry is gone may have one other entry, typed by the user   *)
(* while nothing is under way for it, so that it is never a correction's   *)
(* replacement.  The database is not lost.                                 *)
(***************************************************************************)
EXTENDS Naturals

CONSTANTS
  Row,        (* tracked rows                                              *)
  Client,     (* browser tabs and script runs                              *)
  MaxReadds,  (* bound: how often a row is re-added                        *)
  Faults,     (* what may go wrong: see AllFaults                          *)
  Typed,      (* the entry the user types                                  *)
  None

AllFaults == {"lost_reply", "crash", "native_match", "resubmit"}

ASSUME ReaddAssumption ==
  /\ MaxReadds \in Nat /\ Faults \subseteq AllFaults
  /\ Typed \notin Nat /\ None \notin Nat \cup {Typed}

Nth == 0..MaxReadds
Entry == Nth \cup {Typed}

VARIABLES
  settled,     (* rows whose transaction the bank has booked               *)
  ynab,        (* each row's entries: none, live, hidden (a shadow), deleted *)
  cleared,     (* YNAB's cleared flag                                      *)
  table,       (* tracked_transactions                                     *)
  task,        (* the request each client waits for                        *)
  fix,         (* the correction of each row in the cached cycle           *)
  overwritten  (* rows a resubmitted correction took back from a re-add    *)

vars == <<settled, ynab, cleared, table, task, fix, overwritten>>

(* A preauthorised transaction, held by the bank and placed in YNAB.       *)
Init ==
  /\ settled = {}
  /\ ynab = [r \in Row |-> [e \in Entry |-> IF e = 0 THEN "live" ELSE "none"]]
  /\ cleared = [r \in Row |-> [e \in Entry |-> FALSE]]
  /\ table = [r \in Row |-> [status |-> "PENDING", id |-> 0, count |-> 0,
                             cleared |-> FALSE]]
  /\ task = [c \in Client |-> None]
  /\ fix = [r \in Row |-> None]
  /\ overwritten = {}

Undisturbed(r) == fix[r] = None /\ \A c \in Client : task[c] # None => task[c].row # r

-----------------------------------------------------------------------------
(* Mutated forms, each a plausible bug in the definition it is named after.*)

(* The next number is looked up in YNAB instead of the row.                *)
NextNth_Unused(r) ==
  IF \E n \in Nth : ynab[r][n] = "none"
  THEN CHOOSE n \in Nth : ynab[r][n] = "none" /\ \A m \in 0..n : ynab[r][m] = "none" => m = n
  ELSE MaxReadds

(* The id of what was created is tracked, natively matched or not.         *)
VisibleId_Shadow(t) == t.nth

(* The count stays.                                                        *)
Readded_SameCount(row, id) ==
  [row EXCEPT !.id = id, !.status = IF row.cleared THEN "BOOKED" ELSE "PENDING"]

(* The cleared column becomes the status as it is.                         *)
Readded_AsCleared(row, id) ==
  [row EXCEPT !.id = id, !.count = @ + 1,
              !.status = IF row.cleared THEN "cleared" ELSE "uncleared"]

-----------------------------------------------------------------------------
(* The bank and the user.                                                  *)

Settle(r) ==
  /\ settled' = settled \cup {r} /\ r \notin settled
  /\ UNCHANGED <<ynab, cleared, table, task, fix, overwritten>>

UserDeletes(r, e) ==
  /\ ynab[r][e] = "live"
  /\ ynab' = [ynab EXCEPT ![r][e] = "deleted"]
  /\ UNCHANGED <<settled, cleared, table, task, fix, overwritten>>

UserTypes(r) ==
  /\ "native_match" \in Faults
  /\ ynab[r][Typed] = "none" /\ table[r].status = "DELETED" /\ Undisturbed(r)
  /\ ynab' = [ynab EXCEPT ![r][Typed] = "live"]
  /\ UNCHANGED <<settled, cleared, table, task, fix, overwritten>>

-----------------------------------------------------------------------------
(* The cycle's pending->booked correction.                                 *)

Classify(r) ==
  /\ fix[r] = None /\ table[r].status = "PENDING" /\ r \in settled
  /\ fix' = [fix EXCEPT ![r] = table[r].id]
  /\ UNCHANGED <<settled, ynab, cleared, table, task, overwritten>>

(* The PATCH and mark_booked, or the row is resolved as deleted; if another*)
(* call of the submit fails the same correction is submitted again.        *)
Correct(r) ==
  LET e == fix[r]
      there == ynab[r][e] = "live"
  IN /\ e # None
     /\ cleared' = IF there THEN [cleared EXCEPT ![r][e] = TRUE] ELSE cleared
     /\ table' = [table EXCEPT ![r] =
          IF there THEN [@ EXCEPT !.status = "BOOKED", !.cleared = TRUE]
                   ELSE [@ EXCEPT !.status = "DELETED", !.id = e]]
     /\ overwritten' = IF ~there /\ table[r].id # e THEN overwritten \cup {r}
                       ELSE overwritten
     /\ \/ fix' = [fix EXCEPT ![r] = None]
        \/ "resubmit" \in Faults /\ UNCHANGED fix
     /\ UNCHANGED <<settled, ynab, task>>

-----------------------------------------------------------------------------
(* readd_deleted_transaction: check and read the row, create, record.      *)

NextNth(r) == table[r].count + 1

Start(c, r) ==
  /\ task[c] = None
  /\ table[r].status = "DELETED" /\ NextNth(r) \in Nth
  /\ task' = [task EXCEPT ![c] = [row |-> r, nth |-> NextNth(r), step |-> "post",
                                  cleared |-> table[r].cleared, matched |-> FALSE]]
  /\ UNCHANGED <<settled, ynab, cleared, table, fix, overwritten>>

Posting(c) == task[c] # None /\ task[c].step = "post"
New(t) == ynab[t.row][t.nth] = "none"

(* YNAB matches the new transaction with the one the user typed, if any.   *)
Matched(t) == ynab[t.row][Typed] = "live"
VisibleId(t) == IF t.matched THEN Typed ELSE t.nth

Post(c) ==
  LET t == task[c]
      e == IF Matched(t) THEN Typed ELSE t.nth
  IN /\ Posting(c) /\ New(t)
     /\ ynab' = [ynab EXCEPT ![t.row][t.nth] = IF Matched(t) THEN "hidden" ELSE "live"]
     /\ cleared' = [cleared EXCEPT ![t.row][e] = t.cleared \/ Matched(t)]
     /\ \/ task' = [task EXCEPT ![c].step = "record", ![c].matched = Matched(t)]
        \/ "lost_reply" \in Faults /\ task' = [task EXCEPT ![c] = None]
     /\ UNCHANGED <<settled, table, fix, overwritten>>

(* A number used already is refused; a request may fail on its way, too.   *)
PostFails(c) ==
  /\ Posting(c)
  /\ task' = [task EXCEPT ![c] = None]
  /\ UNCHANGED <<settled, ynab, cleared, table, fix, overwritten>>

(* mark_readded, on the row as it is now.                                  *)
Readded(row, id) ==
  [row EXCEPT !.id = id, !.count = @ + 1,
              !.status = IF row.cleared THEN "BOOKED" ELSE "PENDING"]

Record(c) ==
  LET t == task[c]
  IN /\ t # None /\ t.step = "record"
     /\ table' = [table EXCEPT ![t.row] = Readded(@, VisibleId(t))]
     /\ task' = [task EXCEPT ![c] = None]
     /\ UNCHANGED <<settled, ynab, cleared, fix, overwritten>>

Crash ==
  /\ "crash" \in Faults
  /\ task' = [c \in Client |-> None] /\ fix' = [r \in Row |-> None]
  /\ UNCHANGED <<settled, ynab, cleared, table, overwritten>>

Next ==
  \/ \E r \in Row : Settle(r) \/ UserTypes(r) \/ Classify(r) \/ Correct(r)
  \/ \E r \in Row, e \in Entry : UserDeletes(r, e)
  \/ \E c \in Client, r \in Row : Start(c, r)
  \/ \E c \in Client : Post(c) \/ PostFails(c) \/ Record(c)
  \/ Crash

Spec == Init /\ [][Next]_vars

-----------------------------------------------------------------------------
(* Properties.                                                             *)

Task == [row : Row, nth : Nth, step : {"post", "record"}, cleared : BOOLEAN,
         matched : BOOLEAN]

(* The types of the variables; a row's booking_status is one the engine    *)
(* knows.                                                                  *)
TypeOK ==
  /\ settled \subseteq Row /\ overwritten \subseteq Row
  /\ ynab \in [Row -> [Entry -> {"none", "live", "hidden", "deleted"}]]
  /\ cleared \in [Row -> [Entry -> BOOLEAN]]
  /\ table \in [Row -> [status : {"PENDING", "BOOKED", "DELETED"}, id : Entry,
                        count : Nth, cleared : BOOLEAN]]
  /\ task \in [Client -> Task \cup {None}]
  /\ fix \in [Row -> Entry \cup {None}]

(* The import_ids spent on a row are those up to its readd_count, and at   *)
(* most the one of an attempt that was not recorded while the row still    *)
(* says deleted: what mark_readded counts is what YNAB has seen.           *)
IdsInOrder ==
  \A r \in Row :
    LET spent == {n \in Nth : ynab[r][n] # "none"}
        count == table[r].count
    IN \/ spent = 0..count
       \/ spent = 0..(count + 1) /\ table[r].status = "DELETED"

(* Requests made at once, crashes and lost replies put no second entry of a*)
(* row in the register; only a correction resubmitted over a re-added row  *)
(* can lead to one.                                                        *)
Shown(r) == {e \in Entry : /\ ynab[r][e] = "live"
                           /\ e = Typed => \E n \in Nth : ynab[r][n] = "hidden"}

OneEntry ==
  \A r \in Row \ overwritten : \A e, f \in Shown(r) : e = f

(* mark_readded writes only a row that still says deleted and still has the*)
(* count the attempt began with: of several requests one takes effect.     *)
RecordsOnce ==
  [][\A c \in Client : Record(c) =>
       LET row == table[task[c].row]
       IN row.status = "DELETED" /\ row.count + 1 = task[c].nth]_vars

(* A row that is not deleted names an entry the user can see or has        *)
(* deleted, never a shadow, and one that is cleared once it says BOOKED.   *)
RowNamesEntry ==
  \A r \in Row : table[r].status # "DELETED" =>
    /\ ynab[r][table[r].id] \in {"live", "deleted"}
    /\ table[r].status = "BOOKED" => cleared[r][table[r].id]

-----------------------------------------------------------------------------
(* The inductive invariant behind all of these.                            *)

(* IdsInOrder, number by number.                                           *)
IdsSpent ==
  \A r \in Row, n \in Nth :
    IF n <= table[r].count THEN ynab[r][n] # "none"
    ELSE ynab[r][n] # "none" => n = table[r].count + 1 /\ table[r].status = "DELETED"

(* A request with the next number works on the row as it is; when YNAB has *)
(* answered, nobody else's is under way to the same row.                   *)
Recording(c) == task[c] # None /\ task[c].step = "record"
AtNext(c) == task[c].nth = table[task[c].row].count + 1

Requesting ==
  \A c \in Client : task[c] # None =>
    /\ task[c].nth <= table[task[c].row].count + 1
    /\ AtNext(c) => /\ table[task[c].row].status = "DELETED"
                    /\ task[c].cleared = table[task[c].row].cleared

Answered ==
  \A c \in Client : Recording(c) =>
    /\ AtNext(c)
    /\ ynab[task[c].row][task[c].nth] # "none"
    /\ task[c].matched <=> ynab[task[c].row][task[c].nth] = "hidden"
    /\ ynab[task[c].row][VisibleId(task[c])] \in {"live", "deleted"}
    /\ task[c].cleared => cleared[task[c].row][VisibleId(task[c])]
    /\ \A d \in Client : Recording(d) /\ task[d].row = task[c].row => d = c

(* A correction that can still be made is one of the row as it is.         *)
Correctable ==
  \A r \in Row : fix[r] # None =>
    /\ ynab[r][fix[r]] \in {"live", "deleted"}
    /\ ynab[r][fix[r]] = "live" => table[r].id = fix[r] /\ table[r].status # "DELETED"

ShadowsHide == \A r \in Row, n \in Nth : ynab[r][n] = "hidden" => ynab[r][Typed] # "none"

(* The one entry shown is the row's, or of the attempt not yet recorded.   *)
Unrecorded(r, e) ==
  \E n \in Nth : /\ n = table[r].count + 1 /\ ynab[r][n] # "none"
                 /\ e = IF ynab[r][n] = "hidden" THEN Typed ELSE n

ShownRight ==
  \A r \in Row \ overwritten : \A e \in Shown(r) :
    IF table[r].status = "DELETED" THEN Unrecorded(r, e) ELSE e = table[r].id

ReaddInv ==
  /\ TypeOK /\ IdsSpent /\ Requesting /\ Answered /\ Correctable
  /\ RowNamesEntry /\ ShadowsHide /\ ShownRight

=============================================================================
