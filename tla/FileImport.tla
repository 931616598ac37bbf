----------------------------- MODULE FileImport -----------------------------
(***************************************************************************)
(* Importing a bank's export into one YNAB account: POST /api/import       *)
(* (webapp/routes/file_import.py), the transformer's rows, the content     *)
(* keys of sync/file_import/dedup.py, import_file_rows of sync/engine.py   *)
(* and the parts of _record_created and _backfill_duplicates it shares     *)
(* with a cycle, with what these do to payee_mappings.                     *)
(*                                                                         *)
(* A request may be sent twice (a double click, a second tab) or again     *)
(* after an error; between its awaits come other requests, the cycle and   *)
(* the user in YNAB.  A row has no identifier but its content: equal rows  *)
(* share one key and one import_id.  What YNAB matches natively to an entry*)
(* of the user's is a shadow, which no listing shows; that entry and its   *)
(* cleared flag are SyncEngine's subject.                                  *)
(***************************************************************************)
EXTENDS Payees

CONSTANTS
  Content,  (* contents of rows, which are their keys                      *)
  NameIn,   (* the payee name in each                                      *)
  Reserved, (* rows the bank has only reserved                             *)
  Client,   (* requests that may be under way at once                      *)
  NoRow

ASSUME ImportAssumption ==
  /\ NameIn \in [Content -> Name] /\ Reserved \subseteq Content
  /\ NoRow \notin {"PENDING", "BOOKED", "DELETED"}

VARIABLES
  entry,    (* YNAB's transaction with the import_id of each content       *)
  row,      (* booking_status in tracked_transactions                      *)
  taken,    (* contents whose row the cycle has pruned or rekeyed since    *)
  pc, sub,  (* where each request stands                                   *)
  work,     (* what it submits: the pending creates                        *)
  reply,    (* what is left of YNAB's response                             *)
  cur       (* the row of the response being recorded                      *)

requests == <<pc, sub, work, reply, cur>>
vars == <<payee, nameOf, called, learned, sweep, entry, row, taken,
          pc, sub, work, reply, cur>>

Status == {"PENDING", "BOOKED"}
NoEntry == [state |-> "none", payee |-> None]
NoReply == [made |-> {}, new |-> {}, dup |-> {}]

(* A row to create, with the payee id it is sent with, or None for a name; *)
(* as YNAB returns it, with the payee it got and whether it was natively   *)
(* matched (matched_transaction_id); and as it was looked up.              *)
Work == [key : Content, status : Status, sent : PayeeId \cup {None}]
Made == [key : Content, status : Status, sent : PayeeId \cup {None},
         got : PayeeId \cup {None}, matched : BOOLEAN]
Found == [key : Content, status : Status \cup {"DELETED"}, sent : {None},
          got : {None}]

Init ==
  /\ PayeesInit
  /\ entry = [x \in Content |-> NoEntry]
  /\ row = [x \in Content |-> NoRow]
  /\ taken = {}
  /\ pc = [c \in Client |-> "idle"] /\ sub = [c \in Client |-> "none"]
  /\ work = [c \in Client |-> {}] /\ reply = [c \in Client |-> NoReply]
  /\ cur = [c \in Client |-> None]

-----------------------------------------------------------------------------
(* Mutated forms, each a plausible bug in the definition it is named after.*)

(* A duplicate is looked for among the live transactions only.             *)
Backfilled_LiveOnly(w) == IF entry[w.key].state = "live" THEN w.status ELSE NoRow

(* A duplicate of what is not tracked is taken for a deleted one.          *)
Backfilled_Deleted(w) == "DELETED"

(* A payee that was dropped is forgotten, and left at that.                *)
Corrected_Not(x, p) == entry

(* The status of the export is tracked as it comes.                        *)
StatusOf_Raw(x) == IF x \in Reserved THEN "uncleared" ELSE "cleared"

-----------------------------------------------------------------------------
(* The user in YNAB, and the cycle.                                        *)

DeleteEntry(x) ==
  /\ entry[x].state = "live"
  /\ entry' = [entry EXCEPT ![x] = [state |-> "deleted", payee |-> None]]
  /\ UNCHANGED <<payeeVars, row, taken, requests>>

(* prune_booked_transactions drops an old row; a polled transaction that   *)
(* has booked takes a PENDING one for its placeholder and rekeys it.       *)
CycleTakes(x) ==
  /\ row[x] \in Status
  /\ row' = [row EXCEPT ![x] = NoRow]
  /\ taken' = taken \cup {x}
  /\ UNCHANGED <<payeeVars, entry, requests>>

-----------------------------------------------------------------------------
(* import_file and import_file_rows.                                       *)

(* NorwegianBankTransformer: "Reservert" rows are not cleared yet.         *)
StatusOf(x) == IF x \in Reserved THEN "PENDING" ELSE "BOOKED"

(* Classified and made into payloads in one go: what has a row already,    *)
(* whatever its status, is a duplicate.                                    *)
NewOf(file) ==
  {[key |-> x, status |-> StatusOf(x), sent |-> learned[NameIn[x]]] :
     x \in {k \in file : row[k] = NoRow}}

Upload(c) ==
  /\ pc[c] = "idle"
  /\ \E file \in SUBSET Content : work' = [work EXCEPT ![c] = NewOf(file)]
  /\ work'[c] # {}
  /\ pc' = [pc EXCEPT ![c] = "post"]
  /\ UNCHANGED <<payeeVars, entry, row, taken, sub, reply, cur>>

-----------------------------------------------------------------------------
(* create_transactions.  An import_id is used once and for ever.  A payee  *)
(* id that is gone is dropped without a word.  What is created may be      *)
(* matched to an entry the user has typed, and is hidden for good.         *)

(* The payee each new transaction gets, f telling those found or made for  *)
(* the names that are sent.                                                *)
GotBy(w, f) == IF w.sent = None THEN f[NameIn[w.key]]
               ELSE IF w.sent \in Live THEN w.sent ELSE None

Unused(W) == {w \in W : entry[w.key].state = "none"}

Create(c, f, matched) ==
  LET new  == Unused(work[c])
      made == {[key |-> w.key, status |-> w.status, sent |-> w.sent, got |-> GotBy(w, f),
                matched |-> w.key \in matched] : w \in new}
  IN /\ entry' = [x \in Content |->
                    IF \E w \in new : w.key = x
                    THEN IF x \in matched THEN [state |-> "hidden", payee |-> None]
                         ELSE [state |-> "live",
                               payee |-> (CHOOSE m \in made : m.key = x).got]
                    ELSE entry[x]]
     /\ reply' = [reply EXCEPT ![c] = [made |-> {w.key : w \in new}, new |-> made,
                                       dup |-> work[c] \ new]]

(* The names in new creates that come without an id.                       *)
NamesSent(W) == {NameIn[w.key] : w \in {v \in Unused(W) : v.sent = None}}

Post(c) ==
  /\ pc[c] = "post"
  /\ \E f \in [NamesSent(work[c]) -> PayeeId],
        matched \in SUBSET {w.key : w \in Unused(work[c])} :
       Resolve(f) /\ Create(c, f, matched)
  /\ pc' = [pc EXCEPT ![c] = "record"]
  /\ UNCHANGED <<learned, sweep, row, taken, sub, work, cur>>

-----------------------------------------------------------------------------
(* _record_created, a row of the response at a time, each write and call a *)
(* step of its own.  _track_native_match leaves the payees as they are.    *)

(* A row returned without the payee it was sent with.                      *)
Stale(m) == m.sent # None /\ m.got = None

RecordRow(c, m) ==
  /\ pc[c] = "record" /\ sub[c] = "none" /\ m \in reply[c].new
  /\ row' = [row EXCEPT ![m.key] = m.status]
  /\ taken' = taken \ {m.key}
  /\ reply' = [reply EXCEPT ![c].new = @ \ {m}]
  /\ sub' = [sub EXCEPT ![c] = CASE m.matched -> "none"
                                 [] ~m.matched /\ m.sent = None -> "learn"
                                 [] ~m.matched /\ Stale(m) -> "forget"
                                 [] OTHER -> "none"]
  /\ cur' = [cur EXCEPT ![c] = IF sub'[c] = "none" THEN None ELSE m]
  /\ UNCHANGED <<payeeVars, entry, pc, work>>

(* upsert_payee_mapping.                                                   *)
LearnPayee(c) ==
  /\ sub[c] = "learn"
  /\ learned' = Learned(NameIn[cur[c].key], cur[c].got)
  /\ sub' = [sub EXCEPT ![c] = "none"] /\ cur' = [cur EXCEPT ![c] = None]
  /\ UNCHANGED <<payee, nameOf, called, sweep, entry, row, taken, pc, work, reply>>

(* The id sent was stale: forget it, ...                                   *)
ForgetPayee(c) ==
  /\ sub[c] = "forget"
  /\ learned' = Without({cur[c].sent})
  /\ sub' = [sub EXCEPT ![c] = "correct"]
  /\ UNCHANGED <<payee, nameOf, called, sweep, entry, row, taken, pc, work, reply, cur>>

(* ... and give the transaction a payee by name.  A 400, since the user has*)
(* deleted it by now, is passed over.                                      *)
Corrected(x, p) == [entry EXCEPT ![x].payee = p]

CorrectPayee(c) ==
  /\ sub[c] = "correct"
  /\ LET k == cur[c].key
     IN \/ /\ entry[k].state = "deleted"
           /\ UNCHANGED <<entry, payee, nameOf, called>>
        \/ /\ entry[k].state = "live"
           /\ \E f \in [{NameIn[k]} -> PayeeId] :
                Resolve(f) /\ entry' = Corrected(k, f[NameIn[k]])
  /\ sub' = [sub EXCEPT ![c] = "none"] /\ cur' = [cur EXCEPT ![c] = None]
  /\ UNCHANGED <<learned, sweep, row, taken, pc, work, reply>>

(* _backfill_duplicates: what is tracked is left; anything else is looked  *)
(* up among the live transactions, then among the deleted ones.  A shadow  *)
(* is among neither: that is logged as an error, and left untracked.       *)
Backfilled(w) ==
  CASE entry[w.key].state = "live"    -> w.status
    [] entry[w.key].state = "deleted" -> "DELETED"
    [] OTHER -> NoRow

LookUp(c, w) ==
  /\ pc[c] = "record" /\ sub[c] = "none"
  /\ reply[c].new = {} /\ w \in reply[c].dup
  /\ reply' = [reply EXCEPT ![c].dup = @ \ {w}]
  /\ IF row[w.key] # NoRow \/ Backfilled(w) = NoRow THEN UNCHANGED <<sub, cur>>
     ELSE /\ sub' = [sub EXCEPT ![c] = "backfill"]
          /\ cur' = [cur EXCEPT ![c] = [key |-> w.key, status |-> Backfilled(w),
                                       sent |-> None, got |-> None]]
  /\ UNCHANGED <<payeeVars, entry, row, taken, pc, work>>

(* What was found is written, whatever has happened meanwhile.             *)
Backfill(c) ==
  /\ sub[c] = "backfill"
  /\ row' = [row EXCEPT ![cur[c].key] = cur[c].status]
  /\ taken' = taken \ {cur[c].key}
  /\ sub' = [sub EXCEPT ![c] = "none"] /\ cur' = [cur EXCEPT ![c] = None]
  /\ UNCHANGED <<payeeVars, entry, pc, work, reply>>

Over(c) ==
  /\ pc' = [pc EXCEPT ![c] = "idle"] /\ sub' = [sub EXCEPT ![c] = "none"]
  /\ work' = [work EXCEPT ![c] = {}] /\ reply' = [reply EXCEPT ![c] = NoReply]
  /\ cur' = [cur EXCEPT ![c] = None]
  /\ UNCHANGED <<payeeVars, entry, row, taken>>

(* The 200 of a commit.                                                    *)
Answer(c) ==
  /\ pc[c] = "record" /\ sub[c] = "none"
  /\ reply[c].new = {} /\ reply[c].dup = {}
  /\ Over(c)

(* A call raises, before its effect or after (the response of a create is  *)
(* lost): 503, and nothing is queued for later.                            *)
Fail(c) == pc[c] # "idle" /\ Over(c)

(* The process dies, and with it every request and the sweep.              *)
Crash ==
  /\ pc' = [c \in Client |-> "idle"] /\ sub' = [c \in Client |-> "none"]
  /\ work' = [c \in Client |-> {}] /\ reply' = [c \in Client |-> NoReply]
  /\ cur' = [c \in Client |-> None]
  /\ sweep' = NoSweep
  /\ UNCHANGED <<payee, nameOf, called, learned, entry, row, taken>>

-----------------------------------------------------------------------------
Request(c) ==
  \/ Upload(c) \/ Post(c) \/ LearnPayee(c) \/ ForgetPayee(c) \/ CorrectPayee(c)
  \/ \E m \in reply[c].new : RecordRow(c, m)
  \/ \E w \in reply[c].dup : LookUp(c, w)
  \/ Backfill(c) \/ Answer(c) \/ Fail(c)

Next ==
  \/ \E x \in Content : DeleteEntry(x) \/ CycleTakes(x)
  \/ PayeesNext /\ UNCHANGED <<entry, row, taken, requests>>
  \/ \E c \in Client : Request(c)
  \/ Crash

Spec == Init /\ [][Next]_vars

-----------------------------------------------------------------------------
(* Properties.                                                             *)

TypeOK ==
  /\ PayeesTypeOK
  /\ entry \in [Content -> [state : {"none", "live", "hidden", "deleted"},
                            payee : PayeeId \cup {None}]]
  /\ row \in [Content -> Status \cup {"DELETED", NoRow}]
  /\ taken \subseteq Content
  /\ pc \in [Client -> {"idle", "post", "record"}]
  /\ sub \in [Client -> {"none", "learn", "forget", "correct", "backfill"}]
  /\ work \in [Client -> SUBSET Work]
  /\ reply \in [Client -> [made : SUBSET Content, new : SUBSET Made, dup : SUBSET Work]]
  /\ cur \in [Client -> Made \cup Found \cup {None}]

(* A shadow that another request made: if that one's reply is lost, nothing*)
(* finds it again.                                                         *)
BeyondReach(c, k) == entry[k].state = "hidden" /\ k \notin reply[c].made

(* A commit that is answered with 200 has left no row of its file          *)
(* untracked, whatever earlier requests left half done and whoever deleted *)
(* what in the meantime; only the cycle may have taken the row since, and  *)
(* what YNAB had matched natively for an earlier request may be beyond the *)
(* lookups' reach.                                                         *)
CommitCompletes ==
  [][\A c \in Client : Answer(c) =>
       \A w \in work[c] :
         row[w.key] # NoRow \/ w.key \in taken \/ BeyondReach(c, w.key)]_vars

(* A row written off as deleted names a transaction the user has deleted.  *)
WrittenOffIsGone ==
  \A x \in Content : row[x] = "DELETED" => entry[x].state = "deleted"

(* What a commit answered with 200 created has a payee, though the one it  *)
(* was sent with may have vanished at any time.                            *)
PayeeRestored ==
  [][\A c \in Client : Answer(c) =>
       \A x \in reply[c].made : entry[x].state = "live" => entry[x].payee # None]_vars

-----------------------------------------------------------------------------
(* The inductive invariant behind all of these.                            *)

(* What the response said of a row's payee is still so.                    *)
Honest(m) ==
  /\ m.sent = None => m.got # None /\ NameIn[m.key] \in called[m.got]
  /\ Stale(m) => payee[m.sent] = "gone"

CalledExist == \A p \in PayeeId : called[p] # {} => payee[p] # "none"

(* What a request carries from one of its calls to the next.               *)
CarriedBy(c) ==
  /\ \A w \in work[c] : w.sent # None => payee[w.sent] # "none"
  /\ \A v, w \in work[c] : v.key = w.key => v = w
  /\ \A m \in reply[c].new : Honest(m) /\ (m.matched => entry[m.key].state = "hidden")
  /\ \A w \in reply[c].dup : entry[w.key].state # "none" /\ w.key \notin reply[c].made
  /\ \A k \in reply[c].made : entry[k].state # "none"
  /\ sub[c] # "none" => pc[c] = "record"
  /\ sub[c] = "learn" => cur[c] \in Made /\ Honest(cur[c]) /\ cur[c].sent = None
  /\ sub[c] \in {"forget", "correct"} => cur[c] \in Made /\ Honest(cur[c]) /\ Stale(cur[c])
  /\ sub[c] = "backfill" =>
       cur[c] \in Found /\ (cur[c].status = "DELETED" => entry[cur[c].key].state = "deleted")

(* Every row of a file is tracked, taken, beyond reach, or still to be     *)
(* dealt with.                                                             *)
AccountedBy(c) ==
  pc[c] = "record" =>
    \A w \in work[c] :
      \/ row[w.key] # NoRow \/ w.key \in taken \/ BeyondReach(c, w.key)
      \/ w \in reply[c].dup \/ \E m \in reply[c].new : m.key = w.key
      \/ sub[c] = "backfill" /\ cur[c].key = w.key

(* A new entry without a payee is still to be given one.                   *)
RestoringBy(c) ==
  \A k \in reply[c].made :
    entry[k].state = "live" /\ entry[k].payee = None =>
      \/ \E m \in reply[c].new : m.key = k /\ Stale(m)
      \/ sub[c] \in {"forget", "correct"} /\ cur[c].key = k

Carried   == \A c \in Client : CarriedBy(c)
Accounted == \A c \in Client : AccountedBy(c)
Restoring == \A c \in Client : RestoringBy(c)

ImportInv ==
  /\ TypeOK /\ LearnedRight /\ CalledExist /\ Carried
  /\ WrittenOffIsGone /\ Accounted /\ Restoring

=============================================================================
