----------------------------- MODULE SyncEngine -----------------------------
(***************************************************************************)
(* One sync cycle of SyncEngine (sync/engine.py): fetch and classify the   *)
(* bank's transactions against the tracked_transactions table, then submit *)
(* the result to YNAB.  Every remote call and every committed row is an    *)
(* action of its own, so that an exception, a crash or an edit the user    *)
(* makes in YNAB may fall between any two of them; submit() is retried     *)
(* with the same classified cycle, or the cycle is dropped and fetched     *)
(* again, as the scheduler decides.                                        *)
(*                                                                         *)
(* One budget; every transaction stays inside the fetch window (windows,   *)
(* cursors and retry timing are the subject of module Scheduler); payees,  *)
(* amounts and the audit log are abstracted away.                          *)
(***************************************************************************)
EXTENDS Naturals, FiniteSets

CONSTANTS
  Tx,            (* real bank transactions                                 *)
  Card,          (* seen PENDING first, under a key that booking changes   *)
  Stable,        (* seen PENDING first, under the key they keep            *)
  Pairs,         (* <<outflow, inflow>>: two legs of one transfer          *)
  Alike,         (* <<t, u>>: no heuristic tells an entry of u from t      *)
  Slots,         (* how many entries the user may type by hand, per Tx     *)
  PendingImport, (* config: pending_import_enabled                         *)
  ManualMatch,   (* config: manual_match_window_days > 0                   *)
  Casts,         (* bound: which transactions may take part together       *)
  Faults,        (* what may go wrong, see AllFaults                       *)
  Rough,         (* bound: the casts under which AllLosses may happen, too *)
  NoRow, NoId, NoWork

AllFaults == {"lost_reply", "crash", "db_loss", "user_delete", "native_match",
              "delete_refused", "no_leg"}
AllLosses == {"lost_reply", "crash", "db_loss"}

-----------------------------------------------------------------------------
(* Tracking keys and YNAB transaction ids.                                 *)

Seen == {"PENDING", "BOOKED"}
Obs == Tx \X Seen

(* A credit card's row changes its identifier when it books.               *)
KeyOf(o) == IF o[1] \in Card THEN o ELSE <<o[1], "BOOKED">>
Key == {KeyOf(o) : o \in Obs}

(* A transaction we submit is known by the import_id derived from its key; *)
(* an entry typed by the user and the auto-created leg of a transfer have  *)
(* none.                                                                   *)
Import(k)    == [kind |-> "import", key |-> k]
Manual(t, n) == [kind |-> "manual", tx |-> t, slot |-> n]
Leg(t)       == [kind |-> "leg", tx |-> t]
Reeval(k, y) == [kind |-> "reeval", key |-> k, of |-> y]

ImportId == [kind : {"import"}, key : Key]
ManualId == [kind : {"manual"}, tx : Tx, slot : Slots]
LegId    == [kind : {"leg"}, tx : Tx]
FirstId  == ImportId \cup ManualId \cup LegId
ReevalId == [kind : {"reeval"}, key : Key, of : FirstId]
Id       == FirstId \cup ReevalId
Unimported == ManualId \cup LegId

ASSUME EngineAssumption ==
  /\ Card \subseteq Tx /\ Stable \subseteq Tx /\ Card \cap Stable = {}
  /\ Pairs \subseteq (Tx \ (Card \cup Stable)) \X (Tx \ (Card \cup Stable))
  /\ \A p, q \in Pairs : p # q => {p[1], p[2]} \cap {q[1], q[2]} = {}
  /\ \A p \in Pairs : p[1] # p[2]
  /\ Alike \subseteq Tx \X Tx
  /\ PendingImport \in BOOLEAN /\ ManualMatch \in BOOLEAN
  /\ Card \cup Stable # {} => PendingImport
  /\ Casts \subseteq SUBSET Tx /\ Rough \subseteq Casts
  /\ Faults \subseteq AllFaults
  /\ NoRow \notin [status : {"PENDING", "BOOKED", "DELETED"}, id : Id]
  /\ NoId \notin Id

OwnerOf(y) == IF y \in Unimported THEN y.tx ELSE y.key[1]
LooksLike(t, u) == t = u \/ <<t, u>> \in Alike
Primary == {p[1] : p \in Pairs}
SecondaryOf(t) == CHOOSE s \in Tx : <<t, s>> \in Pairs

Status == {"PENDING", "BOOKED", "DELETED"}
Row == [status : Status, id : FirstId] \cup [status : {"BOOKED"}, id : ReevalId]

(* One transaction to submit: _PendingCreate when orig is NoId,            *)
(* _PendingManualMatch otherwise.                                          *)
Work ==
  [key : Key, status : Seen, iid : ImportId, orig : Unimported \cup {NoId}] \cup
  [key : Key, status : {"BOOKED"}, iid : ReevalId, orig : Unimported]

(* One pending->booked correction: _PendingUpdate when old = new,          *)
(* _PendingFuzzyUpdate otherwise.                                          *)
Update == [old : Key, new : Key, id : FirstId]

Cycle == [seen : SUBSET Obs, creates : SUBSET Work, links : SUBSET Primary,
          updates : SUBSET Update, matches : SUBSET Work]

EmptyCycle == [seen |-> {}, creates |-> {}, links |-> {}, updates |-> {},
               matches |-> {}]
Pool == [manual : SUBSET Unimported, pending : SUBSET Key]
EmptyPool == [manual |-> {}, pending |-> {}]
Reply == [new : SUBSET Work, dup : SUBSET Work]
NoReply == [new |-> {}, dup |-> {}]

VARIABLES
  bank,     (* what the provider reports of each transaction               *)
  ynab,     (* every YNAB transaction: never made, live or deleted         *)
  match,    (* matched_transaction_id of a natively matched shadow         *)
  cleared,  (* YNAB's cleared flag                                         *)
  tracked,  (* the tracked_transactions table                              *)
  phase,    (* where the cycle stands                                      *)
  sub,      (* the rest of the handling of the item in cur                 *)
  cls,      (* the ClassifiedCycle, kept across retries                    *)
  todo,     (* observations still to classify                              *)
  fixes,    (* corrections still to apply                                  *)
  pool,     (* candidates still unclaimed in this cycle                    *)
  reply,    (* what is left of the last create_transactions response       *)
  cur,      (* the create, match or correction whose sub-step is next      *)
  bug       (* submit() raised an error of its own making                  *)

remote == <<bank, ynab, match, cleared>>
volatile == <<sub, todo, fixes, pool, reply, cur>>
vars == <<bank, ynab, match, cleared, tracked, phase, sub, cls, todo,
          fixes, pool, reply, cur, bug>>

Phases == {"idle", "classify", "create", "record", "update", "repost",
           "rematch", "match", "failed"}
SubSteps == {"none", "leg", "fix_leg", "unclear", "book", "delete"}

Init ==
  /\ \E cast \in Casts : bank = [t \in Tx |-> IF t \in cast THEN "none" ELSE "absent"]
  /\ ynab = [y \in Id |-> "none"]
  /\ match = [y \in Id |-> NoId]
  /\ cleared = [y \in Id |-> FALSE]
  /\ tracked = [k \in Key |-> NoRow]
  /\ phase = "idle" /\ sub = "none"
  /\ cls = EmptyCycle
  /\ todo = {} /\ fixes = {} /\ pool = EmptyPool /\ reply = NoReply
  /\ cur = NoWork /\ bug = FALSE

(* The transactions that take part, and what may go wrong with them.       *)
Cast == {t \in Tx : bank[t] # "absent"}
May(fault) == fault \in Faults /\ (fault \in AllLosses => Cast \in Rough)

Hidden(y)  == match[y] # NoId
Visible(y) == ynab[y] = "live" /\ ~Hidden(y)
StatusOf(k) == IF tracked[k] = NoRow THEN "untracked" ELSE tracked[k].status

(* The only element of S, if S has exactly one: no matcher ever guesses.   *)
Unique(S) == \E x \in S : S = {x}
The(S) == CHOOSE x \in S : TRUE

-----------------------------------------------------------------------------
(* Mutated forms, each a plausible bug in the definition it is named after.*)

(* The audit event's type is written as the booking status.                *)
Track_EventType(k, st, y) ==
  tracked' = [tracked EXCEPT ![k] = [status |-> "created", id |-> y]]

(* The id in the response is tracked as it comes.                          *)
CreatedId_Shadow(w) == w.iid

(* Every match is taken for a native one.                                  *)
MatchedId_Original(w) == w.orig

(* The plain listing is not consulted before the deleted ones.             *)
DuplicateStatus_Deleted(w) == "DELETED"

(* The deleted transactions are not consulted at all.                      *)
Unfindable_Deleted(w) == ynab[w.iid] # "live" \/ Hidden(w.iid)

(* A retry goes on to delete the original whatever the first attempt did.  *)
EndedNatively_Never(w) == FALSE

(* The new entry is kept, natively matched or not.                         *)
MatchedId_Shadow(w) == w.iid

(* A settled row is not correlated with its placeholder.                   *)
Settles_Nothing(o) == {}

(* The cleared flag ignores the booking status, either way.                *)
SubmittedCleared_Always(w) == TRUE
SubmittedCleared_Never(w) == FALSE

(* The rekey drops the old key last, even when it is the new one.          *)
Moved_DropLast(u) ==
  [tracked EXCEPT ![u.new] = [status |-> "BOOKED", id |-> tracked[u.old].id],
                  ![u.old] = NoRow]

-----------------------------------------------------------------------------
(* upsert_tracked.                                                         *)
Track(k, st, y) == tracked' = [tracked EXCEPT ![k] = [status |-> st, id |-> y]]

-----------------------------------------------------------------------------
(* The bank and the user.                                                  *)

(* A transaction shows up at the bank, a card or preauthorised one PENDING *)
(* (or already settled when we first look).                                *)
Appear(t) ==
  /\ bank[t] = "none"
  /\ \E st \in IF t \in Card \cup Stable THEN Seen ELSE {"BOOKED"} :
       bank' = [bank EXCEPT ![t] = st]
  /\ UNCHANGED <<ynab, match, cleared, tracked, phase, cls, bug, volatile>>

Settle(t) ==
  /\ bank[t] = "PENDING"
  /\ bank' = [bank EXCEPT ![t] = "BOOKED"]
  /\ UNCHANGED <<ynab, match, cleared, tracked, phase, cls, bug, volatile>>

UserTypes(y) ==
  /\ ynab[y] = "none" /\ y.tx \in Cast
  /\ ynab' = [ynab EXCEPT ![y] = "live"]
  /\ UNCHANGED <<bank, match, cleared, tracked, phase, cls, bug, volatile>>

(* YNAB deletes the two legs of a linked transfer together.                *)
Delete(y) ==
  LET gone == {y} \cup {Leg(p[2]) : p \in {q \in Pairs : y = Import(<<q[1], "BOOKED">>)}}
                  \cup {Import(<<p[1], "BOOKED">>) : p \in {q \in Pairs : y = Leg(q[2])}}
  IN ynab' = [z \in Id |-> IF z \in gone /\ ynab[z] = "live" THEN "deleted" ELSE ynab[z]]

UserDeletes(y) ==
  /\ May("user_delete")
  /\ Visible(y)
  /\ Delete(y)
  /\ UNCHANGED <<bank, match, cleared, tracked, phase, cls, bug, volatile>>

-----------------------------------------------------------------------------
(* fetch_and_classify.                                                     *)

Fetch ==
  /\ phase = "idle"
  /\ phase' = "classify"
  /\ todo' = {<<t, bank[t]>> : t \in {u \in Tx : bank[u] \in Seen}}
  /\ cls' = [EmptyCycle EXCEPT !.seen = todo']
  /\ pool' = [manual |-> {y \in Unimported : Visible(y)},
              pending |-> {k \in Key : StatusOf(k) = "PENDING"}]
  /\ UNCHANGED <<remote, tracked, sub, fixes, reply, cur, bug>>

(* The user's entries are listed again when a later transaction has an     *)
(* earlier date: one claimed in between comes back.                        *)
ListAgain ==
  /\ phase = "classify" /\ todo # {}
  /\ pool' = [pool EXCEPT !.manual = {y \in Unimported : Visible(y)}]
  /\ UNCHANGED <<remote, tracked, phase, sub, cls, todo, fixes, reply, cur, bug>>

(* find_pending_match: a BOOKED row may be a tracked PENDING one, settled. *)
Settles(o) == IF o[2] = "BOOKED"
              THEN {k \in pool.pending : LooksLike(o[1], k[1])} ELSE {}

(* _find_manual_match and find_manual_match_tolerant, each behind its own  *)
(* opt-in.                                                                 *)
Typed(o) == IF IF o[2] = "PENDING" THEN PendingImport ELSE ManualMatch
            THEN {y \in pool.manual : LooksLike(o[1], OwnerOf(y))} ELSE {}

WorkFor(o, y) == [key |-> KeyOf(o), status |-> o[2], iid |-> Import(KeyOf(o)),
                  orig |-> y]

Classifying(o) ==
  /\ phase = "classify" /\ o \in todo
  /\ todo' = todo \ {o}
  /\ UNCHANGED <<remote, tracked, phase, sub, fixes, reply, cur, bug>>

(* "transitioned" when the tracked row is PENDING and the bank says        *)
(* BOOKED, "unchanged" otherwise.                                          *)
ClassifyTracked(o) ==
  /\ Classifying(o)
  /\ tracked[KeyOf(o)] # NoRow
  /\ cls' = [cls EXCEPT !.updates = @ \cup
       {[old |-> k, new |-> k, id |-> tracked[k].id] :
          k \in {k \in {KeyOf(o)} : o[2] = "BOOKED" /\ StatusOf(k) = "PENDING"}}]
  /\ UNCHANGED pool

ClassifySettled(o) ==
  /\ Classifying(o)
  /\ tracked[KeyOf(o)] = NoRow
  /\ Unique(Settles(o))
  /\ LET k == The(Settles(o)) IN
       /\ cls' = [cls EXCEPT !.updates = @ \cup
                   {[old |-> k, new |-> KeyOf(o), id |-> tracked[k].id]}]
       /\ pool' = [pool EXCEPT !.pending = @ \ {k}]

ClassifyManual(o) ==
  /\ Classifying(o)
  /\ tracked[KeyOf(o)] = NoRow
  /\ ~Unique(Settles(o)) /\ Unique(Typed(o))
  /\ LET y == The(Typed(o)) IN
       /\ cls' = [cls EXCEPT !.matches = @ \cup {WorkFor(o, y)}]
       /\ pool' = [pool EXCEPT !.manual = @ \ {y}]

ClassifyNew(o) ==
  /\ Classifying(o)
  /\ tracked[KeyOf(o)] = NoRow
  /\ ~Unique(Settles(o)) /\ ~Unique(Typed(o))
  /\ cls' = [cls EXCEPT !.creates = @ \cup {WorkFor(o, NoId)}]
  /\ UNCHANGED pool

Withheld(linked) == {p[2] : p \in linked}

(* _match_transfers: of a pair seen together only the outflow is submitted,*)
(* unless the budget has no transfer payee for the other account.          *)
Linkable ==
  LET new == {w.key[1] : w \in cls.creates}
  IN {p \in Pairs : p[1] \in new /\ p[2] \in new}

MatchTransfers ==
  /\ phase = "classify" /\ todo = {}
  /\ \E linked \in SUBSET Linkable :
       cls' = [cls EXCEPT
         !.links = {p[1] : p \in linked},
         !.creates = {w \in @ : w.key[1] \notin Withheld(linked)}]
  /\ phase' = "create" /\ pool' = EmptyPool
  /\ UNCHANGED <<remote, tracked, sub, todo, fixes, reply, cur, bug>>

-----------------------------------------------------------------------------
(* YNAB's create_transactions.  An import_id is reserved for ever once     *)
(* used; YNAB may natively match what it creates to a visible entry of the *)
(* user's, which hides the new one as a shadow and clears the entry; the   *)
(* primary of a transfer brings its other leg with it, uncleared, or, when *)
(* the response names none, does not.                                      *)

SubmittedCleared(w) == w.status = "BOOKED"
Linked(w) == phase = "create" /\ w.key[1] \in cls.links

Anchors(w) ==
  IF May("native_match") /\ ~Linked(w) /\ ynab[w.iid] = "none"
  THEN {y \in ManualId : Visible(y) /\ LooksLike(w.key[1], y.tx)
                            /\ \A z \in Id : match[z] # y}
  ELSE {}

New(W)  == {w \in W : ynab[w.iid] = "none"}
Legs(W) == {Leg(SecondaryOf(w.key[1])) : w \in {v \in New(W) : Linked(v)}}

(* hit: the <<shadow, entry>> pairs YNAB matches; legs: those it makes.    *)
PostWith(W, hit, legs) ==
  /\ \A h \in hit : \E w \in W : w.iid = h[1] /\ h[2] \in Anchors(w)
  /\ \A g, h \in hit : g # h => g[1] # h[1] /\ g[2] # h[2]
  /\ legs \subseteq Legs(W) /\ (legs = Legs(W) \/ May("no_leg"))
  /\ ynab' = [y \in Id |-> IF y \in legs \cup {w.iid : w \in New(W)}
                           THEN "live" ELSE ynab[y]]
  /\ match' = [y \in Id |-> IF \E h \in hit : h[1] = y
                            THEN (CHOOSE h \in hit : h[1] = y)[2]
                            ELSE match[y]]
  /\ cleared' = [y \in Id |-> \/ cleared[y]
                              \/ \E w \in New(W) : w.iid = y /\ SubmittedCleared(w)
                              \/ \E h \in hit : h[2] = y]
  /\ reply' = [new |-> New(W), dup |-> W \ New(W)]

Post(W) == \E hit \in SUBSET UNION {{w.iid} \X Anchors(w) : w \in W} :
             \E legs \in SUBSET Legs(W) : PostWith(W, hit, legs)

-----------------------------------------------------------------------------
(* submit, part 1: the creates.  _record_created writes one row per        *)
(* created transaction; _backfill_duplicates handles what YNAB refused.    *)

PostCreates ==
  /\ phase = "create" /\ cls.creates # {}
  /\ Post(cls.creates)
  /\ phase' = "record"
  /\ UNCHANGED <<bank, tracked, sub, cls, todo, fixes, pool, cur, bug>>

ItsPrimary(w) == w.key[1] \in cls.links

(* The row tracks the matched original rather than its invisible shadow.   *)
CreatedId(w) ==
  IF Hidden(w.iid) /\ ~ItsPrimary(w) THEN match[w.iid] ELSE w.iid

RecordCreated(w) ==
  /\ phase = "record" /\ sub = "none" /\ w \in reply.new
  /\ Track(w.key, w.status, CreatedId(w))
  /\ reply' = [reply EXCEPT !.new = @ \ {w}]
  /\ sub' = IF ItsPrimary(w) THEN "leg"
            ELSE IF Hidden(w.iid) /\ w.status = "PENDING" THEN "unclear" ELSE "none"
  /\ cur' = IF sub' = "none" THEN NoWork ELSE w
  /\ UNCHANGED <<remote, phase, cls, todo, fixes, pool, bug>>

(* _record_transfer_secondary: the row first, then the PATCH that clears   *)
(* the leg (a 400 is logged and skipped).                                  *)
Made(y) == ynab[y] # "none"

RecordLeg ==
  /\ sub = "leg" /\ Made(Leg(SecondaryOf(cur.key[1])))
  /\ LET s == SecondaryOf(cur.key[1]) IN
       Track(KeyOf(<<s, "BOOKED">>), "BOOKED", Leg(s))
  /\ sub' = "fix_leg"
  /\ UNCHANGED <<remote, phase, cls, todo, fixes, pool, reply, cur, bug>>

(* No transfer_transaction_id in the response: logged, and no row.         *)
LegMissing ==
  /\ sub = "leg" /\ ~Made(Leg(SecondaryOf(cur.key[1])))
  /\ sub' = "none" /\ cur' = NoWork
  /\ UNCHANGED <<remote, tracked, phase, cls, todo, fixes, pool, reply, bug>>

FixLeg ==
  /\ sub = "fix_leg"
  /\ cleared' = [cleared EXCEPT ![Leg(SecondaryOf(cur.key[1]))] = TRUE]
  /\ sub' = "none" /\ cur' = NoWork
  /\ UNCHANGED <<bank, ynab, match, tracked, phase, cls, todo, fixes, pool, reply, bug>>

(* _track_native_match: undo the clearing that the native match caused.    *)
Unclear ==
  /\ sub = "unclear"
  /\ cleared' = [cleared EXCEPT ![tracked[cur.key].id] =
                   @ /\ ynab[tracked[cur.key].id] # "live"]
  /\ sub' = "none" /\ cur' = NoWork
  /\ UNCHANGED <<bank, ynab, match, tracked, phase, cls, todo, fixes, pool, reply, bug>>

(* Tracked already: skip.  Otherwise look it up in the account's plain     *)
(* listing, then among the deleted; a shadow is in neither.                *)
DuplicateStatus(w) == IF ynab[w.iid] = "live" THEN w.status ELSE "DELETED"

Unfindable(w) == ynab[w.iid] = "live" /\ Hidden(w.iid)

BackfillDuplicate(w) ==
  /\ phase = "record" /\ sub = "none" /\ reply.new = {} /\ w \in reply.dup
  /\ reply' = [reply EXCEPT !.dup = @ \ {w}]
  /\ tracked' =
       IF tracked[w.key] # NoRow \/ Unfindable(w)
       THEN tracked
       ELSE [tracked EXCEPT ![w.key] =
              [status |-> DuplicateStatus(w), id |-> w.iid]]
  /\ UNCHANGED <<remote, phase, sub, cls, todo, fixes, pool, cur, bug>>

-----------------------------------------------------------------------------
(* submit, part 2: the pending->booked corrections.  The bulk pre-check    *)
(* and a 400 on the PATCH both find the target deleted, which no later     *)
(* step undoes; they are one guard here.                                   *)

StartUpdates ==
  /\ \/ phase = "create" /\ cls.creates = {}
     \/ phase = "record" /\ sub = "none" /\ reply = NoReply
  /\ phase' = "update" /\ fixes' = cls.updates
  /\ UNCHANGED <<remote, tracked, sub, cls, todo, pool, reply, cur, bug>>

(* Corrections that keep their key come before those that change it.       *)
NextUpdate(u) ==
  /\ phase = "update" /\ sub = "none" /\ u \in fixes
  /\ u.old # u.new => \A v \in fixes : v.old # v.new

PatchUpdate(u) ==
  /\ NextUpdate(u) /\ ynab[u.id] = "live"
  /\ cleared' = [cleared EXCEPT ![u.id] = TRUE]
  /\ fixes' = fixes \ {u} /\ sub' = "book" /\ cur' = u
  /\ UNCHANGED <<bank, ynab, match, tracked, phase, cls, todo, pool, reply, bug>>

Moved(u) ==
  [tracked EXCEPT ![u.old] = NoRow,
                  ![u.new] = [status |-> "BOOKED", id |-> tracked[u.old].id]]

(* mark_booked, or rekey_pending_to_booked; an error when the row it needs *)
(* is gone or the new key is taken.                                        *)
BookUpdate ==
  LET u == cur
      done == tracked[u.old] = NoRow /\ StatusOf(u.new) = "BOOKED"
      legal == tracked[u.old] # NoRow /\ (u.old # u.new => tracked[u.new] = NoRow)
  IN /\ sub = "book"
     /\ tracked' = IF legal THEN Moved(u) ELSE tracked
     /\ bug' = ~(legal \/ done)
     /\ phase' = IF bug' THEN "failed" ELSE "update"
     /\ fixes' = IF bug' THEN {} ELSE fixes
     /\ sub' = "none" /\ cur' = NoWork
     /\ UNCHANGED <<remote, cls, todo, pool, reply>>

(* _recover_missing_pending_update.                                        *)
Replacements(u) ==
  {y \in Unimported : Visible(y) /\ LooksLike(u.new[1], OwnerOf(y))}

(* No row left: the method returns two values where its caller unpacks     *)
(* three, so submit() raises ValueError.                                   *)
RecoverWithoutRow(u) ==
  /\ NextUpdate(u) /\ ynab[u.id] # "live" /\ tracked[u.old] = NoRow
  /\ bug' = TRUE /\ phase' = "failed" /\ fixes' = {}
  /\ UNCHANGED <<remote, tracked, sub, cls, todo, pool, reply, cur>>

RecoverAsDeleted(u) ==
  /\ NextUpdate(u) /\ ynab[u.id] # "live" /\ tracked[u.old] # NoRow
  /\ ~Unique(Replacements(u))
  /\ Track(u.old, "DELETED", u.id)
  /\ fixes' = fixes \ {u}
  /\ UNCHANGED <<remote, phase, sub, cls, todo, pool, reply, cur, bug>>

RecoverAsReplaced(u) ==
  /\ NextUpdate(u) /\ ynab[u.id] # "live" /\ tracked[u.old] # NoRow
  /\ Unique(Replacements(u))
  /\ cur' = [key |-> u.new, status |-> "BOOKED", iid |-> Reeval(u.new, u.id),
             orig |-> The(Replacements(u))]
  /\ phase' = "repost" /\ fixes' = fixes \ {u}
  /\ UNCHANGED <<remote, tracked, sub, cls, todo, pool, reply, bug>>

PostReplacement ==
  /\ phase = "repost"
  /\ Post({cur})
  /\ phase' = "rematch" /\ cur' = NoWork
  /\ UNCHANGED <<bank, tracked, sub, cls, todo, fixes, pool, bug>>

ReplacementDone ==
  /\ phase = "rematch" /\ sub = "none" /\ reply = NoReply
  /\ phase' = "update"
  /\ UNCHANGED <<remote, tracked, cls, bug, volatile>>

-----------------------------------------------------------------------------
(* submit, part 3: the manual matches.                                     *)

UpdatesDone == phase = "update" /\ sub = "none" /\ fixes = {}

PostMatches ==
  /\ UpdatesDone /\ cls.matches # {}
  /\ Post(cls.matches)
  /\ phase' = "match"
  /\ UNCHANGED <<bank, tracked, sub, cls, todo, fixes, pool, cur, bug>>

(* _record_matched, a created row: keep the original when YNAB matched it, *)
(* otherwise keep ours and delete the original.                            *)
MatchedId(w) == IF Hidden(w.iid) THEN w.orig ELSE w.iid
Ending(w) == IF ~Hidden(w.iid) THEN "delete"
             ELSE IF w.status = "PENDING" THEN "unclear" ELSE "none"

RecordMatched(w) ==
  /\ phase \in {"match", "rematch"} /\ sub = "none" /\ w \in reply.new
  /\ Track(w.key, w.status, MatchedId(w))
  /\ reply' = [reply EXCEPT !.new = @ \ {w}]
  /\ sub' = Ending(w)
  /\ cur' = IF sub' = "none" THEN NoWork ELSE w
  /\ UNCHANGED <<remote, phase, cls, todo, fixes, pool, bug>>

(* A duplicate: finish what an earlier attempt began, by the ending that   *)
(* applies.  Untracked, and not in the account's plain listing: left alone.*)
Findable(w) == Visible(w.iid)
EndedNatively(w) == tracked[w.key].id = w.orig

MatchedAgain(w) ==
  LET known == tracked[w.key] # NoRow
      found == ~known /\ Findable(w)
  IN /\ phase \in {"match", "rematch"} /\ sub = "none"
     /\ reply.new = {} /\ w \in reply.dup
     /\ reply' = [reply EXCEPT !.dup = @ \ {w}]
     /\ tracked' = IF found
                   THEN [tracked EXCEPT ![w.key] =
                          [status |-> w.status, id |-> MatchedId(w)]]
                   ELSE tracked
     /\ sub' = IF found THEN Ending(w)
               ELSE IF known /\ ~EndedNatively(w) THEN "delete" ELSE "none"
     /\ cur' = IF sub' = "none" THEN NoWork ELSE w
     /\ UNCHANGED <<remote, phase, cls, todo, fixes, pool, bug>>

(* _delete_original: a 404 is success, another error status is logged.     *)
DeleteOriginal ==
  /\ sub = "delete"
  /\ \/ Delete(cur.orig)
     \/ May("delete_refused") /\ UNCHANGED ynab
  /\ sub' = "none" /\ cur' = NoWork
  /\ UNCHANGED <<bank, match, cleared, tracked, phase, cls, todo, fixes, pool, reply, bug>>

Finish ==
  /\ \/ UpdatesDone /\ cls.matches = {}
     \/ phase = "match" /\ sub = "none" /\ reply = NoReply
  /\ phase' = "idle" /\ cls' = EmptyCycle
  /\ UNCHANGED <<remote, tracked, bug, volatile>>

-----------------------------------------------------------------------------
(* Failure, retry, crash.                                                  *)

Submitting == phase \notin {"idle", "classify", "failed"}

Reset ==
  /\ sub' = "none" /\ todo' = {} /\ fixes' = {} /\ pool' = EmptyPool /\ reply' = NoReply
  /\ cur' = NoWork

(* A remote call raises.  Unless replies can be lost, that is before the   *)
(* call has had its effect: no response or committed PATCH is dropped.     *)
SubmitFails ==
  /\ Submitting
  /\ \/ May("lost_reply")
     \/ sub \in {"fix_leg", "unclear", "delete"}
     \/ sub = "none" /\ reply = NoReply
  /\ phase' = "failed" /\ Reset
  /\ UNCHANGED <<remote, tracked, cls, bug>>

(* The scheduler submits the cached cycle again...                         *)
Retry ==
  /\ phase = "failed"
  /\ phase' = "create" /\ bug' = FALSE
  /\ UNCHANGED <<remote, tracked, cls, volatile>>

(* ... or drops it, when no attempt fits before the next scheduled cycle.  *)
Drop ==
  /\ phase = "failed"
  /\ phase' = "idle" /\ cls' = EmptyCycle /\ bug' = FALSE /\ Reset
  /\ UNCHANGED <<remote, tracked>>

(* A fetch that fails, wherever it fails, leaves no trace.                 *)
FetchFails ==
  /\ phase = "classify" /\ todo = cls.seen
  /\ phase' = "idle" /\ cls' = EmptyCycle /\ Reset
  /\ UNCHANGED <<remote, tracked, bug>>

(* Rows are committed one at a time and survive a crash, unless the        *)
(* database file itself is lost.                                           *)
Crash ==
  /\ \/ May("crash") /\ phase # "idle" /\ UNCHANGED tracked
     \/ May("db_loss") /\ tracked' = [k \in Key |-> NoRow]
  /\ phase' = "idle" /\ cls' = EmptyCycle /\ bug' = FALSE /\ Reset
  /\ UNCHANGED remote

-----------------------------------------------------------------------------
Environment ==
  \/ \E t \in Tx : Appear(t) \/ Settle(t)
  \/ \E y \in ManualId : UserTypes(y)
  \/ \E y \in Id : UserDeletes(y)

Classify == \/ ListAgain
            \/ \E o \in todo : \/ ClassifyTracked(o) \/ ClassifySettled(o)
                             \/ ClassifyManual(o) \/ ClassifyNew(o)

Creates == \/ PostCreates \/ RecordLeg \/ LegMissing \/ FixLeg \/ Unclear \/ StartUpdates
           \/ \E w \in reply.new : RecordCreated(w)
           \/ \E w \in reply.dup : BackfillDuplicate(w)

Updates == \/ BookUpdate \/ PostReplacement \/ ReplacementDone
           \/ \E u \in fixes : \/ PatchUpdate(u) \/ RecoverWithoutRow(u)
                            \/ RecoverAsDeleted(u) \/ RecoverAsReplaced(u)

Matches == \/ PostMatches \/ DeleteOriginal \/ Finish
           \/ \E w \in reply.new : RecordMatched(w)
           \/ \E w \in reply.dup : MatchedAgain(w)

Failures == SubmitFails \/ FetchFails \/ Crash

Next == \/ Environment \/ Fetch \/ Classify \/ MatchTransfers
        \/ Creates \/ Updates \/ Matches \/ Retry \/ Drop \/ Failures

Spec == Init /\ [][Next]_vars

-----------------------------------------------------------------------------
(* Fairness.  The scheduler keeps starting and retrying cycles, but drops  *)
(* one that keeps failing (no retry outlives the next cron fire); a cycle  *)
(* runs on; from some time on nothing fails any more.  (Not that no step   *)
(* is a Failure: the step that ends a cycle and a crash at its end are the *)
(* same change of the state.)                                              *)
Engine == \/ Fetch \/ Classify \/ MatchTransfers \/ Creates \/ Updates
          \/ Matches \/ Retry \/ Drop

Fairness == WF_vars(Engine) /\ SF_vars(Drop) /\ <>[][Engine \/ Environment]_vars

LiveSpec == Spec /\ Fairness

-----------------------------------------------------------------------------
(* Properties.                                                             *)

Item == Work \cup Update

TypeOK ==
  /\ bank \in [Tx -> {"absent", "none", "PENDING", "BOOKED"}]
  /\ ynab \in [Id -> {"none", "live", "deleted"}]
  /\ match \in [Id -> ManualId \cup {NoId}]
  /\ cleared \in [Id -> BOOLEAN]
  /\ tracked \in [Key -> Row \cup {NoRow}]
  /\ phase \in Phases /\ sub \in SubSteps /\ bug \in BOOLEAN
  /\ cls \in Cycle /\ pool \in Pool /\ reply \in Reply
  /\ todo \subseteq Obs /\ fixes \subseteq Update
  /\ cur \in Item \cup {NoWork}

(* A tracked row names a transaction YNAB really has or had, and one that  *)
(* is fetchable: never the hidden shadow of a native match.                *)
TrackedIsReal ==
  \A k \in Key : tracked[k] # NoRow =>
    ynab[tracked[k].id] # "none" /\ ~Hidden(tracked[k].id)

(* What stands in the user's register for t on the engine's account: what  *)
(* it created, and the entries of the user's that it took over.            *)
Booked(t) ==
  {y \in Id : /\ Visible(y) /\ OwnerOf(y) = t
              /\ y \in ManualId => \E k \in Key : tracked[k] # NoRow /\ tracked[k].id = y}

Several(S) == \E x, y \in S : x # y

(* Every entry says by itself which transaction it is for.                 *)
Distinct == \A t, u \in Cast : t # u => ~LooksLike(t, u)

(* No transaction is booked twice, whatever is retried, as long as none is *)
(* mistaken for another.  For a card or a leg of a transfer that is so only*)
(* while no reply, process or database is lost: the retry of a lost create *)
(* restores the row of the entry that has the import_id, and what was made *)
(* beside it, or under an earlier key, is booked again.  The instances lose*)
(* such things only in the casts of Rough, the theorem for what is Solo.   *)
NoDoubleBooking == Distinct => \A t \in Tx : ~Several(Booked(t))

(* Whichever entry is taken for whichever of several look-alikes, the      *)
(* register never shows more of them than the bank has.                    *)
NoSurplus ==
  Cardinality(UNION {Booked(t) : t \in Tx}) <= Cardinality({t \in Tx : bank[t] \in Seen})

(* A transaction resolved as deleted stays out of the register: nothing the*)
(* engine booked for it is still there.                                    *)
DeletedMeansGone ==
  Distinct => \A k \in Key :
    k[1] \notin Card /\ StatusOf(k) = "DELETED" => Booked(k[1]) = {}

(* submit() raises nothing but what its remote calls raise.                *)
NoLogicError == ~bug

(* A cycle that reports success leaves nothing behind that its cursors     *)
(* would skip: each observation has a row.  Left alone, knowingly, is what *)
(* an earlier attempt made and no listing shows any more.                  *)
LeftAlone(o) ==
  LET y == Import(KeyOf(o))
  IN \/ Hidden(y)
     \/ ynab[y] = "deleted" /\ \E w \in cls.matches : w.iid = y

(* The inflow of a transfer for which YNAB made no leg.                    *)
LegMissed(t) == ~Made(Leg(t)) /\ \E p \in Pairs : t = p[2] /\ p[1] \in cls.links

SuccessSettlesAll ==
  [][Finish /\ Distinct => \A o \in cls.seen :
       o[1] \notin Card /\ tracked[KeyOf(o)] = NoRow =>
         LeftAlone(o) \/ LegMissed(o[1])]_vars

(* What the bank has settled has no PENDING row left, under whichever key, *)
(* once a cycle that saw it booked reports success.                        *)
SuccessClosesHolds ==
  [][Finish /\ Distinct => \A o \in cls.seen, k \in Key :
       o[2] = "BOOKED" /\ k[1] = o[1] => StatusOf(k) # "PENDING"]_vars

(* ... and YNAB shows every tracked transaction as cleared exactly when    *)
(* the bank has booked it.                                                 *)
SuccessClears ==
  [][Finish => \A k \in Key :
       tracked[k] # NoRow /\ StatusOf(k) # "DELETED" /\ Visible(tracked[k].id) =>
         (cleared[tracked[k].id] <=> StatusOf(k) = "BOOKED")]_vars

(* The delete that completes a manual match never removes an entry that    *)
(* books some transaction, ...                                             *)
KeepsTracked ==
  [][DeleteOriginal /\ Distinct =>
       \A k \in Key : tracked[k] # NoRow =>
         ynab'[tracked[k].id] = ynab[tracked[k].id]]_vars

(* ... and what a retry deletes has its replacement in the register.       *)
RetryDeletesSafely ==
  [][\A w \in reply.dup : MatchedAgain(w) /\ sub' = "delete" =>
       Visible(tracked'[w.key].id)]_vars

(* Everything the bank has booked ends up settled, unless the user deleted *)
(* what the engine made for it and has an entry of their own instead: an   *)
(* import_id spent on a match is never given up.                           *)
StandsIn(t) ==
  /\ \E y \in ImportId \cup ReevalId : OwnerOf(y) = t /\ ynab[y] = "deleted"
  /\ \E y \in ManualId : OwnerOf(y) = t /\ Visible(y)

EventuallySettled ==
  \A t \in Tx : bank[t] = "BOOKED" ~>
    \/ StandsIn(t)
    \/ \E k \in Key : k[1] = t /\ StatusOf(k) \in {"BOOKED", "DELETED"}

(* Everything tracked as booked is shown as cleared in the end.            *)
EventuallyCleared ==
  \A k \in Key : StatusOf(k) = "BOOKED" ~>
    (StatusOf(k) = "BOOKED" /\ Visible(tracked[k].id) => cleared[tracked[k].id])

(* The engine implements the promise of Booking.                           *)
BookingState(t) ==
  LET rows == {StatusOf(k) : k \in {j \in Key : j[1] = t}}
  IN IF "BOOKED" \in rows THEN "settled"
     ELSE IF "DELETED" \in rows THEN "dismissed"
     ELSE IF "PENDING" \in rows THEN "held" ELSE "open"

(* A transaction outside the cast is one the bank never reports.           *)
BankState(t) == IF bank[t] = "absent" THEN "none" ELSE bank[t]

Promise == INSTANCE Booking WITH bank  <- [t \in Tx |-> BankState(t)],
                                 state <- [t \in Tx |-> BookingState(t)]

ImplementsBooking == Promise!Spec

-----------------------------------------------------------------------------
(* The inductive invariant behind TypeOK and TrackedIsReal.                *)

Replies == reply.new \cup reply.dup

(* What each phase and sub-step may rely on finding in pool, reply and cur.*)
Shape ==
  /\ phase # "classify" => pool = EmptyPool
  /\ \A k \in pool.pending : StatusOf(k) = "PENDING"
  /\ \A w \in cls.creates : w.iid = Import(w.key)
  /\ \A w \in cls.matches : w.orig \in Unimported
  /\ phase = "record" => Replies \subseteq cls.creates
  /\ phase \in {"match", "rematch"} => \A w \in Replies : w.orig \in Unimported
  /\ phase = "repost" => cur \in Work /\ cur.orig \in Unimported
  /\ sub \in {"leg", "fix_leg"} =>
       phase = "record" /\ cur \in cls.creates /\ ItsPrimary(cur)
  /\ sub \in {"unclear", "delete"} =>
       phase \in {"record", "match", "rematch"} /\ cur \in Work
  /\ sub = "unclear" => tracked[cur.key] # NoRow
  /\ sub = "delete" => cur.orig \in Unimported
  /\ sub = "book" => phase = "update" /\ cur \in Update

(* A shadow is live and was never typed; what it hides behind exists.      *)
ShadowsLive ==
  \A y \in Id : Hidden(y) =>
    ynab[y] = "live" /\ y \notin Unimported /\ Made(match[y])

(* A transfer's second leg exists only with a first one that is visible or *)
(* deleted.                                                                *)
LegsLinked ==
  \A p \in Pairs : Made(Leg(p[2])) =>
    Made(Import(<<p[1], "BOOKED">>)) /\ ~Hidden(Import(<<p[1], "BOOKED">>))

(* Every id the engine carries from one step to a later one is real.       *)
CarriedIsReal ==
  /\ \A w \in Replies : Made(w.iid)
  /\ phase = "record" => \A w \in reply.new : ItsPrimary(w) => ~Hidden(w.iid)
  /\ sub = "delete" => Made(cur.orig)
  /\ \A y \in pool.manual : Made(y)
  /\ \A w \in cls.matches : Made(w.orig)
  /\ phase = "repost" => Made(cur.orig)
  /\ phase \in {"match", "rematch"} => \A w \in Replies : Made(w.orig)
  /\ \A u \in cls.updates \cup fixes : Made(u.id) /\ ~Hidden(u.id)

RealInv == ShadowsLive /\ LegsLinked /\ CarriedIsReal /\ TrackedIsReal

=============================================================================
