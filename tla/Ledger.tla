------------------------------- MODULE Ledger -------------------------------
(***************************************************************************)
(* What the register owes to each tracking key: the inductive invariants   *)
(* behind the engine's promises (SyncEngine: NoDoubleBooking, NoSurplus,   *)
(* DeletedMeansGone, KeepsTracked, SuccessSettlesAll, NoLogicError), over  *)
(* the state of SyncEngine and nothing else.                               *)
(***************************************************************************)
EXTENDS SyncEngine

(* Only a card payment or a preauthorised one is ever seen PENDING.        *)
Pendable == Card \cup Stable
(* The inflow of a transfer: YNAB makes its entry, as the leg.             *)
Secondary == {p[2] : p \in Pairs}

(* Transactions accounted for by one key: no card, no leg of a transfer,   *)
(* and no confusion between a placeholder and another transaction.         *)
Solo == {t \in Tx \ (Card \cup Primary \cup Secondary) :
           \A u \in Tx \ {t} : t \in Stable \/ u \in Pendable =>
             ~LooksLike(t, u) /\ ~LooksLike(u, t)}
(* The tracking keys of these.                                             *)
SoloKey == {k \in Key : k[1] \in Solo}

-----------------------------------------------------------------------------
(* Everything the engine holds goes back to a report of the bank.          *)

Reported(t, st) ==
  /\ bank[t] \in Seen
  /\ st = "PENDING" => t \in Pendable
  /\ st = "BOOKED" => bank[t] = "BOOKED"

(* Rows, entries, work, corrections and links, each of a report that       *)
(* justifies it.                                                           *)
Sourced ==
  /\ \A t \in Tx : bank[t] = "PENDING" => t \in Pendable
  /\ \A o \in cls.seen : Reported(o[1], o[2])
  /\ \A w \in cls.creates \cup cls.matches : Reported(w.key[1], w.status)
  /\ \A u \in cls.updates :
       /\ Reported(u.new[1], "BOOKED") /\ Reported(u.old[1], "PENDING")
       /\ u.old[1] # u.new[1] => LooksLike(u.new[1], u.old[1])
  /\ \A t \in cls.links : bank[SecondaryOf(t)] = "BOOKED"
  /\ \A k \in Key : tracked[k] # NoRow => Reported(k[1], StatusOf(k))
  /\ \A y \in Id : Made(y) => OwnerOf(y) \in Cast
  /\ \A y \in ImportId \cup ReevalId : Made(y) => bank[OwnerOf(y)] \in Seen
  /\ \A y \in LegId : Made(y) => y.tx \in Secondary

(* What is under way follows from the classified cycle, which is kept.     *)
Replaces(w) ==
  /\ w.status = "BOOKED"
  /\ \E u \in cls.updates :
       w.key = u.new /\ w.iid = Reeval(u.new, u.id) /\ ynab[u.id] = "deleted"

(* Corrections, replies and replacements of the cycle in hand only.        *)
Follows ==
  /\ todo \subseteq cls.seen /\ (phase # "classify" => todo = {})
  /\ fixes \subseteq cls.updates
  /\ fixes # {} => phase \in {"update", "repost", "rematch"}
  /\ sub = "book" => cur \in cls.updates
  /\ \A w \in cls.creates \cup cls.matches : w.iid = Import(w.key)
  /\ Replies # {} => phase \in {"record", "match", "rematch"}
  /\ phase = "match" => Replies \subseteq cls.matches
  /\ phase = "repost" => Replaces(cur)
  /\ phase = "rematch" => \A w \in Replies : Replaces(w)

(* Nothing of a transaction that resembles no other is taken for another's,*)
(* nor the other way round.                                                *)
Apart == {t \in Cast : \A u \in Cast \ {t} : ~LooksLike(t, u) /\ ~LooksLike(u, t)}
Akin(t, u) == t \in Apart \/ u \in Apart => t = u

(* Rows, native matches, corrections and manual matches stay with their    *)
(* transaction, and a delete under way never aims at what its row tracks.  *)
Owned ==
  /\ \A k \in Key : tracked[k] # NoRow => Akin(k[1], OwnerOf(tracked[k].id))
  /\ \A y \in Id : Hidden(y) => Akin(OwnerOf(y), match[y].tx)
  /\ \A u \in cls.updates : Akin(u.new[1], u.old[1]) /\ Akin(u.new[1], OwnerOf(u.id))
  /\ \A w \in cls.matches : Akin(w.key[1], OwnerOf(w.orig))
  /\ phase = "repost" => Akin(cur.key[1], OwnerOf(cur.orig))
  /\ phase = "rematch" => \A w \in Replies : Akin(w.key[1], OwnerOf(w.orig))
  /\ sub = "delete" =>
       /\ Akin(cur.key[1], OwnerOf(cur.orig))
       /\ tracked[cur.key] # NoRow /\ tracked[cur.key].id # cur.orig

-----------------------------------------------------------------------------
(* One key, one entry.  For a key k of a Solo transaction: the entry made  *)
(* under its import_id, at most one replacement made under a reeval id     *)
(* (once what it replaces was deleted), and an entry of the user's taken   *)
(* over when the engine's own is hidden behind it.                         *)

Remade(k) == {y \in FirstId : Made(Reeval(k, y))}

(* A row tracks the first entry, its replacement, or the one taken over.   *)
RowOf(k) ==
  LET y == tracked[k].id IN
  /\ Made(Import(k))
  /\ \/ y = Import(k) \/ (y \in Unimported /\ ~Visible(Import(k)))
     \/ y \in {Reeval(k, z) : z \in Remade(k)}
  /\ y \in Unimported /\ Visible(y) => \A z \in Remade(k) : Hidden(Reeval(k, z))
  /\ StatusOf(k) = "PENDING" =>
       /\ y = Import(k) \/ (y \in Unimported /\ Hidden(Import(k)))
       /\ Remade(k) \subseteq {y}
  /\ StatusOf(k) = "DELETED" /\ k[1] \notin Stable => y = Import(k)

(* A correction keeps its key and knows the entry its row tracks.          *)
CorrectionOf(k, u) ==
  /\ u.old = k /\ u.new = k
  /\ u.id = Import(k) \/ (u.id \in Unimported /\ Hidden(Import(k)))
  /\ Remade(k) \subseteq {u.id}
  /\ tracked[k] # NoRow
  /\ u.id = tracked[k].id \/ u.id \in Remade(k)

(* All of this for each Solo key; and what is tracked as DELETED is.       *)
OneKey ==
  /\ \A k \in SoloKey :
       /\ tracked[k] # NoRow => RowOf(k)
       /\ \A y \in Remade(k) :
            /\ k[1] \in Stable /\ Made(Import(k)) /\ ~Visible(Import(k))
            /\ ynab[y] = "deleted" /\ Remade(k) = {y}
       /\ \A u \in cls.updates : k \in {u.old, u.new} => CorrectionOf(k, u)
       /\ \A w \in reply.new : w.key = k /\ phase \in {"record", "match"} =>
            Remade(k) = {} /\ \A u \in cls.updates : u.new # k
  /\ \A k \in Key : StatusOf(k) = "DELETED" => ynab[tracked[k].id] = "deleted"

-----------------------------------------------------------------------------
(* What the cycle has classified is tracked, knowingly left alone, or still*)
(* to come.                                                                *)
ToCome ==
  {w \in cls.creates : phase \in {"classify", "create", "failed"}} \cup
  {w \in Replies : phase \in {"record", "match"}} \cup
  {w \in cls.matches : phase # "match"}

(* A Solo transaction past classification is in one of these three places. *)
Accounted ==
  \A o \in cls.seen \ todo : o[1] \in Solo =>
    \/ tracked[KeyOf(o)] # NoRow
    \/ LeftAlone(o)
    \/ \E w \in ToCome : w.key = KeyOf(o)

-----------------------------------------------------------------------------
(* A cycle works on each transaction once.                                 *)
Works == cls.creates \cup cls.matches

OneEach ==
  /\ \A o, p \in cls.seen : o[1] = p[1] => o = p
  /\ \A w \in Works : <<w.key[1], w.status>> \in cls.seen
  /\ \A v, w \in Works : v.key[1] = w.key[1] => v = w
  /\ \A w \in cls.creates : w.orig = NoId
  /\ phase = "classify" => \A w \in Works :
       tracked[w.key] = NoRow /\ <<w.key[1], w.status>> \notin todo

(* What a row says lasts: a response still to be recorded finds no row, or *)
(* one that says the same, and a leg is never taken for deleted.           *)
LegKey(t) == KeyOf(<<SecondaryOf(t), "BOOKED">>)

Lasting ==
  /\ phase = "classify" => cls.links = {}
  /\ \A t \in cls.links :
       /\ StatusOf(LegKey(t)) # "DELETED"
       /\ \A w \in cls.creates : w.key[1] # SecondaryOf(t)
  /\ \A k \in Key : k[1] \notin Pendable /\ StatusOf(k) = "DELETED" => Made(Import(k))
  /\ phase \in {"record", "match"} =>
       \A w \in reply.new : w.key[1] \notin Pendable \ Solo =>
         StatusOf(w.key) \in {"untracked", w.status}

(* Where the user deletes nothing, what is tracked of a transaction that   *)
(* resembles no other stays in the register, and its matches are completed *)
(* only while an entry of the engine's stands for it.                      *)
Stands(k) == Made(Import(k)) /\ ~Hidden(Import(k))

UndisturbedKey(k) ==
  /\ ynab[Import(k)] # "deleted" /\ Remade(k) = {}
  /\ tracked[k] # NoRow => ynab[tracked[k].id] = "live"
  /\ Stands(k) \/ \A y \in Unimported : OwnerOf(y) = k[1] => ynab[y] # "deleted"
  /\ sub = "delete" /\ cur.key = k => Stands(k)
  /\ \A w \in cls.matches :
       w.key = k /\ tracked[k] # NoRow => tracked[k].id \in {w.iid, w.orig}

Undisturbed ==
  "user_delete" \notin Faults => \A k \in SoloKey : k[1] \in Apart => UndisturbedKey(k)

(* The inductive invariant.                                                *)
LedgerInv ==
  /\ RealInv /\ Sourced /\ Follows /\ Owned /\ OneKey /\ Accounted
  /\ OneEach /\ Lasting /\ Undisturbed
=============================================================================
