---------------------------- MODULE Ledger_proofs ----------------------------
(***************************************************************************)
(* Proofs of SyncEngine's promises about the register, for every set of    *)
(* transactions, every configuration and every combination of faults: what *)
(* each step may do to the bank, to YNAB, to the cycle and to the table    *)
(* first, then the inductive invariants of Ledger, then the promises.      *)
(***************************************************************************)
EXTENDS Ledger, SyncEngine_proofs, FiniteSetTheorems, FunctionTheorems

-----------------------------------------------------------------------------
(* What a step may do.                                                     *)

(* A retried match found in the plain listing ends with the delete.        *)
LEMMA FoundOurs ==
  ASSUME NEW w, Findable(w)
  PROVE  MatchedId(w) = w.iid /\ Ending(w) = "delete"
  BY DEF Findable, Visible, MatchedId, Ending

(* The engine changes nothing at the bank.                                 *)
LEMMA BankSteps ==
  ASSUME [Next]_vars
  PROVE  UNCHANGED bank \/ \E t \in Tx : Appear(t) \/ Settle(t)
  <1>1. CASE Environment
    BY <1>1 DEF Environment, UserTypes, UserDeletes
  <1>2. CASE Fetch \/ Classify \/ MatchTransfers
    BY <1>2 DEF Fetch, Classify, ListAgain, MatchTransfers, ClassifyTracked, ClassifySettled,
       ClassifyManual, ClassifyNew, Classifying, remote
  <1>3. CASE Creates
    BY <1>3 DEF Creates, PostCreates, RecordLeg, LegMissing, FixLeg, Unclear, StartUpdates,
       RecordCreated, BackfillDuplicate, remote
  <1>4. CASE Updates
    BY <1>4 DEF Updates, BookUpdate, PostReplacement, ReplacementDone, PatchUpdate,
       RecoverWithoutRow, RecoverAsDeleted, RecoverAsReplaced, remote
  <1>5. CASE Matches
    BY <1>5 DEF Matches, PostMatches, DeleteOriginal, Finish, RecordMatched,
       MatchedAgain, remote
  <1>6. CASE Retry \/ Drop \/ Failures
    BY <1>6 DEF Retry, Drop, Failures, SubmitFails, FetchFails, Crash, remote
  <1>7. CASE UNCHANGED vars
    BY <1>7 DEF vars
  <1> QED BY <1>1, <1>2, <1>3, <1>4, <1>5, <1>6, <1>7 DEF Next

(* The bank only moves forward: a transaction appears, a PENDING one books.*)
LEMMA BankMoves ==
  ASSUME TypeInv, [Next]_vars
  PROVE  /\ bank' \in [Tx -> {"absent", "none", "PENDING", "BOOKED"}]
         /\ \A t \in Tx : \/ bank'[t] = bank[t]
                          \/ bank[t] = "none" /\ bank'[t] = "PENDING" /\ t \in Pendable
                          \/ bank[t] \in {"none", "PENDING"} /\ bank'[t] = "BOOKED"
  <1> USE DEF TypeInv
  <1>1. ASSUME NEW t \in Tx, Appear(t)
        PROVE  \A u \in Tx : \/ bank'[u] = bank[u]
                             \/ bank[u] = "none" /\ bank'[u] = "PENDING" /\ u \in Pendable
                             \/ bank[u] \in {"none", "PENDING"} /\ bank'[u] = "BOOKED"
    BY <1>1 DEF Appear, Seen, Pendable, TypeOK
  <1>2. ASSUME NEW t \in Tx, Settle(t)
        PROVE  \A u \in Tx : \/ bank'[u] = bank[u]
                             \/ bank[u] \in {"none", "PENDING"} /\ bank'[u] = "BOOKED"
    BY <1>2 DEF Settle, TypeOK
  <1>3. \/ UNCHANGED bank
        \/ \E t \in Tx : Appear(t) \/ Settle(t)
    BY BankSteps
  <1>4. bank' \in [Tx -> {"absent", "none", "PENDING", "BOOKED"}]
    BY TypeNext DEF TypeOK
  <1> QED BY <1>1, <1>2, <1>3, <1>4

(* What was reported stays reported, and nobody joins or leaves the cast.  *)
LEMMA ReportsStay ==
  ASSUME TypeInv, [Next]_vars
  PROVE  /\ \A t \in Tx, st \in Status : Reported(t, st) => Reported(t, st)'
         /\ \A t \in Tx : bank[t] \in Seen => bank'[t] \in Seen
         /\ Cast' = Cast /\ Apart' = Apart
  <1> USE DEF TypeInv
  <1>1. Cast' = Cast
    BY BankMoves DEF Cast
  <1>2. Apart' = Apart
    BY <1>1 DEF Apart
  <1>3. \A t \in Tx : bank[t] \in Seen => bank'[t] \in Seen
    BY BankMoves DEF Seen
  <1>4. \A t \in Tx, st \in Status : Reported(t, st) => Reported(t, st)'
    BY BankMoves DEF Reported, Seen
  <1> QED BY <1>1, <1>2, <1>3, <1>4

(* The classified cycle is built by fetch_and_classify, kept by submit, and*)
(* forgotten whole.                                                        *)
LEMMA CycleMoves ==
  ASSUME [Next]_vars
  PROVE  \/ UNCHANGED <<cls, todo>>
         \/ cls' = cls /\ todo' = {} /\ phase' = "failed" /\ phase # "classify"
         \/ /\ cls' = EmptyCycle /\ phase' = "idle"
            /\ todo' = {} \/ (todo' = todo /\ phase # "classify")
         \/ Fetch \/ MatchTransfers
         \/ \E o \in todo : \/ ClassifyTracked(o) \/ ClassifySettled(o)
                            \/ ClassifyManual(o) \/ ClassifyNew(o)
  <1>1. CASE Environment
    BY <1>1 DEF Environment, Appear, Settle, UserTypes, UserDeletes, volatile
  <1>2. CASE Creates
    BY <1>2 DEF Creates, PostCreates, RecordLeg, LegMissing, FixLeg, Unclear, StartUpdates,
       RecordCreated, BackfillDuplicate
  <1>3. CASE Updates
    BY <1>3 DEF Updates, BookUpdate, PostReplacement, ReplacementDone, PatchUpdate,
       RecoverWithoutRow, RecoverAsDeleted, RecoverAsReplaced, volatile
  <1>4. CASE Matches
    BY <1>4 DEF Matches, PostMatches, DeleteOriginal, Finish, UpdatesDone, RecordMatched,
       MatchedAgain, volatile
  <1>5. CASE Retry
    BY <1>5 DEF Retry, volatile
  <1>6. CASE SubmitFails
    BY <1>6 DEF SubmitFails, Submitting, Reset
  <1>7. CASE Drop \/ FetchFails \/ Crash
    <2>1. Reset /\ phase' = "idle" /\ cls' = EmptyCycle
      BY <1>7 DEF Drop, FetchFails, Crash
    <2>2. todo' = {}
      BY <2>1 DEF Reset
    <2> QED BY <2>1, <2>2
  <1>8. CASE UNCHANGED vars
    BY <1>8 DEF vars
  <1>9. CASE ListAgain
    BY <1>9 DEF ListAgain
  <1> QED BY <1>1, <1>2, <1>3, <1>4, <1>5, <1>6, <1>7, <1>8, <1>9 DEF Next, Classify, Failures

(* What create_transactions makes, hides and answers.  Nothing it makes was*)
(* there before: an import_id is reserved for ever, and a transfer's second*)
(* leg exists only when the first one does.                                *)
LEMMA PostEffect ==
  ASSUME TypeInv, RealInv, NEW W \in SUBSET Work, Post(W),
         phase = "create" => W = cls.creates
  PROVE  /\ \A y \in Id : ynab'[y] = ynab[y] \/ (ynab[y] = "none" /\ ynab'[y] = "live")
         /\ \A y \in Id : Made(y)' =>
              \/ Made(y)
              \/ \E w \in W : w.iid = y
              \/ \E w \in W : Linked(w) /\ y = Leg(SecondaryOf(w.key[1]))
         /\ \A y \in Id : match'[y] # match[y] =>
              /\ ynab[y] = "none" /\ match'[y] \in ManualId /\ Visible(match'[y])
              /\ \E w \in W : w.iid = y /\ LooksLike(w.key[1], match'[y].tx)
         /\ reply'.new \cup reply'.dup = W
         /\ \A w \in reply'.new : ynab[w.iid] = "none"
         /\ \A w \in reply'.dup : Made(w.iid)
  <1> USE DEF TypeInv
  <1>1. PICK hit \in SUBSET ({w.iid : w \in W} \X ManualId), legs \in SUBSET Legs(W) :
          PostWith(W, hit, legs)
    BY PostMatchesTyped
  <1>2. \A y \in Id : y \in Legs(W) \cup {w.iid : w \in New(W)} => ynab[y] = "none"
    <2> SUFFICES ASSUME NEW y \in Legs(W) PROVE ynab[y] = "none"
      BY DEF New
    <2>1. PICK v \in New(W) : Linked(v) /\ y = Leg(SecondaryOf(v.key[1]))
      BY DEF Legs
    <2>2. v \in cls.creates /\ v.key \in Key /\ v.key[1] \in Primary /\ v.iid = Import(v.key)
      BY <2>1, WorkType DEF New, Linked, TypeOK, Cycle, Shape
    <2>3. <<v.key[1], SecondaryOf(v.key[1])>> \in Pairs /\ v.key = <<v.key[1], "BOOKED">>
      BY <2>2, SecondaryType, PrimaryKey
    <2>4. ynab[Import(<<v.key[1], "BOOKED">>)] = "none"
      BY <2>2, <2>3 DEF New
    <2> QED BY <2>1, <2>3, <2>4 DEF RealInv, LegsLinked, Made
  <1>3. \A y \in Id : ynab'[y] = ynab[y] \/ (ynab[y] = "none" /\ ynab'[y] = "live")
    BY <1>1, <1>2 DEF PostWith
  <1>4. ASSUME NEW y \in Id, Made(y)', ~Made(y)
        PROVE  \/ \E w \in W : w.iid = y
               \/ \E w \in W : Linked(w) /\ y = Leg(SecondaryOf(w.key[1]))
    <2>1. y \in Legs(W) \cup {w.iid : w \in New(W)}
      BY <1>1, <1>4 DEF PostWith, Made
    <2> QED BY <2>1 DEF Legs, New
  <1>5. ASSUME NEW y \in Id, match'[y] # match[y]
        PROVE  /\ ynab[y] = "none" /\ match'[y] \in ManualId /\ Visible(match'[y])
               /\ \E w \in W : w.iid = y /\ LooksLike(w.key[1], match'[y].tx)
    <2>1. PICK h \in hit : h[1] = y /\ match'[y] = h[2]
      BY <1>1, <1>5 DEF PostWith
    <2>2. PICK w \in W : w.iid = h[1] /\ h[2] \in Anchors(w)
      BY <1>1 DEF PostWith
    <2> QED BY <2>1, <2>2 DEF Anchors
  <1>6. /\ reply'.new \cup reply'.dup = W
        /\ \A w \in reply'.new : ynab[w.iid] = "none"
        /\ \A w \in reply'.dup : Made(w.iid)
    BY <1>1 DEF PostWith, New, Made
  <1> QED BY <1>3, <1>4, <1>5, <1>6

(* A work item the engine submits in a step.                               *)
Submits(w) ==
  \/ PostCreates /\ w \in cls.creates
  \/ PostReplacement /\ w = cur
  \/ PostMatches /\ w \in cls.matches


(* The leg YNAB makes for an accepted half of a transfer.                  *)
SubmitsLeg(y) ==
  PostCreates /\ \E w \in cls.creates : ItsPrimary(w) /\ y = Leg(SecondaryOf(w.key[1]))

(* What a step may do to YNAB: what it made stays made, what is deleted or *)
(* hidden stays so, and what is new was typed or submitted.                *)
LEMMA RemoteMoves ==
  ASSUME TypeInv, RealInv, [Next]_vars
  PROVE  /\ \A y \in Id : ynab[y] = "deleted" => ynab'[y] = "deleted"
         /\ \A y \in Id : Made(y) => Made(y)'
         /\ \A y \in Id : Hidden(y) => Hidden(y)' /\ match'[y] = match[y]
         /\ \A y \in Id : Made(y) /\ ~Visible(y) => ~Visible(y)'
         /\ \A y \in Id : Made(y)' =>
              \/ Made(y)
              \/ y \in ManualId /\ y.tx \in Cast
              \/ \E w : Submits(w) /\ w.iid = y
              \/ SubmitsLeg(y)
         /\ \A y \in Id : Hidden(y)' =>
              \/ Hidden(y)
              \/ /\ ynab[y] = "none" /\ match'[y] \in ManualId /\ Visible(match'[y])
                 /\ \E w : Submits(w) /\ w.iid = y /\ LooksLike(w.key[1], match'[y].tx)
  <1> USE DEF TypeInv
  <1>0. \A y \in Id : Made(y) => Made(y)' /\ (~Hidden(y) => ~Hidden(y)')
    BY RemoteReal
  <1>a. \A y \in Id : Hidden(y) => ynab[y] = "live"
    BY DEF RealInv, ShadowsLive
  <1>1. CASE UNCHANGED <<ynab, match>>
    BY <1>1 DEF Made, Hidden, Visible
  <1>2. ASSUME NEW z \in ManualId, UserTypes(z)
        PROVE  /\ \A y \in Id : ynab'[y] = ynab[y] \/ (y = z /\ z.tx \in Cast)
               /\ match' = match /\ ynab[z] = "none"
    BY <1>2 DEF UserTypes, TypeOK
  <1>3. ASSUME NEW z, Delete(z)
        PROVE  \A y \in Id : ynab'[y] = ynab[y] \/ (ynab[y] = "live" /\ ynab'[y] = "deleted")
    BY <1>3 DEF Delete
  <1>4. CASE (\E z \in Id : UserDeletes(z)) \/ DeleteOriginal
    <2>1. /\ \A y \in Id : ynab'[y] = ynab[y] \/ (ynab[y] = "live" /\ ynab'[y] = "deleted")
          /\ match' = match
      BY <1>3, <1>4 DEF UserDeletes, DeleteOriginal
    <2> QED BY <2>1 DEF Made, Hidden, Visible
  <1>5. ASSUME NEW W \in SUBSET Work, Post(W), phase = "create" => W = cls.creates,
               \A w \in W : Submits(w),
               \A w \in W : Linked(w) => SubmitsLeg(Leg(SecondaryOf(w.key[1])))
        PROVE  /\ \A y \in Id : ynab[y] = "deleted" => ynab'[y] = "deleted"
               /\ \A y \in Id : Hidden(y) => Hidden(y)' /\ match'[y] = match[y]
               /\ \A y \in Id : Made(y) /\ ~Visible(y) => ~Visible(y)'
               /\ \A y \in Id : Made(y)' =>
                    Made(y) \/ (\E w : Submits(w) /\ w.iid = y) \/ SubmitsLeg(y)
               /\ \A y \in Id : Hidden(y)' =>
                    \/ Hidden(y)
                    \/ /\ ynab[y] = "none" /\ match'[y] \in ManualId /\ Visible(match'[y])
                       /\ \E w : Submits(w) /\ w.iid = y /\ LooksLike(w.key[1], match'[y].tx)
    <2>1. /\ \A y \in Id : ynab'[y] = ynab[y] \/ (ynab[y] = "none" /\ ynab'[y] = "live")
          /\ \A y \in Id : Made(y)' =>
               \/ Made(y)
               \/ \E w \in W : w.iid = y
               \/ \E w \in W : Linked(w) /\ y = Leg(SecondaryOf(w.key[1]))
          /\ \A y \in Id : match'[y] # match[y] =>
               /\ ynab[y] = "none" /\ match'[y] \in ManualId /\ Visible(match'[y])
               /\ \E w \in W : w.iid = y /\ LooksLike(w.key[1], match'[y].tx)
      BY <1>5, PostEffect
    <2>2. \A y \in Id : Hidden(y) => Hidden(y)' /\ match'[y] = match[y]
      BY <1>a, <2>1 DEF Hidden
    <2>3. \A y \in Id : Made(y) /\ ~Visible(y) => ~Visible(y)'
      BY <2>1, <2>2 DEF Made, Visible, Hidden
    <2>4. \A y \in Id : Made(y)' =>
            Made(y) \/ (\E w : Submits(w) /\ w.iid = y) \/ SubmitsLeg(y)
      BY <1>5, <2>1
    <2>5. ASSUME NEW y \in Id, Hidden(y)', ~Hidden(y)
          PROVE  /\ ynab[y] = "none" /\ match'[y] \in ManualId /\ Visible(match'[y])
                 /\ \E w : Submits(w) /\ w.iid = y /\ LooksLike(w.key[1], match'[y].tx)
      <3>1. match'[y] # match[y]
        BY <2>5 DEF Hidden
      <3> QED BY <1>5, <2>1, <3>1
    <2>6. \A y \in Id : ynab[y] = "deleted" => ynab'[y] = "deleted"
      BY <2>1
    <2> QED BY <2>2, <2>3, <2>4, <2>5, <2>6
  <1>6. CASE PostCreates
    <2>1. cls.creates \in SUBSET Work /\ Post(cls.creates) /\ phase = "create"
      BY <1>6 DEF PostCreates, TypeOK, Cycle
    <2>2. /\ \A w \in cls.creates : Submits(w)
          /\ \A w \in cls.creates : Linked(w) => SubmitsLeg(Leg(SecondaryOf(w.key[1])))
      BY <1>6 DEF Submits, SubmitsLeg, Linked, ItsPrimary
    <2> QED BY <1>0, <1>5, <2>1, <2>2
  <1>7. CASE PostReplacement
    <2>1. {cur} \in SUBSET Work /\ Post({cur}) /\ phase # "create"
      BY <1>7 DEF PostReplacement, Shape
    <2>2. /\ \A w \in {cur} : Submits(w)
          /\ \A w \in {cur} : ~Linked(w)
      BY <1>7, <2>1 DEF Submits, Linked
    <2> QED BY <1>0, <1>5, <2>1, <2>2
  <1>8. CASE PostMatches
    <2>1. cls.matches \in SUBSET Work /\ Post(cls.matches) /\ phase # "create"
      BY <1>8 DEF PostMatches, UpdatesDone, TypeOK, Cycle
    <2>2. /\ \A w \in cls.matches : Submits(w)
          /\ \A w \in cls.matches : ~Linked(w)
      BY <1>8, <2>1 DEF Submits, Linked
    <2> QED BY <1>0, <1>5, <2>1, <2>2
  <1>9. CASE \E z \in ManualId : UserTypes(z)
    <2>1. PICK z \in ManualId : UserTypes(z)
      BY <1>9
    <2> QED BY <1>0, <1>2, <2>1 DEF Made, Hidden, Visible
  <1> QED BY <1>1, <1>4, <1>6, <1>7, <1>8, <1>9, RemoteChanges

(* Whose transaction a key or an id is.                                    *)
LEMMA Owners ==
  /\ \A o \in Obs : KeyOf(o)[1] = o[1] /\ o[1] \in Tx /\ o[2] \in Seen
  /\ \A k \in Key : k[1] \in Tx
  /\ \A k \in Key : OwnerOf(Import(k)) = k[1]
  /\ \A k \in Key, y \in FirstId : OwnerOf(Reeval(k, y)) = k[1]
  /\ \A t \in Tx : OwnerOf(Leg(t)) = t
  /\ \A y \in Unimported : OwnerOf(y) = y.tx /\ y.tx \in Tx
  /\ \A y \in Id : OwnerOf(y) \in Tx
  <1>1. \A o \in Obs : KeyOf(o)[1] = o[1] /\ o[1] \in Tx /\ o[2] \in Seen
    BY DEF KeyOf, Obs
  <1>2. \A k \in Key : k[1] \in Tx
    BY <1>1 DEF Key
  <1>3. /\ \A k \in Key : OwnerOf(Import(k)) = k[1]
        /\ \A k \in Key, y \in FirstId : OwnerOf(Reeval(k, y)) = k[1]
        /\ \A t \in Tx : OwnerOf(Leg(t)) = t
    BY IdType DEF OwnerOf, Import, Reeval, Leg
  <1>4. \A y \in Unimported : OwnerOf(y) = y.tx /\ y.tx \in Tx
    BY DEF OwnerOf, Unimported, ManualId, LegId
  <1>5. \A y \in Id : OwnerOf(y) \in Tx
    <2>1. \A y \in ImportId \cup ReevalId : y.key \in Key /\ y \notin Unimported
      BY IdType DEF ImportId, ReevalId
    <2> QED BY <1>2, <1>4, <2>1 DEF OwnerOf, Id, FirstId, Unimported
  <1> QED BY <1>1, <1>2, <1>3, <1>4, <1>5

(* What the classification of one observation adds to the cycle.           *)
LEMMA Classified ==
  ASSUME TypeInv, NEW o \in todo,
         \/ ClassifyTracked(o) \/ ClassifySettled(o)
         \/ ClassifyManual(o) \/ ClassifyNew(o)
  PROVE  /\ o \in Obs /\ KeyOf(o) \in Key /\ phase = "classify" /\ phase' = "classify"
         /\ todo' = todo \ {o}
         /\ UNCHANGED <<bank, ynab, match, tracked, sub, fixes, reply, cur>>
         /\ cls'.seen = cls.seen /\ cls'.links = cls.links
         /\ cls.creates \subseteq cls'.creates /\ cls.matches \subseteq cls'.matches
         /\ \A w \in cls'.creates : w \in cls.creates
              \/ (w = WorkFor(o, NoId) /\ tracked[KeyOf(o)] = NoRow)
         /\ \A w \in cls'.matches : \/ w \in cls.matches
              \/ /\ tracked[KeyOf(o)] = NoRow
                 /\ \E y \in pool.manual : w = WorkFor(o, y) /\ LooksLike(o[1], OwnerOf(y))
         /\ \A u \in cls'.updates : \/ u \in cls.updates
              \/ /\ u.new = KeyOf(o) /\ o[2] = "BOOKED" /\ u.old \in Key
                 /\ StatusOf(u.old) = "PENDING" /\ u.id = tracked[u.old].id
                 /\ \/ u.old = u.new
                    \/ tracked[KeyOf(o)] = NoRow /\ LooksLike(o[1], u.old[1])
         /\ \/ tracked[KeyOf(o)] # NoRow
            \/ \E w \in cls'.creates \cup cls'.matches : w.key = KeyOf(o)
            \/ \E u \in cls'.updates : u.new = KeyOf(o) /\ u.old \in pool.pending
                                       /\ LooksLike(o[1], u.old[1])
  <1> USE DEF TypeInv
  <1>1. o \in Obs /\ KeyOf(o) \in Key
    BY KeyType DEF TypeOK
  <1>2. /\ phase = "classify" /\ phase' = "classify" /\ todo' = todo \ {o}
        /\ UNCHANGED <<bank, ynab, match, tracked, sub, fixes, reply, cur>>
    BY DEF ClassifyTracked, ClassifySettled, ClassifyManual, ClassifyNew, Classifying, remote
  <1>3. CASE ClassifyTracked(o)
    <2>1. cls' = [cls EXCEPT !.updates = @ \cup
            {[old |-> k, new |-> k, id |-> tracked[k].id] :
               k \in {k \in {KeyOf(o)} : o[2] = "BOOKED" /\ StatusOf(k) = "PENDING"}}]
      BY <1>3 DEF ClassifyTracked
    <2>2. /\ cls'.seen = cls.seen /\ cls'.links = cls.links
          /\ cls'.creates = cls.creates /\ cls'.matches = cls.matches
          /\ \A u \in cls'.updates : \/ u \in cls.updates
               \/ /\ u.new = KeyOf(o) /\ o[2] = "BOOKED" /\ u.old = KeyOf(o)
                  /\ StatusOf(u.old) = "PENDING" /\ u.id = tracked[u.old].id
      BY <2>1 DEF TypeOK, Cycle
    <2>3. tracked[KeyOf(o)] # NoRow
      BY <1>3 DEF ClassifyTracked
    <2> QED BY <1>1, <1>2, <2>2, <2>3
  <1>4. CASE ClassifySettled(o)
    <2> DEFINE k == The(Settles(o))
               v == [old |-> k, new |-> KeyOf(o), id |-> tracked[k].id]
    <2>1. k \in Settles(o)
      BY <1>4 DEF ClassifySettled, Unique, The
    <2>2. o[2] = "BOOKED" /\ k \in pool.pending /\ LooksLike(o[1], k[1])
      BY <2>1 DEF Settles
    <2>3. k \in Key /\ StatusOf(k) = "PENDING"
      BY <2>2 DEF TypeOK, Pool, Shape
    <2>4. cls' = [cls EXCEPT !.updates = @ \cup {v}] /\ tracked[KeyOf(o)] = NoRow
      BY <1>4 DEF ClassifySettled
    <2>a. v.old = k /\ v.new = KeyOf(o) /\ v.id = tracked[k].id
      OBVIOUS
    <2> HIDE DEF v, k
    <2>5. /\ cls'.seen = cls.seen /\ cls'.links = cls.links
          /\ cls'.creates = cls.creates /\ cls'.matches = cls.matches
          /\ cls'.updates = cls.updates \cup {v}
      BY <2>4 DEF TypeOK, Cycle
    <2> QED BY <1>1, <1>2, <2>2, <2>3, <2>4, <2>5, <2>a
  <1>5. CASE ClassifyManual(o)
    <2> DEFINE y == The(Typed(o))
    <2>1. y \in Typed(o)
      BY <1>5 DEF ClassifyManual, Unique, The
    <2>2. y \in pool.manual /\ LooksLike(o[1], OwnerOf(y))
      BY <2>1 DEF Typed
    <2>3. cls' = [cls EXCEPT !.matches = @ \cup {WorkFor(o, y)}] /\ tracked[KeyOf(o)] = NoRow
      BY <1>5 DEF ClassifyManual
    <2> HIDE DEF y
    <2>4. /\ cls'.seen = cls.seen /\ cls'.links = cls.links
          /\ cls'.creates = cls.creates /\ cls'.updates = cls.updates
          /\ cls'.matches = cls.matches \cup {WorkFor(o, y)}
      BY <2>3 DEF TypeOK, Cycle
    <2>5. WorkFor(o, y).key = KeyOf(o)
      BY DEF WorkFor
    <2> QED BY <1>1, <1>2, <2>2, <2>3, <2>4, <2>5
  <1>6. CASE ClassifyNew(o)
    <2>1. cls' = [cls EXCEPT !.creates = @ \cup {WorkFor(o, NoId)}] /\ tracked[KeyOf(o)] = NoRow
      BY <1>6 DEF ClassifyNew
    <2>2. /\ cls'.seen = cls.seen /\ cls'.links = cls.links
          /\ cls'.matches = cls.matches /\ cls'.updates = cls.updates
          /\ cls'.creates = cls.creates \cup {WorkFor(o, NoId)}
      BY <2>1 DEF TypeOK, Cycle
    <2>3. WorkFor(o, NoId).key = KeyOf(o)
      BY DEF WorkFor
    <2> QED BY <1>1, <1>2, <2>1, <2>2, <2>3
  <1> QED BY <1>3, <1>4, <1>5, <1>6

(* What MatchTransfers keeps, and what it links.                           *)
LEMMA Linking ==
  ASSUME TypeInv, MatchTransfers
  PROVE  /\ phase = "classify" /\ phase' = "create" /\ todo = {} /\ todo' = todo
         /\ UNCHANGED <<bank, ynab, match, tracked, sub, fixes, reply, cur>>
         /\ cls'.seen = cls.seen /\ cls'.matches = cls.matches /\ cls'.updates = cls.updates
         /\ \A t \in cls'.links : \E w \in cls.creates :
              t \in Primary /\ w.key[1] = SecondaryOf(t)
         /\ \A w \in cls'.creates : w \in cls.creates
              /\ \A p \in Pairs : p[1] \in cls'.links => w.key[1] # p[2]
         /\ \A w \in cls.creates : w.key[1] \notin Secondary => w \in cls'.creates
  <1> USE DEF TypeInv
  <1>0. PICK linked \in SUBSET Linkable :
          cls' = [cls EXCEPT !.links = {p[1] : p \in linked},
                             !.creates = {w \in @ : w.key[1] \notin Withheld(linked)}]
    BY DEF MatchTransfers
  <1> DEFINE links == {p[1] : p \in linked}
             creates == {w \in cls.creates : w.key[1] \notin Withheld(linked)}
  <1>1. cls' = [cls EXCEPT !.links = links, !.creates = creates]
    BY <1>0
  <1>2. ASSUME NEW t \in links
        PROVE  \E w \in cls.creates : t \in Primary /\ w.key[1] = SecondaryOf(t)
    <2>1. PICK p \in Linkable : t = p[1]
      OBVIOUS
    <2>2. t \in Primary /\ <<t, SecondaryOf(t)>> \in Pairs
      BY <2>1, SecondaryType DEF Primary, Linkable
    <2>3. p[2] = SecondaryOf(t)
      <3>1. p[1] \in {p[1], p[2]} \cap {<<t, SecondaryOf(t)>>[1], <<t, SecondaryOf(t)>>[2]}
        BY <2>1
      <3>2. p = <<t, SecondaryOf(t)>>
        BY <2>1, <2>2, <3>1, EngineAssumption DEF Linkable
      <3> QED BY <3>2
    <2> QED BY <2>1, <2>2, <2>3 DEF Linkable
  <1>3. \A w \in creates : w \in cls.creates /\ \A p \in linked : w.key[1] # p[2]
    BY DEF Withheld
  <1>4. \A p \in Pairs : p[1] \in links => p \in linked
    <2> SUFFICES ASSUME NEW p \in Pairs, NEW q \in linked, p[1] = q[1] PROVE p \in linked
      OBVIOUS
    <2>1. p[1] \in {p[1], p[2]} \cap {q[1], q[2]} /\ q \in Pairs
      BY DEF Linkable
    <2> QED BY <2>1, EngineAssumption
  <1>5. \A w \in cls.creates : w.key[1] \notin Secondary => w \in creates
    BY DEF Secondary, Withheld, Linkable
  <1> HIDE DEF links, creates
  <1>6. /\ cls'.seen = cls.seen /\ cls'.matches = cls.matches /\ cls'.updates = cls.updates
        /\ cls'.links = links /\ cls'.creates = creates
    BY <1>1 DEF TypeOK, Cycle
  <1> QED BY <1>2, <1>3, <1>4, <1>5, <1>6 DEF MatchTransfers, remote

-----------------------------------------------------------------------------
(* Everything goes back to a report of the bank.                           *)

(* What the engine submits was reported, and is owed to a key.             *)
LEMMA SubmitsSourced ==
  ASSUME TypeInv, Sourced, Follows, NEW w, Submits(w)
  PROVE  /\ w \in Work /\ w.key \in Key /\ w.iid \in Id /\ w.iid \in ImportId \cup ReevalId
         /\ OwnerOf(w.iid) = w.key[1] /\ Reported(w.key[1], w.status)
         /\ w.iid = Import(w.key) \/ (PostReplacement /\ w = cur /\ Replaces(w))
  <1> USE DEF TypeInv
  <1>1. CASE PostReplacement /\ w = cur
    <2>1. w \in Work /\ phase = "repost" /\ Replaces(w)
      BY <1>1 DEF PostReplacement, Shape, Follows
    <2>2. PICK u \in cls.updates : w.key = u.new /\ w.iid = Reeval(u.new, u.id)
      BY <2>1 DEF Replaces
    <2>3. u.new \in Key /\ u.id \in FirstId
      BY DEF TypeOK, Cycle, Update
    <2>4. w.iid \in ReevalId /\ OwnerOf(w.iid) = w.key[1]
      BY <2>2, <2>3, IdType, Owners
    <2>5. Reported(w.key[1], w.status)
      BY <2>1, <2>2 DEF Sourced, Replaces
    <2> QED BY <1>1, <2>1, <2>4, <2>5, WorkType
  <1>2. CASE ~(PostReplacement /\ w = cur)
    <2>1. w \in cls.creates \cup cls.matches
      BY <1>2 DEF Submits
    <2>2. w \in Work /\ w.iid = Import(w.key) /\ Reported(w.key[1], w.status)
      BY <2>1 DEF TypeOK, Cycle, Follows, Sourced
    <2> QED BY <2>2, WorkType, Owners, IdType
  <1> QED BY <1>1, <1>2

(* The response carries what was submitted.                                *)
LEMMA RepliesSourced ==
  ASSUME TypeInv, Sourced, Follows, NEW w \in Replies
  PROVE  /\ w \in Work /\ w.key \in Key
         /\ Reported(w.key[1], w.status)
         /\ \/ phase = "record" /\ w \in cls.creates /\ w.iid = Import(w.key)
            \/ phase = "match" /\ w \in cls.matches /\ w.iid = Import(w.key)
            \/ phase = "rematch" /\ Replaces(w)
  <1> USE DEF TypeInv
  <1>1. w \in Work /\ w.key \in Key
    BY WorkType DEF TypeOK, Reply, Replies
  <1>2. \/ phase = "record" /\ w \in cls.creates /\ w.iid = Import(w.key)
        \/ phase = "match" /\ w \in cls.matches /\ w.iid = Import(w.key)
        \/ phase = "rematch" /\ Replaces(w)
    BY DEF Follows, Shape
  <1>3. Reported(w.key[1], w.status)
    BY <1>2 DEF Sourced, Replaces
  <1> QED BY <1>1, <1>2, <1>3

(* The second leg of a linked primary.                                     *)
LEMMA LinkedLeg ==
  ASSUME TypeInv, Sourced, NEW t \in cls.links
  PROVE  /\ SecondaryOf(t) \in Secondary /\ SecondaryOf(t) \in Tx
         /\ bank[SecondaryOf(t)] = "BOOKED"
         /\ KeyOf(<<SecondaryOf(t), "BOOKED">>) \in Key
         /\ KeyOf(<<SecondaryOf(t), "BOOKED">>)[1] = SecondaryOf(t)
         /\ Leg(SecondaryOf(t)) \in LegId
  <1> DEFINE s == SecondaryOf(t)
  <1>1. t \in Primary
    BY DEF TypeInv, TypeOK, Cycle
  <1>2. s \in Tx /\ <<t, s>> \in Pairs
    BY <1>1, SecondaryType
  <1>3. s \in Secondary
    BY <1>2 DEF Secondary
  <1>4. <<s, "BOOKED">> \in Obs
    BY <1>2 DEF Obs, Seen
  <1> QED BY <1>2, <1>3, <1>4, KeyType, Owners, IdType DEF Sourced

(* Rows, and what YNAB has, go back to a report.                           *)
LEMMA RowsSourced ==
  ASSUME TypeInv, RealInv, Sourced, Follows, [Next]_vars
  PROVE  /\ \A k \in Key : tracked'[k] # NoRow => Reported(k[1], StatusOf(k))'
         /\ \A y \in Id : Made(y)' => OwnerOf(y) \in Cast'
         /\ \A y \in ImportId \cup ReevalId : Made(y)' => bank'[OwnerOf(y)] \in Seen
         /\ \A y \in LegId : Made(y)' => y.tx \in Secondary
  <1> USE DEF TypeInv
  <1> DEFINE Backed(k, st) == Reported(k[1], st)
  <1>1. \A k \in Key : tracked[k] # NoRow => Backed(k, tracked[k].status)
    BY DEF Sourced, StatusOf
  <1>2. \A k \in Key, st \in Status : Backed(k, st) => Backed(k, st)'
    BY ReportsStay, Owners
  <1>3. \A k \in Key : tracked[k] # NoRow => tracked[k].status \in Status
    BY RowType DEF TypeOK
  <1>4. \A k \in Key : Backed(k, "BOOKED") \/ Backed(k, "PENDING") => Backed(k, "DELETED")
    BY DEF Reported
  <1> HIDE DEF Backed
  <1>5. \A k \in Key : tracked'[k] # NoRow =>
          tracked'[k].status \in Status /\ Backed(k, tracked'[k].status)
    <2> DEFINE Fine == \A k \in Key : tracked'[k] # NoRow =>
                         tracked'[k].status \in Status /\ Backed(k, tracked'[k].status)
    <2>1. ASSUME NEW k \in Key, NEW st \in Status, NEW y, Backed(k, st),
                 tracked' = [tracked EXCEPT ![k] = [status |-> st, id |-> y]]
          PROVE  Fine
      BY <1>1, <1>3, <2>1 DEF TypeOK
    <2>2. CASE UNCHANGED tracked
      BY <1>1, <1>3, <2>2
    <2>3. CASE RecordLeg
      <3>1. cur.key[1] \in cls.links
        BY <2>3 DEF RecordLeg, Shape, ItsPrimary
      <3>2. Backed(KeyOf(<<SecondaryOf(cur.key[1]), "BOOKED">>), "BOOKED")
        BY <3>1, LinkedLeg DEF Reported, Seen, Backed
      <3> QED BY <2>1, <2>3, <3>1, <3>2, LinkedLeg DEF RecordLeg, Track, Status
    <2>4. CASE BookUpdate
      <3>1. cur \in cls.updates /\ cur \in Update /\ Backed(cur.new, "BOOKED")
        BY <2>4 DEF BookUpdate, Follows, Sourced, TypeOK, Cycle, Backed
      <3>2. tracked' = Moved(cur) \/ tracked' = tracked
        BY <2>4 DEF BookUpdate
      <3> QED BY <1>1, <1>3, <3>1, <3>2 DEF Moved, TypeOK, Update, Status
    <2>5. CASE Crash
      BY <1>1, <1>3, <2>5 DEF Crash
    <2>6. ASSUME NEW w \in Replies
          PROVE  w.key \in Key /\ w.status \in Status /\ Backed(w.key, w.status)
                 /\ Backed(w.key, "DELETED")
      BY <1>4, RepliesSourced, WorkType DEF Seen, Status, Backed
    <2>7. ASSUME NEW w \in reply.new, RecordCreated(w) \/ RecordMatched(w) PROVE Fine
      BY <2>1, <2>6, <2>7 DEF RecordCreated, RecordMatched, Track, Replies
    <2>8. ASSUME NEW w \in reply.dup, BackfillDuplicate(w) \/ MatchedAgain(w) PROVE Fine
      <3>1. \/ tracked' = tracked
            \/ \E st \in {w.status, "DELETED"} :
                 tracked' = [tracked EXCEPT ![w.key] = [status |-> st, id |-> w.iid]]
        BY <2>8, FoundOurs DEF BackfillDuplicate, MatchedAgain, DuplicateStatus
      <3>2. CASE tracked' = tracked
        BY <2>2, <3>2
      <3>3. CASE tracked' # tracked
        <4>1. PICK st \in {w.status, "DELETED"} :
                tracked' = [tracked EXCEPT ![w.key] = [status |-> st, id |-> w.iid]]
          BY <3>1, <3>3
        <4>2. w.key \in Key /\ st \in Status /\ Backed(w.key, st)
          BY <2>6 DEF Status, Replies
        <4> QED BY <2>1, <4>1, <4>2
      <3> QED BY <3>2, <3>3
    <2>9. ASSUME NEW u \in fixes, RecoverAsDeleted(u) PROVE Fine
      <3>1. u.old \in Key /\ Backed(u.old, "DELETED")
        BY <1>4 DEF Follows, Sourced, TypeOK, Update, Backed
      <3> QED BY <2>1, <2>9, <3>1 DEF RecoverAsDeleted, Track, Status
    <2> QED BY <2>2, <2>3, <2>4, <2>5, <2>7, <2>8, <2>9, TableChanges
  <1>6. ASSUME NEW k \in Key, tracked'[k] # NoRow PROVE Reported(k[1], StatusOf(k))'
    <2>1. PICK st \in Status : st = tracked'[k].status /\ Backed(k, st)
      BY <1>5, <1>6
    <2>2. Reported(k[1], st)'
      BY <1>2, <2>1 DEF Backed
    <2> QED BY <1>6, <2>1, <2>2 DEF StatusOf
  <1>7. \A t \in Tx : bank[t] \in Seen => t \in Cast
    BY DEF Cast, Seen
  <1>8. /\ \A w : Submits(w) => w.key[1] = OwnerOf(w.iid) /\ bank[w.key[1]] \in Seen
                                /\ w.iid \notin LegId
        /\ \A y : SubmitsLeg(y) => y.tx \in Secondary /\ bank[y.tx] \in Seen /\ y.tx = OwnerOf(y)
    <2>1. ASSUME NEW w, Submits(w)
          PROVE  w.key[1] = OwnerOf(w.iid) /\ bank[w.key[1]] \in Seen /\ w.iid \notin LegId
      BY <2>1, SubmitsSourced, IdType DEF Reported
    <2>2. ASSUME NEW y, SubmitsLeg(y)
          PROVE  y.tx \in Secondary /\ bank[y.tx] \in Seen /\ y.tx = OwnerOf(y)
      <3>1. PICK t \in cls.links : y = Leg(SecondaryOf(t))
        BY <2>2 DEF SubmitsLeg, ItsPrimary
      <3> QED BY <3>1, LinkedLeg, Owners DEF Leg, Seen
    <2> QED BY <2>1, <2>2
  <1>9. ASSUME NEW y \in Id, Made(y)'
        PROVE  /\ OwnerOf(y) \in Cast
               /\ y \in ImportId \cup ReevalId => bank[OwnerOf(y)] \in Seen
               /\ y \in LegId => y.tx \in Secondary
    <2>1. CASE Made(y)
      BY <2>1 DEF Sourced
    <2>2. CASE y \in ManualId /\ y.tx \in Cast
      BY <2>2, Owners, IdType DEF ManualId, LegId
    <2>3. CASE \E w : Submits(w) /\ w.iid = y
      BY <1>7, <1>8, <2>3, Owners
    <2>4. CASE SubmitsLeg(y)
      <3>1. y \in Unimported
        BY <2>4, LinkedLeg, IdType DEF SubmitsLeg, ItsPrimary
      <3> QED BY <1>7, <1>8, <2>4, <3>1, Owners, IdType
    <2> QED BY <1>9, <2>1, <2>2, <2>3, <2>4, RemoteMoves
  <1>10. \A y \in Id : bank[OwnerOf(y)] \in Seen => bank'[OwnerOf(y)] \in Seen
    BY ReportsStay, Owners
  <1> QED BY <1>6, <1>9, <1>10, ReportsStay, IdType DEF Id, FirstId

(* So does the cycle.                                                      *)
LEMMA CycleSourced ==
  ASSUME TypeInv, Sourced, Follows, [Next]_vars
  PROVE  /\ \A o \in cls'.seen : Reported(o[1], o[2])'
         /\ \A w \in cls'.creates \cup cls'.matches : Reported(w.key[1], w.status)'
         /\ \A u \in cls'.updates :
              /\ Reported(u.new[1], "BOOKED")' /\ Reported(u.old[1], "PENDING")'
              /\ u.old[1] # u.new[1] => LooksLike(u.new[1], u.old[1])
         /\ \A t \in cls'.links : bank'[SecondaryOf(t)] = "BOOKED"
  <1> USE DEF TypeInv
  <1>1. /\ \A o \in cls.seen : Reported(o[1], o[2])'
        /\ \A w \in cls.creates \cup cls.matches : Reported(w.key[1], w.status)'
        /\ \A u \in cls.updates :
             Reported(u.new[1], "BOOKED")' /\ Reported(u.old[1], "PENDING")'
        /\ \A t \in cls.links : bank'[SecondaryOf(t)] = "BOOKED"
    <2>1. \A o \in cls.seen : o[1] \in Tx /\ o[2] \in Status
      BY Owners DEF TypeOK, Cycle, Seen, Status
    <2>2. \A w \in cls.creates \cup cls.matches : w.key[1] \in Tx /\ w.status \in Status
      BY Owners, WorkType DEF TypeOK, Cycle, Seen, Status
    <2>3. \A u \in cls.updates : u.new[1] \in Tx /\ u.old[1] \in Tx
      BY Owners DEF TypeOK, Cycle, Update
    <2>4. \A t \in cls.links : SecondaryOf(t) \in Tx
      BY LinkedLeg
    <2>5. \A t \in Tx, st \in Status : Reported(t, st) => Reported(t, st)'
      BY ReportsStay
    <2>6. \A t \in Tx : bank[t] = "BOOKED" => bank'[t] = "BOOKED"
      BY BankMoves
    <2> QED BY <2>1, <2>2, <2>3, <2>4, <2>5, <2>6 DEF Sourced, Status
  <1>2. CASE cls' = cls
    BY <1>1, <1>2 DEF Sourced
  <1>3. CASE cls' = EmptyCycle
    BY <1>3 DEF EmptyCycle
  <1>4. CASE Fetch
    <2>1. /\ cls'.creates = {} /\ cls'.matches = {} /\ cls'.updates = {} /\ cls'.links = {}
          /\ cls'.seen = {<<t, bank[t]>> : t \in {u \in Tx : bank[u] \in Seen}}
      BY <1>4 DEF Fetch, EmptyCycle
    <2>2. ASSUME NEW o \in cls'.seen PROVE Reported(o[1], o[2])'
      <3>1. PICK t \in Tx : bank[t] \in Seen /\ o = <<t, bank[t]>>
        BY <2>1
      <3>2. Reported(t, bank[t])
        BY <3>1 DEF Reported, Sourced
      <3>3. bank[t] \in Status
        BY <3>1 DEF Seen, Status
      <3> QED BY <3>1, <3>2, <3>3, ReportsStay
    <2> QED BY <2>1, <2>2
  <1>5. CASE MatchTransfers
    <2>1. \A t \in cls'.links : bank'[SecondaryOf(t)] = "BOOKED"
      <3> SUFFICES ASSUME NEW t \in cls'.links PROVE bank'[SecondaryOf(t)] = "BOOKED"
        OBVIOUS
      <3>1. PICK w \in cls.creates : t \in Primary /\ w.key[1] = SecondaryOf(t)
        BY <1>5, Linking
      <3>2. bank[w.key[1]] \in Seen
        BY DEF Sourced, Reported
      <3>3. SecondaryOf(t) \notin Pendable /\ SecondaryOf(t) \in Tx
        BY <3>1, SecondaryType, EngineAssumption DEF Pendable
      <3>4. bank[SecondaryOf(t)] = "BOOKED"
        BY <3>1, <3>2, <3>3 DEF Sourced, Seen
      <3> QED BY <3>3, <3>4, BankMoves
    <2> QED BY <1>1, <1>5, <2>1, Linking DEF Sourced
  <1>6. ASSUME NEW o \in todo,
               \/ ClassifyTracked(o) \/ ClassifySettled(o)
               \/ ClassifyManual(o) \/ ClassifyNew(o)
        PROVE  /\ \A p \in cls'.seen : Reported(p[1], p[2])'
               /\ \A w \in cls'.creates \cup cls'.matches : Reported(w.key[1], w.status)'
               /\ \A u \in cls'.updates :
                    /\ Reported(u.new[1], "BOOKED")' /\ Reported(u.old[1], "PENDING")'
                    /\ u.old[1] # u.new[1] => LooksLike(u.new[1], u.old[1])
               /\ \A t \in cls'.links : bank'[SecondaryOf(t)] = "BOOKED"
    <2>1. o \in Obs /\ o \in cls.seen /\ KeyOf(o) \in Key /\ bank' = bank
      BY <1>6, Classified DEF Follows
    <2>2. Reported(o[1], o[2])' /\ KeyOf(o)[1] = o[1]
      BY <1>1, <2>1, Owners
    <2>3. \A w \in cls'.creates \cup cls'.matches : Reported(w.key[1], w.status)'
      BY <1>1, <1>6, <2>2, Classified DEF WorkFor
    <2>4. ASSUME NEW u \in cls'.updates, u \notin cls.updates
          PROVE  /\ Reported(u.new[1], "BOOKED")' /\ Reported(u.old[1], "PENDING")'
                 /\ u.old[1] # u.new[1] => LooksLike(u.new[1], u.old[1])
      <3>1. /\ u.new = KeyOf(o) /\ o[2] = "BOOKED" /\ u.old \in Key
            /\ StatusOf(u.old) = "PENDING"
            /\ u.old = u.new \/ LooksLike(o[1], u.old[1])
        BY <1>6, <2>4, Classified
      <3>2. Reported(u.old[1], "PENDING")
        BY <3>1 DEF Sourced, StatusOf
      <3>3. Reported(u.old[1], "PENDING")'
        BY <3>1, <3>2, Owners, ReportsStay DEF Status
      <3> QED BY <2>2, <3>1, <3>3
    <2> QED BY <1>1, <1>6, <2>3, <2>4, Classified DEF Sourced
  <1> QED BY <1>2, <1>3, <1>4, <1>5, <1>6, CycleMoves

(* Every step leaves all that is held reported.                            *)
LEMMA SourcedStep ==
  ASSUME TypeInv, RealInv, Sourced, Follows, [Next]_vars
  PROVE  Sourced'
  <1>1. \A t \in Tx : bank'[t] = "PENDING" => t \in Pendable
    BY BankMoves DEF Sourced
  <1> QED BY <1>1, CycleSourced, RowsSourced DEF Sourced

-----------------------------------------------------------------------------
(* What is under way follows from the classified cycle.                    *)
LEMMA FollowsStep ==
  ASSUME TypeInv, RealInv, Sourced, Follows, [Next]_vars
  PROVE  Follows'
  <1> USE DEF TypeInv
  <1>1. cls' = cls => \A w : Replaces(w) => Replaces(w)'
    <2>1. \A u \in cls.updates : u.id \in Id
      BY IdType DEF TypeOK, Cycle, Update
    <2>2. \A u \in cls.updates : ynab[u.id] = "deleted" => ynab'[u.id] = "deleted"
      BY <2>1, RemoteMoves
    <2> QED BY <2>2 DEF Replaces
  <1>2. CASE Environment \/ UNCHANGED vars
    <2>1. UNCHANGED <<phase, cls, todo, fixes, sub, cur, reply>>
      BY <1>2 DEF Environment, Appear, Settle, UserTypes, UserDeletes, vars, volatile
    <2> QED BY <1>1, <2>1 DEF Follows, Replies
  <1>3. CASE Fetch
    BY <1>3 DEF Fetch, EmptyCycle, Follows, Shape, Replies
  <1>4. CASE Classify
    <2>a. CASE ListAgain
      BY <2>a DEF ListAgain, remote, Follows, Replies, Replaces
    <2> SUFFICES ASSUME ~ListAgain PROVE Follows'
      BY <2>a
    <2>1. PICK o \in todo : \/ ClassifyTracked(o) \/ ClassifySettled(o)
                            \/ ClassifyManual(o) \/ ClassifyNew(o)
      BY <1>4 DEF Classify
    <2>2. o \in Obs /\ phase = "classify" /\ phase' = "classify" /\ todo' = todo \ {o}
          /\ cls'.seen = cls.seen /\ UNCHANGED <<sub, fixes, reply, cur>>
      BY <2>1, Classified
    <2>3. \A w \in cls'.creates \cup cls'.matches : w.iid = Import(w.key)
      BY <2>1, Classified DEF WorkFor, Follows
    <2> QED BY <2>2, <2>3 DEF Follows, Shape, Replies
  <1>5. CASE MatchTransfers
    <2>1. /\ phase = "classify" /\ phase' = "create" /\ todo = {} /\ todo' = todo
          /\ UNCHANGED <<sub, fixes, reply, cur>>
          /\ cls'.seen = cls.seen /\ cls'.matches = cls.matches /\ cls'.creates \subseteq cls.creates
      BY <1>5, Linking
    <2> QED BY <2>1 DEF Follows, Shape, Replies
  <1>6. CASE Creates
    <2>1. CASE PostCreates
      <3>1. /\ phase = "create" /\ phase' = "record"
            /\ UNCHANGED <<sub, cls, todo, fixes, cur>>
        BY <2>1 DEF PostCreates
      <3> QED BY <3>1 DEF Follows, Shape
    <2>2. CASE RecordLeg \/ LegMissing \/ FixLeg \/ Unclear
      <3>1. /\ sub' \in {"none", "fix_leg"} /\ sub # "none" /\ sub # "book"
            /\ UNCHANGED <<phase, cls, todo, fixes, reply>>
        BY <2>2 DEF RecordLeg, LegMissing, FixLeg, Unclear
      <3>2. phase \in {"record", "match", "rematch"}
        BY <2>2 DEF RecordLeg, LegMissing, FixLeg, Unclear, Shape
      <3> QED BY <1>1, <3>1, <3>2 DEF Follows, Replies
    <2>3. CASE StartUpdates
      <3>1. /\ phase' = "update" /\ fixes' = cls.updates /\ phase \in {"create", "record"}
            /\ phase = "record" => reply = NoReply
            /\ UNCHANGED <<sub, cls, todo, reply, cur>>
        BY <2>3 DEF StartUpdates
      <3>2. Replies' = {}
        BY <3>1 DEF Follows, Replies, NoReply
      <3> QED BY <3>1, <3>2 DEF Follows
    <2>4. ASSUME NEW w \in Replies,
                 (w \in reply.new /\ RecordCreated(w)) \/ (w \in reply.dup /\ BackfillDuplicate(w))
          PROVE  Follows'
      <3>1. /\ phase = "record" /\ sub' # "book" /\ Replies' \subseteq Replies
            /\ UNCHANGED <<phase, cls, todo, fixes>>
        BY <2>4 DEF RecordCreated, BackfillDuplicate, Replies, TypeOK, Reply
      <3> QED BY <3>1 DEF Follows
    <2> QED BY <1>6, <2>1, <2>2, <2>3, <2>4 DEF Creates, Replies
  <1>7. CASE Updates
    <2>1. CASE BookUpdate
      <3>1. /\ phase = "update" /\ phase' \in {"failed", "update"} /\ sub' = "none"
            /\ fixes' \subseteq fixes /\ (phase' = "failed" => fixes' = {})
            /\ UNCHANGED <<cls, todo, reply>>
        BY <2>1 DEF BookUpdate, Shape
      <3> QED BY <3>1 DEF Follows, Replies
    <2>2. CASE PostReplacement
      <3>1. /\ phase = "repost" /\ phase' = "rematch" /\ {cur} \in SUBSET Work /\ Post({cur})
            /\ UNCHANGED <<sub, cls, todo, fixes>>
        BY <2>2 DEF PostReplacement, Shape
      <3>2. \A w \in Replies' : w = cur
        BY <3>1, PostType DEF Replies
      <3> QED BY <1>1, <3>1, <3>2 DEF Follows, Shape
    <2>3. CASE ReplacementDone
      <3>1. /\ phase = "rematch" /\ phase' = "update" /\ Replies' = {}
            /\ UNCHANGED <<sub, cls, todo, fixes, cur>>
        BY <2>3 DEF ReplacementDone, volatile, Replies, NoReply
      <3> QED BY <3>1 DEF Follows
    <2>4. ASSUME NEW u \in fixes, PatchUpdate(u) \/ RecoverWithoutRow(u) \/ RecoverAsDeleted(u)
          PROVE  Follows'
      <3>1. /\ phase = "update" /\ sub = "none" /\ fixes' \subseteq fixes
            /\ phase' \in {"update", "failed"} /\ (phase' = "failed" => fixes' = {})
            /\ (sub' = "book" => cur' = u) /\ UNCHANGED <<cls, todo, reply>>
        BY <2>4 DEF PatchUpdate, RecoverWithoutRow, RecoverAsDeleted, NextUpdate
      <3> QED BY <3>1 DEF Follows, Replies
    <2>5. ASSUME NEW u \in fixes, RecoverAsReplaced(u) PROVE Follows'
      <3>1. /\ phase = "update" /\ phase' = "repost" /\ fixes' = fixes \ {u} /\ sub = "none"
            /\ ynab[u.id] # "live" /\ UNCHANGED <<ynab, sub, cls, todo, reply>>
            /\ cur' = [key |-> u.new, status |-> "BOOKED", iid |-> Reeval(u.new, u.id),
                       orig |-> The(Replacements(u))]
        BY <2>5 DEF RecoverAsReplaced, NextUpdate, remote
      <3>2. u \in cls.updates /\ u.id \in Id
        BY IdType DEF Follows, TypeOK, Update
      <3>3. ynab[u.id] = "deleted"
        BY <3>1, <3>2 DEF RealInv, CarriedIsReal, Made, TypeOK
      <3>4. Replaces(cur)'
        BY <3>1, <3>2, <3>3 DEF Replaces
      <3> QED BY <3>1, <3>4 DEF Follows, Replies
    <2> QED BY <1>7, <2>1, <2>2, <2>3, <2>4, <2>5 DEF Updates
  <1>8. CASE Matches
    <2>1. CASE PostMatches
      <3>1. /\ phase = "update" /\ fixes = {} /\ sub = "none" /\ phase' = "match"
            /\ cls.matches \in SUBSET Work /\ Post(cls.matches)
            /\ UNCHANGED <<sub, cls, todo, fixes, cur>>
        BY <2>1 DEF PostMatches, UpdatesDone, TypeOK, Cycle
      <3>2. Replies' \subseteq cls.matches
        BY <3>1, PostType DEF Replies
      <3> QED BY <3>1, <3>2 DEF Follows
    <2>2. CASE DeleteOriginal
      <3>1. /\ sub = "delete" /\ sub' = "none" /\ UNCHANGED <<phase, cls, todo, fixes, reply>>
        BY <2>2 DEF DeleteOriginal
      <3>2. phase \in {"record", "match", "rematch"}
        BY <3>1 DEF Shape
      <3> QED BY <1>1, <3>1, <3>2 DEF Follows, Replies
    <2>3. CASE Finish
      <3>1. /\ phase' = "idle" /\ cls' = EmptyCycle /\ UNCHANGED <<sub, todo, fixes, reply, cur>>
            /\ phase \in {"update", "match"} /\ sub = "none"
            /\ phase = "update" => fixes = {}
            /\ phase = "match" => reply = NoReply
        BY <2>3 DEF Finish, UpdatesDone, volatile
      <3>2. fixes' = {} /\ Replies' = {} /\ todo' = {}
        BY <3>1 DEF Follows, Replies, NoReply
      <3> QED BY <3>1, <3>2 DEF Follows, EmptyCycle
    <2>4. ASSUME NEW w \in Replies,
                 (w \in reply.new /\ RecordMatched(w)) \/ (w \in reply.dup /\ MatchedAgain(w))
          PROVE  Follows'
      <3>1. /\ phase \in {"match", "rematch"} /\ sub' # "book" /\ Replies' \subseteq Replies
            /\ UNCHANGED <<phase, cls, todo, fixes>>
        BY <2>4 DEF RecordMatched, MatchedAgain, Ending, Replies, TypeOK, Reply
      <3> QED BY <1>1, <3>1 DEF Follows
    <2> QED BY <1>8, <2>1, <2>2, <2>3, <2>4 DEF Matches, Replies
  <1>9. CASE Retry \/ Drop \/ Failures
    <2>1. Reset => Replies' = {} /\ sub' = "none" /\ fixes' = {} /\ todo' = {}
      BY DEF Reset, Replies, NoReply
    <2>2. CASE Retry
      BY <2>2 DEF Retry, volatile, Follows, Replies
    <2>3. CASE SubmitFails
      BY <2>1, <2>3 DEF SubmitFails, Follows
    <2>4. CASE Drop \/ FetchFails \/ Crash
      <3>1. Reset /\ phase' = "idle" /\ cls' = EmptyCycle
        BY <2>4 DEF Drop, FetchFails, Crash
      <3> QED BY <2>1, <3>1 DEF Follows, EmptyCycle
    <2> QED BY <1>9, <2>2, <2>3, <2>4 DEF Failures
  <1> QED BY <1>2, <1>3, <1>4, <1>5, <1>6, <1>7, <1>8, <1>9 DEF Next

-----------------------------------------------------------------------------
(* Nothing of one transaction's is taken for another's.                    *)

(* A resemblance between two members of a distinct cast is an identity.    *)
LEMMA AkinFacts ==
  /\ \A t, u \in Cast : LooksLike(t, u) => Akin(t, u)
  /\ \A t : Akin(t, t)
  /\ \A t, u, v : Akin(t, u) /\ Akin(u, v) => Akin(t, v)
  /\ \A t, u : Akin(t, u) => Akin(u, t)
  BY DEF Akin, Apart

(* A submitted match is made with an entry of its own transaction's.       *)
LEMMA MatchAkin ==
  ASSUME TypeInv, RealInv, Sourced, Follows, Owned, NEW w \in Replies,
         phase \in {"match", "rematch"}
  PROVE  /\ w.key \in Key /\ w.iid \in Id \ Unimported /\ w.orig \in Unimported
         /\ OwnerOf(w.iid) = w.key[1] /\ Akin(w.key[1], OwnerOf(w.orig))
  <1> USE DEF TypeInv
  <1>1. w \in Work /\ w.key \in Key /\ w.iid \in Id \ Unimported /\ w.orig \in Unimported
    BY RepliesSourced, WorkType DEF Shape
  <1>2. Akin(w.key[1], OwnerOf(w.orig))
    BY RepliesSourced DEF Owned
  <1>3. OwnerOf(w.iid) = w.key[1]
    <2>1. CASE w.iid = Import(w.key)
      BY <1>1, <2>1, Owners
    <2>2. CASE Replaces(w)
      <3>1. PICK u \in cls.updates : w.key = u.new /\ w.iid = Reeval(u.new, u.id)
        BY <2>2 DEF Replaces
      <3>2. u.new \in Key /\ u.id \in FirstId
        BY DEF TypeOK, Cycle, Update
      <3> QED BY <3>1, <3>2, Owners
    <2> QED BY <2>1, <2>2, RepliesSourced
  <1> QED BY <1>1, <1>2, <1>3

(* Every way in which a step may change the row of one key.                *)
LEMMA RowMoves ==
  ASSUME TypeInv, Follows, [Next]_vars, NEW k \in Key
  PROVE  \/ tracked'[k] = tracked[k]
         \/ /\ tracked'[k] = NoRow
            /\ \/ cls' = EmptyCycle
               \/ BookUpdate /\ cur \in cls.updates /\ k = cur.old /\ cur.old # cur.new
         \/ /\ RecordLeg /\ cur.key[1] \in cls.links /\ k[1] = SecondaryOf(cur.key[1])
            /\ tracked'[k] = [status |-> "BOOKED", id |-> Leg(SecondaryOf(cur.key[1]))]
         \/ /\ BookUpdate /\ cur \in cls.updates /\ k = cur.new /\ tracked[cur.old] # NoRow
            /\ tracked'[k] = [status |-> "BOOKED", id |-> tracked[cur.old].id]
         \/ \E w \in reply.new :
              /\ RecordCreated(w) /\ w.key = k
              /\ tracked'[k] = [status |-> w.status, id |-> CreatedId(w)]
         \/ \E w \in reply.new :
              /\ RecordMatched(w) /\ w.key = k
              /\ tracked'[k] = [status |-> w.status, id |-> MatchedId(w)]
         \/ \E w \in reply.dup :
              /\ BackfillDuplicate(w) /\ w.key = k /\ tracked[k] = NoRow /\ ~Unfindable(w)
              /\ tracked'[k] = [status |-> DuplicateStatus(w), id |-> w.iid]
         \/ \E w \in reply.dup :
              /\ MatchedAgain(w) /\ w.key = k /\ tracked[k] = NoRow /\ Findable(w)
              /\ tracked'[k] = [status |-> w.status, id |-> w.iid]
         \/ \E u \in fixes :
              /\ RecoverAsDeleted(u) /\ u \in cls.updates /\ u.old = k
              /\ tracked'[k] = [status |-> "DELETED", id |-> u.id]
  <1> USE DEF TypeInv
  <1>0. \A r : [tracked EXCEPT ![k] = r][k] = r
    BY DEF TypeOK
  <1>a. ASSUME NEW j, NEW r, tracked' = [tracked EXCEPT ![j] = r]
        PROVE  tracked'[k] = tracked[k] \/ (k = j /\ tracked'[k] = r)
    BY <1>a DEF TypeOK
  <1>1. CASE RecordLeg
    <2>1. cur.key[1] \in cls.links
      BY <1>1 DEF RecordLeg, Shape, ItsPrimary
    <2>2. KeyOf(<<SecondaryOf(cur.key[1]), "BOOKED">>)[1] = SecondaryOf(cur.key[1])
      BY DEF KeyOf
    <2>3. tracked' = [tracked EXCEPT ![KeyOf(<<SecondaryOf(cur.key[1]), "BOOKED">>)] =
                        [status |-> "BOOKED", id |-> Leg(SecondaryOf(cur.key[1]))]]
      BY <1>1 DEF RecordLeg, Track
    <2>4. \/ tracked'[k] = tracked[k]
          \/ /\ k[1] = SecondaryOf(cur.key[1])
             /\ tracked'[k] = [status |-> "BOOKED", id |-> Leg(SecondaryOf(cur.key[1]))]
      BY <1>a, <2>2, <2>3
    <2> QED BY <1>1, <2>1, <2>4
  <1>2. CASE BookUpdate
    <2>1. cur \in cls.updates /\ cur \in Update
      BY <1>2 DEF BookUpdate, Follows, TypeOK, Cycle
    <2>2. (tracked' = Moved(cur) /\ tracked[cur.old] # NoRow) \/ tracked' = tracked
      BY <1>2 DEF BookUpdate
    <2>3. CASE tracked' = tracked
      BY <2>3
    <2>4. CASE tracked' = Moved(cur) /\ tracked[cur.old] # NoRow
      <3>1. CASE k = cur.new
        BY <1>2, <2>1, <2>4, <3>1 DEF Moved, TypeOK, Update
      <3>2. CASE k = cur.old /\ k # cur.new
        BY <1>2, <2>1, <2>4, <3>2 DEF Moved, TypeOK, Update
      <3>3. CASE k # cur.old /\ k # cur.new
        BY <2>4, <3>3 DEF Moved, TypeOK
      <3> QED BY <3>1, <3>2, <3>3
    <2> QED BY <2>2, <2>3, <2>4
  <1>3. CASE Crash
    BY <1>3 DEF Crash
  <1>4. ASSUME NEW w \in reply.new, RecordCreated(w)
        PROVE  tracked'[k] = tracked[k] \/ (w.key = k
                 /\ tracked'[k] = [status |-> w.status, id |-> CreatedId(w)])
    BY <1>a, <1>4 DEF RecordCreated, Track
  <1>5. ASSUME NEW w \in reply.new, RecordMatched(w)
        PROVE  tracked'[k] = tracked[k] \/ (w.key = k
                 /\ tracked'[k] = [status |-> w.status, id |-> MatchedId(w)])
    BY <1>a, <1>5 DEF RecordMatched, Track
  <1>6. ASSUME NEW w \in reply.dup, BackfillDuplicate(w)
        PROVE  tracked'[k] = tracked[k] \/
                 (w.key = k /\ tracked[k] = NoRow /\ ~Unfindable(w)
                   /\ tracked'[k] = [status |-> DuplicateStatus(w), id |-> w.iid])
    BY <1>a, <1>6 DEF BackfillDuplicate
  <1>7. ASSUME NEW w \in reply.dup, MatchedAgain(w)
        PROVE  tracked'[k] = tracked[k] \/
                 (w.key = k /\ tracked[k] = NoRow /\ Findable(w)
                   /\ tracked'[k] = [status |-> w.status, id |-> w.iid])
    BY <1>a, <1>7, FoundOurs DEF MatchedAgain
  <1>8. ASSUME NEW u \in fixes, RecoverAsDeleted(u)
        PROVE  tracked'[k] = tracked[k] \/ (u.old = k /\ u \in cls.updates
                 /\ tracked'[k] = [status |-> "DELETED", id |-> u.id])
    BY <1>a, <1>8 DEF RecoverAsDeleted, Track, Follows
  <1>9. CASE UNCHANGED tracked
    BY <1>9
  <1> QED BY <1>1, <1>2, <1>3, <1>4, <1>5, <1>6, <1>7, <1>8, <1>9, TableChanges

(* A row keeps an entry of its own transaction's, and so does a shadow.    *)
LEMMA RowsOwned ==
  ASSUME TypeInv, RealInv, Sourced, Follows, Owned, [Next]_vars
  PROVE  /\ \A k \in Key : tracked'[k] # NoRow => Akin(k[1], OwnerOf(tracked'[k].id))
         /\ \A y \in Id : match'[y] # NoId => Akin(OwnerOf(y), match'[y].tx)
  <1> USE DEF TypeInv
  <1>1. \A k \in Key : tracked[k] # NoRow => Akin(k[1], OwnerOf(tracked[k].id))
    BY DEF Owned
  <1>2. ASSUME NEW w \in Replies, w.iid = Import(w.key)
        PROVE  w.iid \in Id /\ OwnerOf(w.iid) = w.key[1] /\ Akin(w.key[1], OwnerOf(w.iid))
    BY <1>2, RepliesSourced, Owners, IdType, AkinFacts DEF FirstId, Id
  <1>3. ASSUME NEW k \in Key, tracked'[k] # NoRow
        PROVE  Akin(k[1], OwnerOf(tracked'[k].id))
    <2>1. CASE tracked'[k] = tracked[k]
      BY <1>1, <1>3, <2>1
    <2>2. CASE /\ RecordLeg /\ cur.key[1] \in cls.links /\ k[1] = SecondaryOf(cur.key[1])
               /\ tracked'[k] = [status |-> "BOOKED", id |-> Leg(SecondaryOf(cur.key[1]))]
      <3>1. OwnerOf(Leg(SecondaryOf(cur.key[1]))) = k[1]
        BY <2>2, LinkedLeg, Owners
      <3>2. tracked'[k].id = Leg(SecondaryOf(cur.key[1]))
        BY <2>2
      <3> QED BY <3>1, <3>2, AkinFacts
    <2>3. CASE /\ BookUpdate /\ cur \in cls.updates /\ k = cur.new /\ tracked[cur.old] # NoRow
               /\ tracked'[k] = [status |-> "BOOKED", id |-> tracked[cur.old].id]
      <3>1. cur.old \in Key
        BY <2>3 DEF TypeOK, Cycle, Update
      <3>2. Akin(k[1], cur.old[1]) /\ Akin(cur.old[1], OwnerOf(tracked[cur.old].id))
        BY <1>1, <2>3, <3>1 DEF Owned
      <3>3. tracked'[k].id = tracked[cur.old].id
        BY <2>3
      <3> QED BY <3>2, <3>3, AkinFacts
    <2>4. ASSUME NEW w \in reply.new, RecordCreated(w), w.key = k,
                 tracked'[k] = [status |-> w.status, id |-> CreatedId(w)]
          PROVE  Akin(k[1], OwnerOf(tracked'[k].id))
      <3>1. w \in Replies /\ phase = "record" /\ w.iid = Import(w.key)
        BY <2>4, RepliesSourced DEF RecordCreated, Replies
      <3>2. ASSUME Hidden(w.iid) PROVE Akin(k[1], OwnerOf(match[w.iid]))
        <4>1. match[w.iid] \in Unimported /\ Akin(k[1], match[w.iid].tx)
          BY <1>2, <2>4, <3>1, <3>2, IdType DEF Owned, Hidden, TypeOK
        <4> QED BY <4>1, Owners
      <3>3. Akin(k[1], OwnerOf(CreatedId(w)))
        BY <1>2, <2>4, <3>1, <3>2 DEF CreatedId
      <3> QED BY <2>4, <3>3
    <2>5. ASSUME NEW w \in reply.new, RecordMatched(w), w.key = k,
                 tracked'[k] = [status |-> w.status, id |-> MatchedId(w)]
          PROVE  Akin(k[1], OwnerOf(tracked'[k].id))
      <3>1. w \in Replies /\ phase \in {"match", "rematch"}
        BY <2>5 DEF RecordMatched, Replies
      <3>2. Akin(k[1], OwnerOf(MatchedId(w)))
        BY <2>5, <3>1, MatchAkin, AkinFacts DEF MatchedId
      <3> QED BY <2>5, <3>2
    <2>6. ASSUME NEW w \in reply.dup, BackfillDuplicate(w) \/ MatchedAgain(w), w.key = k,
                 tracked'[k].id = w.iid
          PROVE  Akin(k[1], OwnerOf(tracked'[k].id))
      <3>1. w \in Replies /\ phase \in {"record", "match", "rematch"}
        BY <2>6 DEF BackfillDuplicate, MatchedAgain, Replies
      <3>2. CASE phase = "record"
        <4>1. w.iid = Import(w.key)
          BY <3>1, <3>2, RepliesSourced
        <4> QED BY <1>2, <2>6, <3>1, <4>1
      <3>3. CASE phase \in {"match", "rematch"}
        BY <2>6, <3>1, <3>3, MatchAkin, AkinFacts
      <3> QED BY <3>1, <3>2, <3>3
    <2>7. ASSUME NEW u \in cls.updates, u.old = k, tracked'[k].id = u.id
          PROVE  Akin(k[1], OwnerOf(tracked'[k].id))
      <3>1. Akin(u.new[1], u.old[1]) /\ Akin(u.new[1], OwnerOf(u.id))
        BY DEF Owned
      <3> QED BY <2>7, <3>1, AkinFacts
    <2>8. CASE \E w \in reply.dup :
                 /\ BackfillDuplicate(w) /\ w.key = k /\ tracked[k] = NoRow /\ ~Unfindable(w)
                 /\ tracked'[k] = [status |-> DuplicateStatus(w), id |-> w.iid]
      BY <2>6, <2>8
    <2>9. CASE \E w \in reply.dup :
                 /\ MatchedAgain(w) /\ w.key = k /\ tracked[k] = NoRow /\ Findable(w)
                 /\ tracked'[k] = [status |-> w.status, id |-> w.iid]
      BY <2>6, <2>9
    <2>10. CASE \E u \in fixes :
                  /\ RecoverAsDeleted(u) /\ u \in cls.updates /\ u.old = k
                  /\ tracked'[k] = [status |-> "DELETED", id |-> u.id]
      BY <2>7, <2>10
    <2> QED BY <1>3, <2>1, <2>2, <2>3, <2>4, <2>5, <2>8, <2>9, <2>10, RowMoves, Zenon
  <1>4. ASSUME NEW y \in Id, match'[y] # NoId PROVE Akin(OwnerOf(y), match'[y].tx)
    <2>1. CASE Hidden(y)
      BY <2>1, RemoteMoves DEF Owned
    <2>2. CASE ~Hidden(y)
      <3>1. PICK w : Submits(w) /\ w.iid = y /\ LooksLike(w.key[1], match'[y].tx)
                     /\ match'[y] \in ManualId /\ Visible(match'[y])
        BY <1>4, <2>2, RemoteMoves DEF Hidden
      <3>2. OwnerOf(y) = w.key[1] /\ w.key[1] \in Cast
        <4>1. OwnerOf(y) = w.key[1] /\ bank[w.key[1]] \in Seen /\ w.key \in Key
          BY <3>1, SubmitsSourced DEF Reported
        <4> QED BY <4>1, Owners DEF Cast, Seen
      <3>3. match'[y].tx \in Cast
        <4>1. match'[y] \in Id /\ match'[y] \in Unimported /\ Made(match'[y])
          BY <3>1, IdType DEF Visible, Made
        <4> QED BY <4>1, Owners DEF Sourced
      <3> QED BY <3>1, <3>2, <3>3, AkinFacts
    <2> QED BY <2>1, <2>2
  <1> QED BY <1>3, <1>4

(* How the engine comes to handle what it handles: the item in cur, the    *)
(* rest of a response, and the sub-step that is next.                      *)
LEMMA HandMoves ==
  ASSUME TypeInv, [Next]_vars
  PROVE  /\ phase' = "repost" =>
              \/ phase = "repost" /\ cur' = cur
              \/ \E u \in fixes : RecoverAsReplaced(u)
         /\ phase' = "rematch" =>
              (phase = "rematch" /\ Replies' \subseteq Replies) \/ PostReplacement
         /\ phase' \in {"record", "match"} =>
              \/ phase' = phase /\ reply'.new \subseteq reply.new
                 /\ Replies' \subseteq Replies
              \/ PostCreates \/ PostMatches
         /\ sub' = "delete" =>
              \/ sub = "delete" /\ cur' = cur /\ tracked' = tracked
              \/ \E w \in reply.new : RecordMatched(w)
              \/ \E w \in reply.dup : MatchedAgain(w)
  <1> USE DEF TypeInv
  <1> DEFINE Keeps == /\ Replies' \subseteq Replies /\ reply'.new \subseteq reply.new
                      /\ phase' = phase
  <1>1. CASE Environment \/ UNCHANGED vars
    <2>1. UNCHANGED <<tracked, phase, sub, cur, reply>>
      BY <1>1 DEF Environment, Appear, Settle, UserTypes, UserDeletes, vars, volatile
    <2> QED BY <2>1 DEF Replies
  <1>2. CASE Fetch \/ Classify \/ MatchTransfers
    <2>1. phase' \in {"classify", "create"} /\ sub' = sub /\ phase \in {"idle", "classify"}
      BY <1>2 DEF Fetch, Classify, ListAgain, MatchTransfers, ClassifyTracked, ClassifySettled,
         ClassifyManual, ClassifyNew, Classifying
    <2> QED BY <2>1 DEF Shape
  <1>3. CASE Creates
    <2>1. CASE PostCreates
      <3>1. phase' = "record" /\ sub' = sub /\ phase = "create"
        BY <2>1 DEF PostCreates
      <3> QED BY <2>1, <3>1 DEF Shape
    <2>2. CASE RecordLeg \/ LegMissing \/ FixLeg \/ Unclear
      <3>1. /\ sub' \in {"none", "fix_leg"} /\ UNCHANGED <<phase, reply>>
            /\ phase \in {"record", "match", "rematch"}
        BY <2>2 DEF RecordLeg, LegMissing, FixLeg, Unclear, Shape
      <3> QED BY <3>1 DEF Replies
    <2>3. CASE StartUpdates
      <3>1. phase' = "update" /\ sub' = sub /\ phase \in {"create", "record"}
            /\ tracked' = tracked /\ cur' = cur
        BY <2>3 DEF StartUpdates, remote
      <3> QED BY <3>1
    <2>4. ASSUME NEW w \in reply.new, RecordCreated(w)
          PROVE  Keeps /\ phase = "record" /\ sub' # "delete"
      BY <2>4 DEF RecordCreated, Replies, TypeOK, Reply
    <2>5. ASSUME NEW w \in reply.dup, BackfillDuplicate(w)
          PROVE  Keeps /\ phase = "record" /\ sub' # "delete"
      BY <2>5 DEF BackfillDuplicate, Replies, TypeOK, Reply
    <2> QED BY <1>3, <2>1, <2>2, <2>3, <2>4, <2>5 DEF Creates
  <1>4. CASE Updates
    <2>1. CASE BookUpdate
      <3>1. phase' \in {"failed", "update"} /\ sub' = "none"
        BY <2>1 DEF BookUpdate
      <3> QED BY <3>1
    <2>2. CASE PostReplacement
      <3>1. phase' = "rematch" /\ sub' = sub /\ phase = "repost"
        BY <2>2 DEF PostReplacement
      <3> QED BY <2>2, <3>1 DEF Shape
    <2>3. CASE ReplacementDone
      BY <2>3 DEF ReplacementDone, volatile
    <2>4. ASSUME NEW u \in fixes, PatchUpdate(u) \/ RecoverWithoutRow(u) \/ RecoverAsDeleted(u)
          PROVE  phase' \in {"update", "failed"} /\ sub' # "delete"
      BY <2>4 DEF PatchUpdate, RecoverWithoutRow, RecoverAsDeleted, NextUpdate
    <2>5. ASSUME NEW u \in fixes, RecoverAsReplaced(u)
          PROVE  phase' = "repost" /\ sub' # "delete"
      BY <2>5 DEF RecoverAsReplaced, NextUpdate
    <2> QED BY <1>4, <2>1, <2>2, <2>3, <2>4, <2>5 DEF Updates
  <1>5. CASE Matches
    <2>1. CASE PostMatches
      <3>1. phase' = "match" /\ sub' = sub /\ sub = "none"
        BY <2>1 DEF PostMatches, UpdatesDone
      <3> QED BY <2>1, <3>1
    <2>2. CASE DeleteOriginal
      <3>1. /\ UNCHANGED <<phase, reply>> /\ sub' = "none"
            /\ phase \in {"record", "match", "rematch"}
        BY <2>2 DEF DeleteOriginal, Shape
      <3> QED BY <3>1 DEF Replies
    <2>3. CASE Finish
      BY <2>3 DEF Finish, UpdatesDone, volatile
    <2>4. ASSUME NEW w \in reply.new, RecordMatched(w)
          PROVE  Keeps /\ phase \in {"match", "rematch"}
      BY <2>4 DEF RecordMatched, Replies, TypeOK, Reply
    <2>5. ASSUME NEW w \in reply.dup, MatchedAgain(w)
          PROVE  Keeps /\ phase \in {"match", "rematch"}
      BY <2>5 DEF MatchedAgain, Replies, TypeOK, Reply
    <2> QED BY <1>5, <2>1, <2>2, <2>3, <2>4, <2>5 DEF Matches
  <1>6. CASE Retry \/ Drop \/ Failures
    <2>1. CASE Retry
      <3>1. phase' = "create" /\ UNCHANGED <<tracked, sub, cur>>
        BY <2>1 DEF Retry, volatile
      <3> QED BY <3>1
    <2>2. CASE Drop \/ Failures
      <3>1. phase' \in {"idle", "failed"} /\ sub' = "none"
        BY <2>2 DEF Drop, Failures, SubmitFails, FetchFails, Crash, Reset
      <3> QED BY <3>1
    <2> QED BY <1>6, <2>1, <2>2
  <1> QED BY <1>1, <1>2, <1>3, <1>4, <1>5, <1>6 DEF Next

(* The cycle and what is under way keep what belongs together.             *)
LEMMA CycleOwned ==
  ASSUME TypeInv, RealInv, Sourced, Follows, Owned, [Next]_vars
  PROVE  /\ \A u \in cls'.updates :
              Akin(u.new[1], u.old[1]) /\ Akin(u.new[1], OwnerOf(u.id))
         /\ \A w \in cls'.matches : Akin(w.key[1], OwnerOf(w.orig))
  <1> USE DEF TypeInv
  <1>1. CASE cls' = cls
    BY <1>1 DEF Owned
  <1>2. CASE cls' = EmptyCycle
    BY <1>2 DEF EmptyCycle
  <1>3. CASE Fetch
    BY <1>3 DEF Fetch, EmptyCycle
  <1>4. CASE MatchTransfers
    BY <1>4, Linking DEF Owned
  <1>5. ASSUME NEW o \in todo,
               \/ ClassifyTracked(o) \/ ClassifySettled(o)
               \/ ClassifyManual(o) \/ ClassifyNew(o)
        PROVE  /\ \A u \in cls'.updates :
                    Akin(u.new[1], u.old[1]) /\ Akin(u.new[1], OwnerOf(u.id))
               /\ \A w \in cls'.matches : Akin(w.key[1], OwnerOf(w.orig))
    <2>1. o \in Obs /\ KeyOf(o)[1] = o[1] /\ o[1] \in Cast
      <3>1. o \in Obs /\ o \in cls.seen
        BY <1>5, Classified DEF Follows
      <3>2. bank[o[1]] \in Seen
        BY <3>1 DEF Sourced, Reported
      <3> QED BY <3>1, <3>2, Owners DEF Cast, Seen
    <2>2. ASSUME NEW u \in cls'.updates, u \notin cls.updates
          PROVE  Akin(u.new[1], u.old[1]) /\ Akin(u.new[1], OwnerOf(u.id))
      <3>1. /\ u.new = KeyOf(o) /\ u.old \in Key /\ tracked[u.old] # NoRow
            /\ u.id = tracked[u.old].id
            /\ u.old = u.new \/ LooksLike(o[1], u.old[1])
        BY <1>5, <2>2, Classified DEF StatusOf
      <3>2. u.old[1] \in Cast
        BY <3>1, Owners DEF Sourced, Reported, Cast, Seen
      <3>3. Akin(u.new[1], u.old[1])
        BY <2>1, <3>1, <3>2, AkinFacts
      <3>4. Akin(u.old[1], OwnerOf(u.id))
        BY <3>1 DEF Owned
      <3> QED BY <3>3, <3>4, AkinFacts
    <2>3. ASSUME NEW w \in cls'.matches, w \notin cls.matches
          PROVE  Akin(w.key[1], OwnerOf(w.orig))
      <3>1. PICK y \in pool.manual : w = WorkFor(o, y) /\ LooksLike(o[1], OwnerOf(y))
        BY <1>5, <2>3, Classified
      <3>2. y \in Id /\ Made(y)
        BY IdType DEF TypeOK, Pool, RealInv, CarriedIsReal
      <3>3. OwnerOf(y) \in Cast
        BY <3>2 DEF Sourced
      <3>4. w.key[1] = o[1] /\ w.orig = y
        BY <2>1, <3>1 DEF WorkFor
      <3> QED BY <2>1, <3>1, <3>3, <3>4, AkinFacts
    <2> QED BY <2>2, <2>3 DEF Owned
  <1> QED BY <1>1, <1>2, <1>3, <1>4, <1>5, CycleMoves

(* Every step leaves to each transaction what is its own.                  *)
LEMMA OwnedStep ==
  ASSUME TypeInv, RealInv, Sourced, Follows, Owned, [Next]_vars
  PROVE  Owned'
  <1> USE DEF TypeInv
  <1>1. \A t, u : Akin(t, u) => Akin(t, u)'
    BY ReportsStay DEF Akin
  <1>2. phase' = "repost" => Akin(cur'.key[1], OwnerOf(cur'.orig))
    <2>1. CASE phase = "repost" /\ cur' = cur
      BY <2>1 DEF Owned
    <2>2. ASSUME NEW u \in fixes, RecoverAsReplaced(u)
          PROVE  Akin(cur'.key[1], OwnerOf(cur'.orig))
      <3>1. PICK y : y = The(Replacements(u))
        OBVIOUS
      <3>2. /\ cur'.key = u.new /\ cur'.orig = y
            /\ y \in Unimported /\ Visible(y) /\ LooksLike(u.new[1], OwnerOf(y))
        BY <2>2, <3>1 DEF RecoverAsReplaced, Unique, The, Replacements
      <3>3. OwnerOf(y) \in Cast
        BY <3>2, IdType DEF Sourced, Visible, Made
      <3>4. u.new[1] \in Cast
        <4>1. u \in cls.updates /\ u.new \in Key
          BY DEF Follows, TypeOK, Cycle, Update
        <4>2. bank[u.new[1]] \in Seen
          BY <4>1 DEF Sourced, Reported
        <4> QED BY <4>1, <4>2, Owners DEF Cast, Seen
      <3> QED BY <3>2, <3>3, <3>4, AkinFacts
    <2> QED BY <2>1, <2>2, HandMoves
  <1>3. phase' = "rematch" => \A w \in Replies' : Akin(w.key[1], OwnerOf(w.orig))
    <2>1. CASE phase = "rematch" /\ Replies' \subseteq Replies
      BY <2>1 DEF Owned
    <2>2. CASE PostReplacement
      <3>1. phase = "repost" /\ {cur} \in SUBSET Work /\ Post({cur})
        BY <2>2 DEF PostReplacement, Shape
      <3>2. \A w \in Replies' : w = cur
        BY <3>1, PostType DEF Replies
      <3> QED BY <3>1, <3>2 DEF Owned
    <2> QED BY <2>1, <2>2, HandMoves
  <1>4. sub' = "delete" => /\ Akin(cur'.key[1], OwnerOf(cur'.orig))
                           /\ tracked'[cur'.key] # NoRow /\ tracked'[cur'.key].id # cur'.orig
    <2>1. CASE sub = "delete" /\ cur' = cur /\ tracked' = tracked
      BY <2>1 DEF Owned
    <2>2. ASSUME NEW w \in reply.new, RecordMatched(w), sub' = "delete"
          PROVE  /\ Akin(cur'.key[1], OwnerOf(cur'.orig))
                 /\ tracked'[cur'.key] # NoRow /\ tracked'[cur'.key].id # cur'.orig
      <3>1. w \in Replies /\ phase \in {"match", "rematch"} /\ cur' = w
            /\ tracked' = [tracked EXCEPT ![w.key] = [status |-> w.status, id |-> MatchedId(w)]]
            /\ ~Hidden(w.iid)
        BY <2>2 DEF RecordMatched, Ending, Replies, Track
      <3>2. w \in Work /\ w.key \in Key /\ w.iid \in Id \ Unimported /\ w.orig \in Unimported
            /\ Akin(w.key[1], OwnerOf(w.orig))
        BY <3>1, MatchAkin, RepliesSourced
      <3>3. tracked'[w.key].id = w.iid /\ tracked'[w.key] = [status |-> w.status, id |-> w.iid]
        BY <3>1, <3>2 DEF MatchedId, TypeOK
      <3>4. [status |-> w.status, id |-> w.iid] # NoRow
        BY <3>2, WorkType, EngineAssumption DEF Seen
      <3> QED BY <3>1, <3>2, <3>3, <3>4
    <2>3. ASSUME NEW w \in reply.dup, MatchedAgain(w), sub' = "delete"
          PROVE  /\ Akin(cur'.key[1], OwnerOf(cur'.orig))
                 /\ tracked'[cur'.key] # NoRow /\ tracked'[cur'.key].id # cur'.orig
      <3>1. w \in Replies /\ phase \in {"match", "rematch"} /\ cur' = w
        BY <2>3 DEF MatchedAgain, Replies
      <3>2. w \in Work /\ w.key \in Key /\ w.iid \in Id \ Unimported /\ w.orig \in Unimported
            /\ Akin(w.key[1], OwnerOf(w.orig))
        BY <3>1, MatchAkin, RepliesSourced
      <3>3. CASE tracked[w.key] = NoRow /\ Findable(w)
        <4>1. tracked'[w.key] = [status |-> w.status, id |-> w.iid]
          BY <2>3, <3>2, <3>3, FoundOurs DEF MatchedAgain, TypeOK
        <4>2. [status |-> w.status, id |-> w.iid] # NoRow
          BY <3>2, WorkType, EngineAssumption DEF Seen
        <4> QED BY <3>1, <3>2, <4>1, <4>2
      <3>4. CASE ~(tracked[w.key] = NoRow /\ Findable(w))
        <4>1. tracked' = tracked /\ tracked[w.key] # NoRow /\ tracked[w.key].id # w.orig
          BY <2>3, <3>4 DEF MatchedAgain, EndedNatively
        <4> QED BY <3>1, <3>2, <4>1
      <3> QED BY <3>3, <3>4
    <2> QED BY <2>1, <2>2, <2>3, HandMoves
  <1> QED BY <1>1, <1>2, <1>3, <1>4, RowsOwned, CycleOwned DEF Owned, Hidden

-----------------------------------------------------------------------------
(* One key, one entry.                                                     *)

(* A Solo transaction has one key, and nothing else looks like it when one *)
(* of the two may be a placeholder.                                        *)
LEMMA SoloFacts ==
  ASSUME NEW k \in SoloKey
  PROVE  /\ k \in Key /\ k[1] \in Tx /\ k[1] \notin Card
         /\ k[1] \notin Primary /\ k[1] \notin Secondary
         /\ \A j \in Key : j[1] = k[1] => j = k
         /\ k[1] \in Pendable => k[1] \in Stable
         /\ \A u \in Tx : u # k[1] /\ (k[1] \in Stable \/ u \in Pendable) =>
              ~LooksLike(k[1], u) /\ ~LooksLike(u, k[1])
  <1>1. k \in Key /\ k[1] \in Solo
    BY DEF SoloKey
  <1>2. ASSUME NEW j \in Key, j[1] = k[1] PROVE j = <<k[1], "BOOKED">>
    <2>1. PICK o \in Obs : j = KeyOf(o)
      BY DEF Key
    <2>2. o[1] = k[1]
      BY <1>2, <2>1, Owners
    <2> QED BY <1>1, <2>1, <2>2 DEF KeyOf, Solo
  <1>3. \A j \in Key : j[1] = k[1] => j = k
    BY <1>1, <1>2
  <1> QED BY <1>1, <1>3 DEF Solo, Pendable

(* A correction of a Solo transaction keeps its key: it settles the row of *)
(* a transaction that was seen PENDING under it.                           *)
LEMMA SoloUpdate ==
  ASSUME Sourced, NEW k \in SoloKey, NEW old \in Key, NEW new \in Key,
         k \in {old, new}, Reported(old[1], "PENDING"),
         old = new \/ LooksLike(new[1], old[1])
  PROVE  old = k /\ new = k /\ k[1] \in Stable
  <1>1. old[1] \in Pendable /\ old[1] \in Tx /\ new[1] \in Tx
    BY Owners DEF Reported
  <1>2. old[1] = new[1]
    <2>1. CASE old = k
      BY <1>1, <2>1, SoloFacts
    <2>2. CASE new = k
      BY <1>1, <2>2, SoloFacts
    <2> QED BY <2>1, <2>2
  <1> QED BY <1>1, <1>2, SoloFacts

(* Two corrections of one key have one target.                             *)
LEMMA OneCorrection ==
  ASSUME NEW k, NEW u, NEW v, CorrectionOf(k, u), CorrectionOf(k, v)
  PROVE  u.id = v.id
  BY DEF CorrectionOf

(* A transaction is made a second time only as the replacement of one that *)
(* a correction found deleted.                                             *)
LEMMA RemadeMoves ==
  ASSUME TypeInv, RealInv, Sourced, Follows, OneKey, [Next]_vars, NEW k \in SoloKey
  PROVE  /\ Remade(k) \subseteq Remade(k)'
         /\ \/ Remade(k)' = Remade(k)
            \/ /\ PostReplacement
               /\ \E u \in cls.updates :
                    /\ CorrectionOf(k, u) /\ ynab[u.id] = "deleted" /\ k[1] \in Stable
                    /\ Remade(k)' = {u.id}
  <1> USE DEF TypeInv
  <1>1. \A y \in FirstId : Reeval(k, y) \in Id /\ Reeval(k, y) \in ReevalId
    BY SoloFacts, IdType
  <1>2. Remade(k) \subseteq Remade(k)'
    BY <1>1, RemoteMoves DEF Remade
  <1>3. ASSUME NEW z \in Remade(k)', z \notin Remade(k)
        PROVE  /\ PostReplacement
               /\ \E u \in cls.updates :
                    /\ CorrectionOf(k, u) /\ ynab[u.id] = "deleted" /\ k[1] \in Stable
                    /\ z = u.id
    <2>1. z \in FirstId /\ Made(Reeval(k, z))' /\ ~Made(Reeval(k, z))
      BY <1>3 DEF Remade
    <2>2. Reeval(k, z) \notin Unimported /\ ~\E j : Import(j) = Reeval(k, z)
      BY <1>1, <2>1, IdType DEF Import, Reeval
    <2>3. ~SubmitsLeg(Reeval(k, z))
      BY <2>2 DEF SubmitsLeg, Leg, Reeval
    <2>4. PICK w : Submits(w) /\ w.iid = Reeval(k, z)
      BY <1>1, <2>1, <2>2, <2>3, RemoteMoves, IdType
    <2>5. PostReplacement /\ w = cur /\ Replaces(w)
      BY <2>2, <2>4, SubmitsSourced
    <2>6. PICK u \in cls.updates :
            w.key = u.new /\ w.iid = Reeval(u.new, u.id) /\ ynab[u.id] = "deleted"
      BY <2>5 DEF Replaces
    <2>7. u.new = k /\ u.id = z
      <3>1. /\ Reeval(u.new, u.id).key = u.new /\ Reeval(u.new, u.id).of = u.id
            /\ Reeval(k, z).key = k /\ Reeval(k, z).of = z
        BY DEF Reeval
      <3> QED BY <2>4, <2>6, <3>1
    <2>8. CorrectionOf(k, u)
      BY <2>7 DEF OneKey
    <2>9. k[1] \in Stable
      BY <2>8, SoloFacts DEF CorrectionOf, Sourced, Reported
    <2> QED BY <2>5, <2>6, <2>7, <2>8, <2>9
  <1>4. CASE Remade(k)' \subseteq Remade(k)
    BY <1>2, <1>4
  <1>5. CASE ~(Remade(k)' \subseteq Remade(k))
    <2>1. PICK z \in Remade(k)' : z \notin Remade(k)
      BY <1>5
    <2>2. PICK u \in cls.updates :
            CorrectionOf(k, u) /\ ynab[u.id] = "deleted" /\ k[1] \in Stable /\ z = u.id
      BY <1>3, <2>1
    <2>3. Remade(k) \subseteq {z}
      BY <2>2 DEF CorrectionOf
    <2>4. \A y \in Remade(k)' : y = z
      <3> SUFFICES ASSUME NEW y \in Remade(k)', y \notin Remade(k) PROVE y = z
        BY <2>3
      <3>1. PICK v \in cls.updates : CorrectionOf(k, v) /\ y = v.id
        BY <1>3
      <3> QED BY <2>2, <3>1, OneCorrection
    <2> QED BY <1>2, <1>3, <2>1, <2>2, <2>4
  <1> QED BY <1>2, <1>4, <1>5

(* ... and only once, of a preauthorised payment whose first entry is gone.*)
LEMMA RemadeStep ==
  ASSUME TypeInv, RealInv, Sourced, Follows, OneKey, [Next]_vars, NEW k \in SoloKey
  PROVE  \A y \in Remade(k)' :
           /\ k[1] \in Stable /\ Made(Import(k))' /\ ~Visible(Import(k))'
           /\ ynab'[y] = "deleted" /\ Remade(k)' = {y}
  <1> USE DEF TypeInv
  <1>1. Import(k) \in Id /\ FirstId \subseteq Id
    BY SoloFacts, IdType
  <1>2. CASE Remade(k)' = Remade(k)
    <2> SUFFICES ASSUME NEW y \in Remade(k)'
                 PROVE  /\ k[1] \in Stable /\ Made(Import(k))' /\ ~Visible(Import(k))'
                        /\ ynab'[y] = "deleted" /\ Remade(k)' = {y}
      OBVIOUS
    <2>1. /\ k[1] \in Stable /\ Made(Import(k)) /\ ~Visible(Import(k))
          /\ ynab[y] = "deleted" /\ Remade(k) = {y}
      BY <1>2 DEF OneKey
    <2>2. y \in Id
      BY <1>1 DEF Remade
    <2> QED BY <1>1, <1>2, <2>1, <2>2, RemoteMoves
  <1>3. ASSUME NEW u \in cls.updates, CorrectionOf(k, u), ynab[u.id] = "deleted",
               k[1] \in Stable, Remade(k)' = {u.id}
        PROVE  \A y \in Remade(k)' :
                 /\ k[1] \in Stable /\ Made(Import(k))' /\ ~Visible(Import(k))'
                 /\ ynab'[y] = "deleted" /\ Remade(k)' = {y}
    <2>1. Made(Import(k))
      BY <1>3 DEF CorrectionOf, OneKey, RowOf
    <2>2. ~Visible(Import(k))
      BY <1>3 DEF CorrectionOf, Visible
    <2>3. u.id \in Id
      BY <1>1 DEF TypeOK, Cycle, Update
    <2> QED BY <1>1, <1>3, <2>1, <2>2, <2>3, RemoteMoves
  <1> QED BY <1>2, <1>3, RemadeMoves

(* A row becomes DELETED when YNAB refuses an import_id whose transaction  *)
(* is gone, or when a correction finds its target gone.                    *)
LEMMA DeletedBy ==
  ASSUME TypeInv, Sourced, Follows, [Next]_vars, NEW k \in Key,
         StatusOf(k)' = "DELETED"
  PROVE  \/ tracked'[k] = tracked[k]
         \/ \E w \in reply.dup :
              /\ BackfillDuplicate(w) /\ w.key = k /\ tracked[k] = NoRow
              /\ DuplicateStatus(w) = "DELETED" /\ tracked'[k].id = w.iid
         \/ \E u \in fixes :
              /\ RecoverAsDeleted(u) /\ u \in cls.updates /\ u.old = k
              /\ tracked'[k].id = u.id
  <1> USE DEF TypeInv
  <1>0. tracked'[k] # NoRow /\ tracked'[k].status = "DELETED"
    BY DEF StatusOf
  <1> DEFINE Backfilled == \E w \in reply.dup :
                 /\ BackfillDuplicate(w) /\ w.key = k /\ tracked[k] = NoRow
                 /\ DuplicateStatus(w) = "DELETED" /\ tracked'[k].id = w.iid
             Recovered == \E u \in fixes :
                 /\ RecoverAsDeleted(u) /\ u \in cls.updates /\ u.old = k
                 /\ tracked'[k].id = u.id
  <1>1. \A y : \A st \in Seen : tracked'[k] # [status |-> st, id |-> y]
    BY <1>0 DEF Seen
  <1>2. \A w \in reply.new \cup reply.dup : w.status \in Seen
    BY RepliesSourced, WorkType DEF Replies
  <1>3. ASSUME NEW w \in reply.new, RecordCreated(w), w.key = k,
               tracked'[k] = [status |-> w.status, id |-> CreatedId(w)]
        PROVE  FALSE
    BY <1>1, <1>2, <1>3
  <1>4. ASSUME NEW w \in reply.new, RecordMatched(w), w.key = k,
               tracked'[k] = [status |-> w.status, id |-> MatchedId(w)]
        PROVE  FALSE
    BY <1>1, <1>2, <1>4
  <1>5. ASSUME NEW w \in reply.dup, MatchedAgain(w), w.key = k, tracked[k] = NoRow,
               Findable(w), tracked'[k] = [status |-> w.status, id |-> w.iid]
        PROVE  FALSE
    BY <1>1, <1>2, <1>5
  <1>6. /\ tracked'[k] # [status |-> "BOOKED", id |-> Leg(SecondaryOf(cur.key[1]))]
        /\ tracked'[k] # [status |-> "BOOKED", id |-> tracked[cur.old].id]
    BY <1>1 DEF Seen
  <1>7. ASSUME NEW w \in reply.dup, BackfillDuplicate(w), w.key = k, tracked[k] = NoRow,
               ~Unfindable(w), tracked'[k] = [status |-> DuplicateStatus(w), id |-> w.iid]
        PROVE  Backfilled
    BY <1>0, <1>7
  <1>8. ASSUME NEW u \in fixes, RecoverAsDeleted(u), u \in cls.updates, u.old = k,
               tracked'[k] = [status |-> "DELETED", id |-> u.id]
        PROVE  Recovered
    BY <1>8
  <1> HIDE DEF Backfilled, Recovered
  <1>9. tracked'[k] = tracked[k] \/ Backfilled \/ Recovered
    BY <1>0, <1>3, <1>4, <1>5, <1>6, <1>7, <1>8, RowMoves
  <1> QED BY <1>9 DEF Backfilled, Recovered

(* A row is DELETED when YNAB has deleted what it tracks.                  *)
LEMMA DeletedStep ==
  ASSUME TypeInv, RealInv, Sourced, Follows, OneKey, [Next]_vars, NEW k \in Key,
         StatusOf(k)' = "DELETED"
  PROVE  ynab'[tracked'[k].id] = "deleted"
  <1> USE DEF TypeInv
  <1>1. CASE tracked'[k] = tracked[k]
    <2>1. StatusOf(k) = "DELETED" /\ tracked[k].id \in Id
      BY <1>1, RowType DEF StatusOf, TypeOK
    <2> QED BY <1>1, <2>1, RemoteMoves DEF OneKey
  <1>2. ASSUME NEW w \in reply.dup, BackfillDuplicate(w), DuplicateStatus(w) = "DELETED",
               tracked'[k].id = w.iid
        PROVE  ynab'[tracked'[k].id] = "deleted"
    <2>1. w \in Replies /\ w \in Work /\ Made(w.iid)
      BY RepliesSourced DEF Replies, RealInv, CarriedIsReal
    <2>2. ynab[w.iid] = "deleted"
      BY <1>2, <2>1, WorkType DEF DuplicateStatus, Made, TypeOK, Seen
    <2> QED BY <1>2, <2>2 DEF BackfillDuplicate, remote
  <1>3. ASSUME NEW u \in fixes, RecoverAsDeleted(u), u \in cls.updates,
               tracked'[k].id = u.id
        PROVE  ynab'[tracked'[k].id] = "deleted"
    <2>1. ynab[u.id] # "live" /\ ynab' = ynab
      BY <1>3 DEF RecoverAsDeleted, remote
    <2>2. u.id \in Id /\ Made(u.id)
      BY IdType DEF TypeOK, Cycle, Update, RealInv, CarriedIsReal
    <2> QED BY <1>3, <2>1, <2>2 DEF Made, TypeOK
  <1> QED BY <1>1, <1>2, <1>3, DeletedBy

(* What is first made for a key finds nothing else made for it.            *)
LEMMA ReplyStep ==
  ASSUME TypeInv, RealInv, Sourced, Follows, OneKey, [Next]_vars, NEW k \in SoloKey,
         NEW w \in reply'.new, w.key = k, phase' \in {"record", "match"}
  PROVE  Remade(k)' = {} /\ \A u \in cls'.updates : u.new # k
  <1> USE DEF TypeInv
  <1>1. phase # "classify" /\ phase # "idle" /\ ~PostReplacement
    <2>1. CASE phase' = phase
      BY <2>1 DEF PostReplacement
    <2>2. CASE PostCreates \/ PostMatches
      BY <2>2 DEF PostCreates, PostMatches, UpdatesDone, PostReplacement
    <2> QED BY <2>1, <2>2, HandMoves
  <1>2. \A u \in cls'.updates : u \in cls.updates
    <2>1. CASE cls' = cls \/ cls' = EmptyCycle
      BY <2>1 DEF EmptyCycle
    <2>2. ~Fetch /\ ~MatchTransfers
      BY <1>1 DEF Fetch, MatchTransfers
    <2>3. \A o : ~(ClassifyTracked(o) \/ ClassifySettled(o)
                     \/ ClassifyManual(o) \/ ClassifyNew(o))
      BY <1>1 DEF ClassifyTracked, ClassifySettled, ClassifyManual, ClassifyNew, Classifying
    <2> QED BY <2>1, <2>2, <2>3, CycleMoves
  <1>3. Remade(k)' = Remade(k)
    BY <1>1, RemadeMoves
  <1>4. CASE phase' = phase /\ w \in reply.new
    BY <1>2, <1>3, <1>4 DEF OneKey
  <1>5. ASSUME NEW W \in SUBSET Work, Post(W), phase = "create" => W = cls.creates,
               W \subseteq cls.creates \cup cls.matches
        PROVE  Remade(k)' = {} /\ \A u \in cls'.updates : u.new # k
    <2>1. ynab[w.iid] = "none" /\ w \in W
      BY <1>5, PostEffect
    <2>2. ~Made(Import(k))
      BY <1>5, <2>1 DEF Follows, Made
    <2> QED BY <1>2, <1>3, <2>2 DEF OneKey, CorrectionOf, RowOf
  <1>6. CASE PostCreates
    <2>1. cls.creates \in SUBSET Work /\ Post(cls.creates)
      BY <1>6 DEF PostCreates, TypeOK, Cycle
    <2> QED BY <1>5, <2>1
  <1>7. CASE PostMatches
    <2>1. cls.matches \in SUBSET Work /\ Post(cls.matches) /\ phase # "create"
      BY <1>7 DEF PostMatches, UpdatesDone, TypeOK, Cycle
    <2> QED BY <1>5, <2>1
  <1> QED BY <1>4, <1>6, <1>7, HandMoves

(* The response to a repost answers a correction, whose target is gone.    *)
LEMMA Reposted ==
  ASSUME TypeInv, Sourced, Follows, OneKey, NEW k \in SoloKey,
         NEW w \in Replies, w.key = k, phase = "rematch", Made(w.iid)
  PROVE  \E u \in cls.updates :
           /\ CorrectionOf(k, u) /\ u.id \in Remade(k) /\ Remade(k) = {u.id}
           /\ w.iid = Reeval(k, u.id) /\ w.status = "BOOKED"
  <1> USE DEF TypeInv
  <1>1. Replaces(w)
    BY DEF Follows
  <1>2. PICK u \in cls.updates : w.key = u.new /\ w.iid = Reeval(u.new, u.id)
    BY <1>1 DEF Replaces
  <1>3. CorrectionOf(k, u)
    BY <1>2 DEF OneKey
  <1>4. u.id \in Remade(k)
    BY <1>2 DEF Remade, TypeOK, Cycle, Update
  <1>5. Remade(k) = {u.id}
    BY <1>4 DEF OneKey
  <1> QED BY <1>1, <1>2, <1>3, <1>4, <1>5 DEF Replaces

(* A correction keeps finding the row it corrects.                         *)
LEMMA CorrectionStep ==
  ASSUME TypeInv, RealInv, Sourced, Follows, OneKey, [Next]_vars, NEW k \in SoloKey,
         NEW u \in cls'.updates, k \in {u.old, u.new}
  PROVE  CorrectionOf(k, u)'
  <1> USE DEF TypeInv
  <1>0. Import(k) \in Id
    BY SoloFacts, IdType
  <1>1. CASE u \notin cls.updates
    <2>1. PICK o \in todo : \/ ClassifyTracked(o) \/ ClassifySettled(o)
                            \/ ClassifyManual(o) \/ ClassifyNew(o)
      <3>1. ~Fetch /\ ~MatchTransfers /\ cls' # cls /\ cls' # EmptyCycle
        BY <1>1, Linking DEF EmptyCycle, Fetch
      <3> QED BY <3>1, CycleMoves
    <2>2. /\ o \in Obs /\ KeyOf(o) \in Key /\ UNCHANGED <<ynab, match, tracked>>
          /\ u.new = KeyOf(o) /\ u.old \in Key
          /\ StatusOf(u.old) = "PENDING" /\ u.id = tracked[u.old].id
          /\ u.old = u.new \/ LooksLike(o[1], u.old[1])
      BY <1>1, <2>1, Classified
    <2>3. Reported(u.old[1], "PENDING") /\ tracked[u.old] # NoRow
      BY <2>2 DEF Sourced, StatusOf
    <2>4. u.old = k /\ u.new = k
      BY <2>2, <2>3, SoloUpdate, Owners
    <2>5. RowOf(k) /\ StatusOf(k) = "PENDING" /\ u.id = tracked[k].id /\ tracked[k] # NoRow
      BY <2>2, <2>3, <2>4 DEF OneKey
    <2>6. CorrectionOf(k, u)
      BY <2>4, <2>5 DEF RowOf, CorrectionOf
    <2> QED BY <2>2, <2>6 DEF CorrectionOf, Hidden, Remade, Made
  <1>2. CASE u \in cls.updates
    <2>1. CorrectionOf(k, u) /\ cls' # EmptyCycle
      BY <1>2 DEF OneKey, EmptyCycle
    <2>2. u.id = Import(k) \/ (u.id \in Unimported /\ Hidden(Import(k))')
      BY <1>0, <2>1, RemoteMoves DEF CorrectionOf
    <2>3. Remade(k)' \subseteq {u.id} /\ Remade(k) \subseteq Remade(k)'
      BY <2>1, RemadeMoves, OneCorrection DEF CorrectionOf
    <2>4. tracked'[k] # NoRow /\ (u.id = tracked'[k].id \/ u.id \in Remade(k)')
      <3>0. k \in Key /\ tracked[k] # NoRow /\ u.new = k /\ u.old = k
            /\ (u.id = tracked[k].id \/ u.id \in Remade(k)')
        BY <2>1, <2>3, SoloFacts DEF CorrectionOf
      <3>1. CASE tracked'[k] = tracked[k]
        BY <3>0, <3>1
      <3>2. CASE BookUpdate /\ cur \in cls.updates /\ k \in {cur.new, cur.old}
        <4>1. cur.new = k /\ cur.old = k
          BY <3>2 DEF OneKey, CorrectionOf
        <4>2. tracked' = Moved(cur) \/ tracked' = tracked
          BY <3>2 DEF BookUpdate
        <4>3. tracked' = tracked \/ tracked'[k] = [status |-> "BOOKED", id |-> tracked[k].id]
          BY <3>0, <4>1, <4>2 DEF Moved, TypeOK
        <4>4. [status |-> "BOOKED", id |-> tracked[k].id] # NoRow
          BY <3>0, RowType DEF TypeOK
        <4> QED BY <3>0, <4>3, <4>4
      <3>3. ASSUME NEW w \in reply.new, RecordCreated(w), w.key = k PROVE FALSE
        BY <1>2, <3>0, <3>3 DEF RecordCreated, OneKey
      <3>4. ASSUME NEW w \in reply.new, RecordMatched(w), w.key = k,
                   tracked'[k] = [status |-> w.status, id |-> MatchedId(w)]
            PROVE  tracked'[k] # NoRow /\ u.id \in Remade(k)'
        <4>1. phase = "rematch" /\ w \in Replies /\ Made(w.iid)
          BY <1>2, <3>0, <3>4 DEF RecordMatched, OneKey, Replies, RealInv, CarriedIsReal
        <4>2. PICK v \in cls.updates : CorrectionOf(k, v) /\ v.id \in Remade(k)
          BY <3>4, <4>1, Reposted
        <4>3. u.id = v.id
          BY <2>1, <4>2, OneCorrection
        <4>4. tracked'[k] # NoRow
          <5>1. w \in Work /\ w.status \in Seen /\ MatchedId(w) \in Id
            BY <4>1, RepliesSourced, WorkType, IdType DEF MatchedId, Shape
          <5> QED BY <3>4, <5>1, EngineAssumption DEF Seen
        <4> QED BY <2>3, <4>2, <4>3, <4>4
      <3>5. ASSUME NEW v \in cls.updates, v.old = k,
                   tracked'[k] = [status |-> "DELETED", id |-> v.id]
            PROVE  tracked'[k] # NoRow /\ tracked'[k].id = u.id
        <4>1. CorrectionOf(k, v)
          BY <3>5 DEF OneKey
        <4>2. u.id = v.id /\ v.id \in Id
          BY <2>1, <4>1, OneCorrection, IdType DEF TypeOK, Cycle, Update
        <4>3. [status |-> "DELETED", id |-> v.id] # NoRow
          BY <4>2, EngineAssumption
        <4> QED BY <3>5, <4>2, <4>3
      <3>6. ~(RecordLeg /\ cur.key[1] \in cls.links /\ k[1] = SecondaryOf(cur.key[1]))
        BY LinkedLeg, SoloFacts
      <3> QED BY <2>1, <3>0, <3>1, <3>2, <3>3, <3>4, <3>5, <3>6, RowMoves
    <2>5. tracked'[k] # NoRow
      BY <2>4
    <2> QED BY <2>1, <2>2, <2>3, <2>4, <2>5 DEF CorrectionOf
  <1> QED BY <1>1, <1>2

(* A row that keeps its entry keeps its account.                           *)
LEMMA RowKept ==
  ASSUME TypeInv, RealInv, Sourced, Follows, OneKey, [Next]_vars, NEW k \in SoloKey,
         tracked[k] # NoRow, tracked'[k] # NoRow, tracked'[k].id = tracked[k].id,
         tracked'[k].status \in {tracked[k].status, "BOOKED"}
  PROVE  RowOf(k)'
  <1> USE DEF TypeInv
  <1> DEFINE I == Import(k)
  <1>y. PICK y : y = tracked[k].id /\ y = tracked'[k].id
    OBVIOUS
  <1>0. /\ I \in Id /\ y \in Id /\ k \in Key /\ FirstId \subseteq Id
        /\ \A z \in FirstId : Reeval(k, z) \in Id
    BY <1>y, SoloFacts, IdType, RowType DEF TypeOK
  <1>1. RowOf(k)
    BY DEF OneKey
  <1>2. /\ Made(I) /\ (~Visible(I) => ~Visible(I)') /\ (Hidden(I) => Hidden(I)')
        /\ Made(I)' /\ Remade(k) \subseteq Remade(k)'
    BY <1>0, <1>1, RemoteMoves, RemadeMoves DEF RowOf
  <1>3. y = I \/ (y \in Unimported /\ ~Visible(I)') \/ y \in {Reeval(k, z) : z \in Remade(k)'}
    BY <1>y, <1>1, <1>2 DEF RowOf
  <1>4. Made(y)
    BY <1>y, <1>0 DEF RealInv, TrackedIsReal, Made
  <1>5. ASSUME NEW u \in cls.updates, CorrectionOf(k, u), ynab[u.id] = "deleted",
               Remade(k)' = {u.id}, ~(Remade(k)' = Remade(k))
        PROVE  u.id = y
    <2>1. Remade(k) = {}
      BY <1>5 DEF CorrectionOf
    <2> QED BY <1>y, <1>5, <2>1 DEF CorrectionOf
  <1>6. ASSUME y \in Unimported, Visible(y)' PROVE \A z \in Remade(k)' : Hidden(Reeval(k, z))'
    <2>1. Visible(y)
      BY <1>0, <1>4, <1>6, RemoteMoves
    <2>2. Remade(k)' = Remade(k)
      BY <1>5, <2>1, RemadeMoves DEF Visible
    <2>3. \A z \in Remade(k) : Hidden(Reeval(k, z)) /\ z \in FirstId
      BY <1>y, <1>1, <1>6, <2>1 DEF RowOf, Remade
    <2> QED BY <1>0, <2>2, <2>3, RemoteMoves
  <1>7. ASSUME tracked[k].status = "PENDING"
        PROVE  /\ y = I \/ (y \in Unimported /\ Hidden(I)')
               /\ Remade(k)' \subseteq {y}
    <2>1. (y = I \/ (y \in Unimported /\ Hidden(I))) /\ Remade(k) \subseteq {y}
      BY <1>y, <1>1, <1>7 DEF RowOf, StatusOf
    <2> QED BY <1>2, <1>5, <2>1, RemadeMoves
  <1>8. tracked[k].status = "DELETED" /\ k[1] \notin Stable => y = I
    BY <1>y, <1>1 DEF RowOf, StatusOf
  <1>9. StatusOf(k)' = tracked'[k].status
    BY DEF StatusOf
  <1>10. StatusOf(k)' = "PENDING" =>
           /\ y = Import(k) \/ (y \in Unimported /\ Hidden(Import(k))')
           /\ Remade(k)' \subseteq {y}
    BY <1>7, <1>9
  <1>11. StatusOf(k)' = "DELETED" /\ k[1] \notin Stable => y = Import(k)
    BY <1>8, <1>9
  <1> QED BY <1>y, <1>2, <1>3, <1>6, <1>10, <1>11 DEF RowOf, Visible, Hidden

(* A row tracks the one entry its key has.                                 *)
LEMMA RowStep ==
  ASSUME TypeInv, RealInv, Sourced, Follows, OneKey, [Next]_vars, NEW k \in SoloKey,
         tracked'[k] # NoRow
  PROVE  RowOf(k)'
  <1> USE DEF TypeInv
  <1>0. /\ k \in Key /\ Import(k) \in Id /\ Import(k) \notin Unimported
        /\ \A z \in FirstId : Reeval(k, z) \in Id /\ Reeval(k, z) \notin Unimported
    BY SoloFacts, IdType
  <1>1. CASE tracked'[k] = tracked[k]
    BY <1>1, RowKept
  <1>2. CASE /\ BookUpdate /\ cur \in cls.updates /\ k = cur.new /\ tracked[cur.old] # NoRow
             /\ tracked'[k] = [status |-> "BOOKED", id |-> tracked[cur.old].id]
    <2>1. cur.old = k
      BY <1>2 DEF OneKey, CorrectionOf
    <2>2. tracked'[k].status = "BOOKED" /\ tracked'[k].id = tracked[k].id
      BY <1>2, <2>1
    <2> QED BY <1>2, <2>1, <2>2, RowKept
  <1>3. ASSUME NEW w \in reply.new, RecordCreated(w), w.key = k,
               tracked'[k] = [status |-> w.status, id |-> CreatedId(w)]
        PROVE  RowOf(k)'
    <2>1. /\ phase = "record" /\ w \in Replies /\ w.iid = Import(k) /\ Made(Import(k))
          /\ w.status \in Seen /\ UNCHANGED <<ynab, match>>
      BY <1>3, RepliesSourced, WorkType
         DEF RecordCreated, Replies, RealInv, CarriedIsReal, remote
    <2>2. Remade(k)' = {}
      BY <1>3, <2>1 DEF OneKey, Remade, Made
    <2>3. \/ CreatedId(w) = Import(k)
          \/ CreatedId(w) \in Unimported /\ Hidden(Import(k)) /\ ~Visible(Import(k))
      BY <1>0, <2>1, IdType DEF CreatedId, Hidden, Visible, TypeOK
    <2>4. tracked'[k].status \in Seen /\ tracked'[k].id = CreatedId(w)
      BY <1>3, <2>1
    <2> QED BY <2>1, <2>2, <2>3, <2>4 DEF RowOf, StatusOf, Seen, Made, Hidden, Visible
  <1>4. ASSUME NEW w \in reply.new, RecordMatched(w), w.key = k,
               tracked'[k] = [status |-> w.status, id |-> MatchedId(w)]
        PROVE  RowOf(k)'
    <2>1. /\ w \in Replies /\ phase \in {"match", "rematch"} /\ w.orig \in Unimported
          /\ w.status \in Seen /\ Made(w.iid) /\ UNCHANGED <<ynab, match>>
      BY <1>4, RepliesSourced, WorkType
         DEF RecordMatched, Replies, RealInv, CarriedIsReal, remote, Shape
    <2>2. tracked'[k].status = w.status /\ tracked'[k].id = MatchedId(w)
      BY <1>4
    <2>3. CASE phase = "match"
      <3>1. w.iid = Import(k) /\ Remade(k)' = {}
        BY <1>4, <2>1, <2>3, RepliesSourced DEF OneKey, Remade, Made
      <3>2. \/ MatchedId(w) = Import(k)
            \/ MatchedId(w) \in Unimported /\ Hidden(Import(k)) /\ ~Visible(Import(k))
        BY <2>1, <3>1 DEF MatchedId, Visible
      <3> QED BY <2>1, <2>2, <3>1, <3>2 DEF RowOf, StatusOf, Seen, Made, Hidden, Visible
    <2>4. CASE phase = "rematch"
      <3>1. PICK u \in cls.updates :
              /\ u.id \in Remade(k) /\ Remade(k) = {u.id}
              /\ w.iid = Reeval(k, u.id) /\ w.status = "BOOKED"
        BY <1>4, <2>1, <2>4, Reposted
      <3>2. Made(Import(k)) /\ ~Visible(Import(k))
        BY <3>1 DEF OneKey
      <3>3. Remade(k)' = {u.id}
        BY <2>1, <3>1 DEF Remade, Made
      <3>4. \/ MatchedId(w) = Reeval(k, u.id) /\ Reeval(k, u.id) \notin Unimported
            \/ MatchedId(w) \in Unimported /\ Hidden(Reeval(k, u.id))
        BY <1>0, <2>1, <3>1 DEF MatchedId, Remade
      <3> QED BY <2>1, <2>2, <3>1, <3>2, <3>3, <3>4
              DEF RowOf, StatusOf, Made, Hidden, Visible
    <2> QED BY <2>1, <2>3, <2>4
  <1>5. ASSUME NEW w \in reply.dup, BackfillDuplicate(w), w.key = k, ~Unfindable(w),
               tracked'[k] = [status |-> DuplicateStatus(w), id |-> w.iid]
        PROVE  RowOf(k)'
    <2>1. /\ phase = "record" /\ w \in Replies /\ w.iid = Import(k) /\ Made(Import(k))
          /\ UNCHANGED <<ynab, match>>
      BY <1>5, RepliesSourced DEF BackfillDuplicate, Replies, RealInv, CarriedIsReal, remote
    <2>2. tracked'[k].id = Import(k) /\ tracked'[k].status = DuplicateStatus(w)
      BY <1>5, <2>1
    <2>3. tracked'[k].status = "PENDING" => Remade(k)' = {}
      <3>1. Remade(k)' = Remade(k)
        BY <2>1 DEF Remade, Made
      <3>2. DuplicateStatus(w) = "PENDING" => Visible(Import(k))
        BY <1>5, <2>1 DEF DuplicateStatus, Unfindable, Visible
      <3>3. Visible(Import(k)) => Remade(k) = {}
        BY DEF OneKey
      <3> QED BY <2>2, <3>1, <3>2, <3>3
    <2> QED BY <1>0, <2>1, <2>2, <2>3 DEF RowOf, StatusOf, Made
  <1>6. ASSUME NEW w \in reply.dup, MatchedAgain(w), w.key = k, tracked[k] = NoRow, Findable(w),
               tracked'[k] = [status |-> w.status, id |-> w.iid]
        PROVE  RowOf(k)'
    <2>1. /\ w \in Replies /\ phase \in {"match", "rematch"} /\ Made(w.iid)
          /\ w.status \in Seen /\ UNCHANGED <<ynab, match>>
      BY <1>6, RepliesSourced, WorkType
         DEF MatchedAgain, Replies, RealInv, CarriedIsReal, remote
    <2>2. phase # "rematch"
      BY <1>6, <2>1, Reposted DEF CorrectionOf
    <2>3. w.iid = Import(k) /\ Visible(Import(k))
      BY <1>6, <2>1, <2>2, RepliesSourced DEF Findable
    <2>4. Remade(k)' = {}
      BY <2>1, <2>3 DEF OneKey, Remade, Made
    <2>5. tracked'[k].id = Import(k) /\ tracked'[k].status \in Seen
      BY <1>6, <2>1, <2>3
    <2> QED BY <1>0, <2>1, <2>3, <2>4, <2>5 DEF RowOf, StatusOf, Made, Seen
  <1>7. ASSUME NEW u \in fixes, RecoverAsDeleted(u), u \in cls.updates, u.old = k,
               tracked'[k] = [status |-> "DELETED", id |-> u.id]
        PROVE  RowOf(k)'
    <2>1. /\ CorrectionOf(k, u) /\ RowOf(k) /\ k[1] \in Stable
          /\ UNCHANGED <<ynab, match>> /\ ynab[u.id] # "live"
      <3>1. CorrectionOf(k, u) /\ RowOf(k)
        BY <1>7 DEF OneKey, CorrectionOf
      <3>2. k[1] \in Stable
        BY <1>7, SoloFacts DEF Sourced, Reported
      <3> QED BY <1>7, <3>1, <3>2 DEF RecoverAsDeleted, remote
    <2>2. tracked'[k].id = u.id /\ tracked'[k].status = "DELETED"
      BY <1>7
    <2> QED BY <2>1, <2>2 DEF RowOf, CorrectionOf, StatusOf, Made, Hidden, Visible
  <1>8. ~(RecordLeg /\ cur.key[1] \in cls.links /\ k[1] = SecondaryOf(cur.key[1]))
    BY LinkedLeg, SoloFacts
  <1> QED BY <1>0, <1>1, <1>2, <1>3, <1>4, <1>5, <1>6, <1>7, <1>8, RowMoves

(* Every step leaves one entry per key of a Solo transaction.              *)
LEMMA OneKeyStep ==
  ASSUME TypeInv, RealInv, Sourced, Follows, OneKey, [Next]_vars
  PROVE  OneKey'
  <1>1. ASSUME NEW k \in SoloKey
        PROVE  /\ tracked'[k] # NoRow => RowOf(k)'
               /\ \A y \in Remade(k)' :
                    /\ k[1] \in Stable /\ Made(Import(k))' /\ ~Visible(Import(k))'
                    /\ ynab'[y] = "deleted" /\ Remade(k)' = {y}
               /\ \A u \in cls'.updates : k \in {u.old, u.new} => CorrectionOf(k, u)'
               /\ \A w \in reply'.new : w.key = k /\ phase' \in {"record", "match"} =>
                    Remade(k)' = {} /\ \A u \in cls'.updates : u.new # k
    BY RowStep, RemadeStep, CorrectionStep, ReplyStep
  <1>2. \A k \in Key : StatusOf(k)' = "DELETED" => ynab'[tracked'[k].id] = "deleted"
    BY DeletedStep
  <1> QED BY <1>1, <1>2 DEF OneKey

-----------------------------------------------------------------------------
(* What the cycle has classified is accounted for.                         *)

(* Only a lost database or a change of key takes a row away.               *)
LEMMA RowStays ==
  ASSUME TypeInv, Sourced, Follows, OneKey, [Next]_vars, NEW k \in SoloKey,
         cls' # EmptyCycle, tracked'[k] = NoRow
  PROVE  tracked[k] = NoRow
  <1> USE DEF TypeInv
  <1>0. k \in Key
    BY SoloFacts
  <1>1. ASSUME NEW st \in Status, NEW y \in Id PROVE tracked'[k] # [status |-> st, id |-> y]
    BY EngineAssumption DEF Status
  <1>2. ~(BookUpdate /\ cur \in cls.updates /\ k = cur.old /\ cur.old # cur.new)
    BY DEF OneKey, CorrectionOf
  <1>3. ~(/\ BookUpdate /\ cur \in cls.updates /\ k = cur.new /\ tracked[cur.old] # NoRow
          /\ tracked'[k] = [status |-> "BOOKED", id |-> tracked[cur.old].id])
    <2> SUFFICES ASSUME cur \in cls.updates, tracked[cur.old] # NoRow
                 PROVE  tracked'[k] # [status |-> "BOOKED", id |-> tracked[cur.old].id]
      OBVIOUS
    <2>1. tracked[cur.old].id \in Id
      BY RowType DEF TypeOK, Cycle, Update
    <2> QED BY <1>1, <2>1 DEF Status
  <1>4. ~(RecordLeg /\ cur.key[1] \in cls.links /\ k[1] = SecondaryOf(cur.key[1]))
    BY LinkedLeg, SoloFacts
  <1>5. ASSUME NEW w \in Replies
        PROVE  /\ w.status \in Status /\ w.iid \in Id /\ DuplicateStatus(w) \in Status
               /\ match[w.iid] # NoId => match[w.iid] \in Id
               /\ phase \in {"match", "rematch"} => w.orig \in Id
    BY RepliesSourced, WorkType, IdType DEF Seen, Status, DuplicateStatus, TypeOK, Shape
  <1>6. ASSUME NEW w \in reply.new, RecordCreated(w), w.key = k,
               tracked'[k] = [status |-> w.status, id |-> CreatedId(w)]
        PROVE  FALSE
    BY <1>1, <1>5, <1>6 DEF Replies, CreatedId, Hidden
  <1>7. ASSUME NEW w \in reply.new, RecordMatched(w), w.key = k,
               tracked'[k] = [status |-> w.status, id |-> MatchedId(w)]
        PROVE  FALSE
    BY <1>1, <1>5, <1>7 DEF Replies, MatchedId, RecordMatched
  <1>8. ASSUME NEW w \in reply.dup, BackfillDuplicate(w), w.key = k, tracked[k] = NoRow,
               ~Unfindable(w), tracked'[k] = [status |-> DuplicateStatus(w), id |-> w.iid]
        PROVE  FALSE
    BY <1>1, <1>5, <1>8 DEF Replies
  <1>9. ASSUME NEW w \in reply.dup, MatchedAgain(w), w.key = k, tracked[k] = NoRow,
               Findable(w), tracked'[k] = [status |-> w.status, id |-> w.iid]
        PROVE  FALSE
    BY <1>1, <1>5, <1>9 DEF Replies
  <1>10. ASSUME NEW u \in fixes, RecoverAsDeleted(u), u \in cls.updates, u.old = k,
                tracked'[k] = [status |-> "DELETED", id |-> u.id]
         PROVE  FALSE
    BY <1>1, <1>10, IdType DEF TypeOK, Update, Status
  <1>11. tracked'[k] = tracked[k] => tracked[k] = NoRow
    OBVIOUS
  <1> QED BY <1>0, <1>2, <1>3, <1>4, <1>6, <1>7, <1>8, <1>9, <1>10, <1>11, RowMoves

(* What is to come stays so until its response is handled: a failure turns *)
(* a response back into what was submitted.                                *)
LEMMA ToComeMoves ==
  ASSUME TypeInv, RealInv, Follows, [Next]_vars, cls' = cls,
         NEW w \in ToCome, w \notin ToCome'
  PROVE  /\ w \in Replies /\ phase \in {"record", "match"}
         /\ \/ w \in reply.new /\ (RecordCreated(w) \/ RecordMatched(w))
            \/ w \in reply.dup /\ (BackfillDuplicate(w) \/ MatchedAgain(w))
  <1> USE DEF TypeInv
  <1> DEFINE Handled == /\ w \in Replies /\ phase \in {"record", "match"}
                        /\ \/ w \in reply.new /\ (RecordCreated(w) \/ RecordMatched(w))
                           \/ w \in reply.dup /\ (BackfillDuplicate(w) \/ MatchedAgain(w))
  <1>0. /\ phase = "record" => Replies \subseteq cls.creates
        /\ phase = "match" => Replies \subseteq cls.matches
    BY DEF Shape, Follows
  <1>1. CASE Environment \/ UNCHANGED vars
    <2>1. UNCHANGED <<phase, reply>>
      BY <1>1 DEF Environment, Appear, Settle, UserTypes, UserDeletes, vars, volatile
    <2> QED BY <2>1 DEF ToCome, Replies
  <1>2. CASE Fetch
    <2>1. cls'.creates = {} /\ cls'.matches = {} /\ phase = "idle"
      BY <1>2 DEF Fetch, EmptyCycle
    <2> QED BY <2>1 DEF ToCome
  <1>3. CASE Classify \/ MatchTransfers
    <2>1. phase = "classify" /\ phase' \in {"classify", "create"}
      BY <1>3 DEF Classify, ListAgain, MatchTransfers, ClassifyTracked, ClassifySettled,
         ClassifyManual, ClassifyNew, Classifying
    <2> QED BY <2>1 DEF ToCome
  <1>4. CASE Creates
    <2>1. CASE PostCreates
      <3>1. phase = "create" /\ phase' = "record" /\ cls.creates \in SUBSET Work
            /\ Post(cls.creates)
        BY <2>1 DEF PostCreates, TypeOK, Cycle
      <3>2. Replies' = cls.creates
        BY <3>1, PostEffect DEF Replies
      <3> QED BY <3>1, <3>2 DEF ToCome
    <2>2. CASE RecordLeg \/ LegMissing \/ FixLeg \/ Unclear
      <3>1. UNCHANGED <<phase, reply>>
        BY <2>2 DEF RecordLeg, LegMissing, FixLeg, Unclear
      <3> QED BY <3>1 DEF ToCome, Replies
    <2>3. CASE StartUpdates
      <3>1. /\ phase' = "update"
            /\ \/ phase = "create" /\ cls.creates = {}
               \/ phase = "record" /\ reply = NoReply
        BY <2>3 DEF StartUpdates
      <3> QED BY <3>1 DEF ToCome, Replies, NoReply
    <2>4. ASSUME NEW v \in reply.new, RecordCreated(v) PROVE Handled
      <3>1. phase = "record" /\ phase' = phase /\ \A x \in Replies : x = v \/ x \in Replies'
        BY <2>4 DEF RecordCreated, Replies, TypeOK, Reply
      <3>2. w \in Replies /\ w = v
        BY <3>1 DEF ToCome
      <3> QED BY <2>4, <3>1, <3>2
    <2>5. ASSUME NEW v \in reply.dup, BackfillDuplicate(v) PROVE Handled
      <3>1. phase = "record" /\ phase' = phase /\ \A x \in Replies : x = v \/ x \in Replies'
        BY <2>5 DEF BackfillDuplicate, Replies, TypeOK, Reply
      <3>2. w \in Replies /\ w = v
        BY <3>1 DEF ToCome
      <3> QED BY <2>5, <3>1, <3>2
    <2> QED BY <1>4, <2>1, <2>2, <2>3, <2>4, <2>5 DEF Creates
  <1>5. CASE Updates
    <2>1. /\ phase \in {"update", "repost", "rematch"}
          /\ phase' \in {"update", "repost", "rematch", "failed"}
      BY <1>5 DEF Updates, BookUpdate, PostReplacement, ReplacementDone, PatchUpdate,
         RecoverWithoutRow, RecoverAsDeleted, RecoverAsReplaced, NextUpdate, Shape
    <2> QED BY <2>1 DEF ToCome
  <1>6. CASE Matches
    <2>1. CASE PostMatches
      <3>1. phase = "update" /\ phase' = "match" /\ cls.matches \in SUBSET Work
            /\ Post(cls.matches)
        BY <2>1 DEF PostMatches, UpdatesDone, TypeOK, Cycle
      <3>2. Replies' = cls.matches
        BY <3>1, PostEffect DEF Replies
      <3> QED BY <3>1, <3>2 DEF ToCome
    <2>2. CASE DeleteOriginal
      BY <2>2 DEF DeleteOriginal, ToCome, Replies
    <2>3. CASE Finish
      <3>1. /\ cls.creates = {} /\ cls.matches = {}
            /\ phase = "update" \/ (phase = "match" /\ reply = NoReply)
        BY <2>3 DEF Finish, UpdatesDone, EmptyCycle
      <3> QED BY <3>1 DEF ToCome, Replies, NoReply
    <2>4. ASSUME NEW v \in reply.new, RecordMatched(v) PROVE Handled
      <3>1. /\ phase \in {"match", "rematch"} /\ phase' = phase
            /\ \A x \in Replies : x = v \/ x \in Replies'
        BY <2>4 DEF RecordMatched, Replies, TypeOK, Reply
      <3>2. w \in Replies /\ w = v /\ phase = "match"
        BY <3>1 DEF ToCome
      <3> QED BY <2>4, <3>1, <3>2
    <2>5. ASSUME NEW v \in reply.dup, MatchedAgain(v) PROVE Handled
      <3>1. /\ phase \in {"match", "rematch"} /\ phase' = phase
            /\ \A x \in Replies : x = v \/ x \in Replies'
        BY <2>5 DEF MatchedAgain, Replies, TypeOK, Reply
      <3>2. w \in Replies /\ w = v /\ phase = "match"
        BY <3>1 DEF ToCome
      <3> QED BY <2>5, <3>1, <3>2
    <2> QED BY <1>6, <2>1, <2>2, <2>3, <2>4, <2>5 DEF Matches
  <1>7. CASE Retry
    BY <1>7 DEF Retry, ToCome
  <1>8. CASE SubmitFails
    <2>1. phase' = "failed" /\ phase # "classify"
      BY <1>8 DEF SubmitFails, Submitting
    <2> QED BY <1>0, <2>1 DEF ToCome
  <1>9. CASE Drop \/ FetchFails \/ Crash
    <2>1. cls' = EmptyCycle
      BY <1>9 DEF Drop, FetchFails, Crash
    <2>2. cls.creates = {} /\ cls.matches = {}
      BY <2>1 DEF EmptyCycle
    <2> QED BY <1>0, <2>2 DEF ToCome
  <1> QED BY <1>1, <1>2, <1>3, <1>4, <1>5, <1>6, <1>7, <1>8, <1>9 DEF Next, Failures

(* A response once handled leaves a row, or something known to be left.    *)
LEMMA Settled ==
  ASSUME TypeInv, RealInv, Sourced, Follows, [Next]_vars, cls' = cls,
         NEW o, NEW w \in Replies, KeyOf(o) = w.key, phase \in {"record", "match"},
         \/ w \in reply.new /\ (RecordCreated(w) \/ RecordMatched(w))
         \/ w \in reply.dup /\ (BackfillDuplicate(w) \/ MatchedAgain(w)),
         tracked'[w.key] = NoRow
  PROVE  LeftAlone(o)'
  <1> USE DEF TypeInv
  <1>1. /\ w.key \in Key /\ w.iid = Import(w.key) /\ w.iid \in Id /\ w.status \in Seen
        /\ phase = "match" => w \in cls.matches /\ w.orig \in Id
    BY RepliesSourced, WorkType, IdType DEF Shape
  <1>2. Made(w.iid)
    BY DEF RealInv, CarriedIsReal
  <1>3. ASSUME NEW st \in Status, NEW y \in Id
        PROVE  tracked' # [tracked EXCEPT ![w.key] = [status |-> st, id |-> y]]
    <2>1. [status |-> st, id |-> y] # NoRow
      BY EngineAssumption DEF Status
    <2> QED BY <1>1, <2>1 DEF TypeOK
  <1>4. ~RecordCreated(w)
    <2>1. CreatedId(w) \in Id
      BY <1>1, IdType DEF CreatedId, Hidden, TypeOK
    <2> QED BY <1>1, <1>3, <2>1 DEF RecordCreated, Track, Seen, Status
  <1>5. ~RecordMatched(w)
    <2> SUFFICES ASSUME RecordMatched(w) PROVE FALSE
      OBVIOUS
    <2>1. MatchedId(w) \in Id /\ w.status \in Status
      BY <1>1 DEF RecordMatched, MatchedId, Seen, Status
    <2> QED BY <1>3, <2>1 DEF RecordMatched, Track
  <1>6. CASE BackfillDuplicate(w)
    <2>1. UNCHANGED match
      BY <1>6 DEF BackfillDuplicate, remote
    <2>2. DuplicateStatus(w) \in Status
      BY <1>1 DEF DuplicateStatus, Seen, Status
    <2>3. Unfindable(w)
      BY <1>1, <1>3, <1>6, <2>2 DEF BackfillDuplicate
    <2> QED BY <1>1, <2>1, <2>3 DEF LeftAlone, Unfindable, Hidden
  <1>7. CASE MatchedAgain(w)
    <2>1. UNCHANGED <<ynab, match>> /\ phase = "match"
      BY <1>7 DEF MatchedAgain, remote
    <2>2. tracked[w.key] = NoRow /\ ~Findable(w)
      BY <1>1, <1>3, <1>7, FoundOurs DEF MatchedAgain, Seen, Status
    <2>3. Hidden(w.iid) \/ ynab[w.iid] = "deleted"
      BY <1>1, <1>2, <2>2 DEF Findable, Visible, Made, TypeOK
    <2> QED BY <1>1, <2>1, <2>3 DEF LeftAlone, Hidden
  <1> QED BY <1>4, <1>5, <1>6, <1>7

(* Every step leaves the classified Solo transactions accounted for.       *)
LEMMA AccountedStep ==
  ASSUME TypeInv, RealInv, Sourced, Follows, OneKey, Accounted, [Next]_vars
  PROVE  Accounted'
  <1> USE DEF TypeInv
  <1> SUFFICES ASSUME NEW o \in cls'.seen, o \notin todo', o[1] \in Solo
               PROVE  \/ tracked'[KeyOf(o)] # NoRow
                      \/ LeftAlone(o)'
                      \/ \E w \in ToCome' : w.key = KeyOf(o)
    BY DEF Accounted
  <1>0. cls' # EmptyCycle /\ ~Fetch
    BY DEF EmptyCycle, Fetch
  <1>1. o \in Obs /\ KeyOf(o) \in SoloKey
    <2>1. o \in Obs
      BY TypeNext DEF TypeOK, Cycle
    <2> QED BY <2>1, Owners, KeyType DEF SoloKey
  <1>2. tracked[KeyOf(o)] # NoRow => tracked'[KeyOf(o)] # NoRow
    BY <1>0, <1>1, RowStays
  <1>3. CASE MatchTransfers
    <2>1. /\ phase = "classify" /\ phase' = "create" /\ o \in cls.seen \ todo
          /\ UNCHANGED <<ynab, match>> /\ cls'.matches = cls.matches
      BY <1>3, Linking
    <2>2. LeftAlone(o) => LeftAlone(o)'
      BY <2>1 DEF LeftAlone, Hidden
    <2>3. ASSUME NEW w \in ToCome, w.key = KeyOf(o) PROVE w \in ToCome'
      <3>1. w \in cls.creates \/ w \in cls.matches
        BY <2>1 DEF ToCome
      <3>2. w.key[1] \notin Secondary
        BY <1>1, <2>3, SoloFacts
      <3> QED BY <1>3, <2>1, <3>1, <3>2, Linking DEF ToCome
    <2> QED BY <1>2, <2>1, <2>2, <2>3 DEF Accounted
  <1>4. ASSUME NEW p \in todo,
               \/ ClassifyTracked(p) \/ ClassifySettled(p)
               \/ ClassifyManual(p) \/ ClassifyNew(p)
        PROVE  \/ tracked'[KeyOf(o)] # NoRow
               \/ LeftAlone(o)'
               \/ \E w \in ToCome' : w.key = KeyOf(o)
    <2>1. /\ phase = "classify" /\ phase' = "classify" /\ todo' = todo \ {p}
          /\ UNCHANGED <<ynab, match, tracked>> /\ cls'.seen = cls.seen
          /\ cls.creates \subseteq cls'.creates /\ cls.matches \subseteq cls'.matches
      BY <1>4, Classified
    <2>2. CASE o \notin todo
      <3>1. LeftAlone(o) => LeftAlone(o)'
        BY <2>1 DEF LeftAlone, Hidden
      <3>2. \A w \in ToCome : w \in ToCome'
        BY <2>1 DEF ToCome
      <3> QED BY <1>2, <2>1, <2>2, <3>1, <3>2 DEF Accounted
    <2>3. CASE o = p
      <3>1. CASE \E w \in cls'.creates \cup cls'.matches : w.key = KeyOf(o)
        BY <2>1, <3>1 DEF ToCome
      <3>2. ASSUME NEW u \in cls'.updates, u.new = KeyOf(p), u.old \in pool.pending,
                   LooksLike(p[1], u.old[1])
            PROVE  tracked[KeyOf(o)] # NoRow
        <4>1. u.old \in Key /\ StatusOf(u.old) = "PENDING" /\ tracked[u.old] # NoRow
          BY <3>2 DEF TypeOK, Pool, Shape, StatusOf
        <4>2. Reported(u.old[1], "PENDING")
          BY <4>1 DEF Sourced
        <4>3. u.new[1] = p[1] /\ u.new \in Key
          BY <1>1, <2>3, <3>2, Owners, KeyType
        <4>4. u.old = KeyOf(o)
          BY <1>1, <2>3, <3>2, <4>1, <4>2, <4>3, SoloUpdate
        <4> QED BY <4>1, <4>4
      <3> QED BY <1>2, <1>4, <2>3, <3>1, <3>2, Classified
    <2> QED BY <2>1, <2>2, <2>3
  <1>5. CASE cls' = cls /\ o \in cls.seen \ todo
    <2>1. LeftAlone(o) => LeftAlone(o)'
      <3>1. Import(KeyOf(o)) \in Id
        BY <1>1, SoloFacts, IdType
      <3> QED BY <1>5, <3>1, RemoteMoves DEF LeftAlone
    <2>2. ASSUME NEW w \in ToCome, w.key = KeyOf(o), w \notin ToCome', tracked'[KeyOf(o)] = NoRow
          PROVE  LeftAlone(o)'
      BY <1>5, <2>2, ToComeMoves, Settled
    <2> QED BY <1>2, <1>5, <2>1, <2>2 DEF Accounted
  <1>6. CASE cls' = cls /\ todo' = {} /\ phase # "classify"
    BY <1>5, <1>6 DEF Follows
  <1>7. CASE UNCHANGED <<cls, todo>>
    BY <1>5, <1>7
  <1> QED BY <1>0, <1>3, <1>4, <1>6, <1>7, CycleMoves

-----------------------------------------------------------------------------
(* Each transaction is worked on once per cycle, and what a row says lasts.*)

(* What is tracked does not change while a cycle is classified.            *)
LEMMA ClassifyIsQuiet ==
  ASSUME TypeInv, [Next]_vars, phase' = "classify"
  PROVE  Fetch \/ (phase = "classify" /\ tracked' = tracked)
  <1> USE DEF TypeInv
  <1>1. CASE Environment \/ UNCHANGED vars
    BY <1>1 DEF Environment, Appear, Settle, UserTypes, UserDeletes, vars
  <1>2. CASE Fetch \/ Classify \/ MatchTransfers
    BY <1>2 DEF Classify, ListAgain, MatchTransfers, ClassifyTracked, ClassifySettled,
       ClassifyManual, ClassifyNew, Classifying
  <1>3. CASE Creates
    BY <1>3 DEF Creates, PostCreates, RecordLeg, LegMissing, FixLeg, Unclear, StartUpdates,
       RecordCreated, BackfillDuplicate, Shape
  <1>4. CASE Updates
    BY <1>4 DEF Updates, BookUpdate, PostReplacement, ReplacementDone, PatchUpdate,
       RecoverWithoutRow, RecoverAsDeleted, RecoverAsReplaced, NextUpdate
  <1>5. CASE Matches
    BY <1>5 DEF Matches, PostMatches, DeleteOriginal, Finish, RecordMatched,
       MatchedAgain, Shape
  <1>6. CASE Retry \/ Drop \/ Failures
    BY <1>6 DEF Retry, Drop, Failures, SubmitFails, FetchFails, Crash
  <1> QED BY <1>1, <1>2, <1>3, <1>4, <1>5, <1>6 DEF Next

(* An observation adds one piece of work at most.                          *)
LEMMA OneWork ==
  ASSUME NEW o \in todo, \/ ClassifyTracked(o) \/ ClassifySettled(o)
                         \/ ClassifyManual(o) \/ ClassifyNew(o)
  PROVE  \E y : /\ Works' \subseteq Works \cup {WorkFor(o, y)}
                /\ WorkFor(o, y) \in Works' => WorkFor(o, y) \in Works
                                               \/ tracked[KeyOf(o)] = NoRow
                /\ cls'.creates \subseteq cls.creates \cup {WorkFor(o, NoId)}
  <1>1. CASE ClassifyTracked(o)
    <2>1. cls'.creates = cls.creates /\ cls'.matches = cls.matches
      BY <1>1 DEF ClassifyTracked
    <2> QED BY <2>1 DEF Works
  <1>2. CASE ClassifySettled(o)
    <2>1. cls'.creates = cls.creates /\ cls'.matches = cls.matches
      BY <1>2 DEF ClassifySettled
    <2> QED BY <2>1 DEF Works
  <1>3. CASE ClassifyManual(o)
    <2>1. PICK y : y = The(Typed(o))
      OBVIOUS
    <2>2. cls' = [cls EXCEPT !.matches = @ \cup {WorkFor(o, y)}] /\ tracked[KeyOf(o)] = NoRow
      BY <1>3, <2>1 DEF ClassifyManual
    <2> QED BY <2>2 DEF Works
  <1>4. CASE ClassifyNew(o)
    BY <1>4 DEF ClassifyNew, Works
  <1> QED BY <1>1, <1>2, <1>3, <1>4

(* No step gives a transaction a second piece of work.                     *)
LEMMA OneEachStep ==
  ASSUME TypeInv, Follows, OneEach, [Next]_vars
  PROVE  OneEach'
  <1> USE DEF TypeInv
  <1>1. CASE Fetch
    <2>1. Works' = {} /\ cls'.creates = {} /\ cls'.seen = todo'
      BY <1>1 DEF Fetch, EmptyCycle, Works
    <2>2. \A o, p \in todo' : o[1] = p[1] => o = p
      BY <1>1 DEF Fetch
    <2> QED BY <2>1, <2>2 DEF OneEach
  <1>2. CASE cls' = EmptyCycle
    BY <1>2 DEF OneEach, EmptyCycle, Works
  <1>3. CASE MatchTransfers
    <2>1. /\ phase' = "create" /\ cls'.seen = cls.seen
          /\ cls'.creates \subseteq cls.creates /\ Works' \subseteq Works
      BY <1>3, Linking DEF Works
    <2> QED BY <2>1 DEF OneEach
  <1>4. ASSUME NEW o \in todo, \/ ClassifyTracked(o) \/ ClassifySettled(o)
                               \/ ClassifyManual(o) \/ ClassifyNew(o)
        PROVE  OneEach'
    <2>1. /\ o = <<o[1], o[2]>> /\ o \in cls.seen
          /\ phase = "classify" /\ todo' = todo \ {o} /\ tracked' = tracked
          /\ cls'.seen = cls.seen
      BY <1>4, Classified DEF Obs, Follows
    <2>2. PICK y : /\ Works' \subseteq Works \cup {WorkFor(o, y)}
                   /\ WorkFor(o, y) \in Works' => WorkFor(o, y) \in Works
                                                  \/ tracked[KeyOf(o)] = NoRow
                   /\ cls'.creates \subseteq cls.creates \cup {WorkFor(o, NoId)}
      BY <1>4, OneWork
    <2>3. ASSUME NEW z
          PROVE  /\ WorkFor(o, z).key = KeyOf(o) /\ WorkFor(o, z).key[1] = o[1]
                 /\ WorkFor(o, z).status = o[2] /\ WorkFor(o, z).orig = z
      BY <2>1, Classified, <1>4, Owners DEF WorkFor
    <2>4. ASSUME NEW w \in Works
          PROVE  /\ w.key[1] # o[1] /\ <<w.key[1], w.status>> \in cls.seen
                 /\ tracked[w.key] = NoRow /\ <<w.key[1], w.status>> \notin todo
      <3>1. /\ <<w.key[1], w.status>> \in cls.seen
            /\ tracked[w.key] = NoRow /\ <<w.key[1], w.status>> \notin todo
        BY <2>1 DEF OneEach
      <3>2. <<w.key[1], w.status>>[1] = w.key[1] /\ <<w.key[1], w.status>> # o
        BY <2>1, <3>1
      <3> QED BY <2>1, <3>1, <3>2 DEF OneEach
    <2>5. WorkFor(o, y) \in Works' => tracked[KeyOf(o)] = NoRow
      BY <2>2, <2>3, <2>4
    <2>6. \A w \in cls'.creates : w.orig = NoId
      BY <2>2, <2>3 DEF OneEach
    <2>7. \A w \in Works' : w \in Works \/ w = WorkFor(o, y)
      BY <2>2
    <2>8. \A v, w \in Works' : v.key[1] = w.key[1] => v = w
      <3> SUFFICES ASSUME NEW v \in Works', NEW w \in Works', v.key[1] = w.key[1]
                   PROVE  v = w
        OBVIOUS
      <3>1. CASE v \in Works /\ w \in Works
        BY <3>1 DEF OneEach
      <3>2. CASE v \notin Works \/ w \notin Works
        <4>1. WorkFor(o, y).key[1] = o[1]
          BY <2>3
        <4> QED BY <2>4, <2>7, <3>2, <4>1
      <3> QED BY <3>1, <3>2
    <2>9. ASSUME NEW w \in Works'
          PROVE  /\ <<w.key[1], w.status>> \in cls'.seen
                 /\ tracked'[w.key] = NoRow /\ <<w.key[1], w.status>> \notin todo'
      <3>1. CASE w \in Works
        BY <2>1, <2>4, <3>1
      <3>2. CASE w = WorkFor(o, y)
        <4>1. <<w.key[1], w.status>> = o /\ tracked[w.key] = NoRow
          BY <2>1, <2>3, <2>5, <2>9, <3>2
        <4> QED BY <2>1, <4>1
      <3> QED BY <2>7, <3>1, <3>2
    <2> QED BY <2>1, <2>6, <2>8, <2>9 DEF OneEach
  <1>5. CASE cls' = cls /\ (phase' = "classify" => todo' = todo) /\ ~Fetch
    <2>1. Works' = Works
      BY <1>5 DEF Works
    <2>2. phase' = "classify" => phase = "classify" /\ tracked' = tracked /\ todo' = todo
      BY <1>5, ClassifyIsQuiet
    <2> QED BY <1>5, <2>1, <2>2 DEF OneEach
  <1> QED BY <1>1, <1>2, <1>3, <1>4, <1>5, CycleMoves

(* The key of a leg is that of the inflow it stands for.                   *)
LEMMA LegKeys ==
  ASSUME TypeInv, Sourced, NEW t \in cls.links
  PROVE  /\ t \in Tx /\ LegKey(t) \in Key /\ LegKey(t)[1] = SecondaryOf(t)
         /\ SecondaryOf(t) \notin Pendable
         /\ <<t, SecondaryOf(t)>> \in Pairs
         /\ \A k \in Key : k[1] = SecondaryOf(t) => k = LegKey(t)
  <1> USE DEF TypeInv
  <1>1. t \in Primary /\ t \in Tx
    BY EngineAssumption DEF TypeOK, Cycle, Primary
  <1>2. <<t, SecondaryOf(t)>> \in Pairs
    BY <1>1, SecondaryType
  <1>3. SecondaryOf(t) \notin Pendable
    BY <1>2, EngineAssumption DEF Pendable
  <1>4. LegKey(t) \in Key /\ LegKey(t)[1] = SecondaryOf(t)
    BY LinkedLeg DEF LegKey
  <1>5. ASSUME NEW k \in Key, k[1] = SecondaryOf(t) PROVE k = LegKey(t)
    <2>1. PICK o \in Obs : k = KeyOf(o)
      BY DEF Key
    <2>2. o[1] \notin Card
      BY <1>3, <1>5, <2>1, Owners DEF Pendable
    <2>3. k = <<o[1], "BOOKED">> /\ o[1] = SecondaryOf(t)
      BY <1>5, <2>1, <2>2, Owners DEF KeyOf
    <2>4. KeyOf(<<o[1], "BOOKED">>) = <<o[1], "BOOKED">>
      BY <2>2 DEF KeyOf
    <2> QED BY <2>3, <2>4 DEF LegKey
  <1> QED BY <1>1, <1>2, <1>3, <1>4, <1>5

(* A leg is not found deleted while the transfer is in hand.               *)
LEMMA LegsLast ==
  ASSUME TypeInv, Sourced, Follows, OneEach, Lasting, [Next]_vars
  PROVE  /\ phase' = "classify" => cls'.links = {}
         /\ \A t \in cls'.links :
              /\ StatusOf(LegKey(t))' # "DELETED"
              /\ \A w \in cls'.creates : w.key[1] # SecondaryOf(t)
  <1> USE DEF TypeInv
  <1>1. CASE Fetch \/ cls' = EmptyCycle
    <2>1. cls'.links = {}
      BY <1>1 DEF Fetch, EmptyCycle
    <2> QED BY <2>1
  <1>2. CASE MatchTransfers
    <2>1. /\ phase = "classify" /\ phase' = "create" /\ UNCHANGED tracked
      BY <1>2, Linking
    <2> SUFFICES ASSUME NEW t \in cls'.links
                 PROVE  /\ StatusOf(LegKey(t))' # "DELETED"
                        /\ \A w \in cls'.creates : w.key[1] # SecondaryOf(t)
      BY <2>1
    <2>2. PICK w \in cls.creates : t \in Primary /\ w.key[1] = SecondaryOf(t)
      BY <1>2, Linking
    <2>3. <<t, SecondaryOf(t)>> \in Pairs /\ SecondaryOf(t) \notin Card
      BY <2>2, SecondaryType, EngineAssumption
    <2>4. w.key \in Key /\ w \in Works /\ tracked[w.key] = NoRow
      BY <2>1, WorkType DEF Works, OneEach, TypeOK, Cycle
    <2>5. w.key = LegKey(t)
      <3>1. PICK o \in Obs : w.key = KeyOf(o)
        BY <2>4 DEF Key
      <3>2. o[1] = SecondaryOf(t)
        BY <2>2, <3>1, Owners
      <3> QED BY <2>3, <3>1, <3>2 DEF KeyOf, LegKey
    <2>6. \A v \in cls'.creates : v.key[1] # SecondaryOf(t)
      BY <1>2, <2>3, Linking
    <2> QED BY <2>1, <2>4, <2>5, <2>6 DEF StatusOf
  <1>3. ASSUME NEW o \in todo, \/ ClassifyTracked(o) \/ ClassifySettled(o)
                               \/ ClassifyManual(o) \/ ClassifyNew(o)
        PROVE  cls'.links = {}
    BY <1>3, Classified DEF Lasting
  <1>4. CASE cls' = cls /\ ~Fetch
    <2>1. phase' = "classify" => phase = "classify"
      BY <1>4, ClassifyIsQuiet
    <2> SUFFICES ASSUME NEW t \in cls.links, StatusOf(LegKey(t))' = "DELETED"
                 PROVE  FALSE
      BY <1>4, <2>1 DEF Lasting
    <2>2. PICK k : k = LegKey(t)
      OBVIOUS
    <2>3. k \in Key /\ k[1] = SecondaryOf(t) /\ k[1] \notin Pendable
      BY <2>2, LegKeys
    <2>4. StatusOf(k)' = "DELETED" /\ StatusOf(k) # "DELETED"
      BY <2>2 DEF Lasting, LegKey
    <2>5. tracked'[k] # tracked[k]
      BY <2>4 DEF StatusOf
    <2>6. ASSUME NEW w \in reply.dup, BackfillDuplicate(w), w.key = k PROVE FALSE
      <3>1. w \in cls.creates
        BY <2>6, RepliesSourced DEF BackfillDuplicate, Replies
      <3> QED BY <2>3, <2>6, <3>1 DEF Lasting
    <2>7. ASSUME NEW u \in cls.updates, u.old = k PROVE FALSE
      BY <2>3, <2>7 DEF Sourced, Reported
    <2> QED BY <2>3, <2>4, <2>5, <2>6, <2>7, DeletedBy
  <1> QED BY <1>1, <1>2, <1>3, <1>4, CycleMoves

(* What is found deleted was made under the key's own import_id, unless a  *)
(* placeholder was.                                                        *)
LEMMA DeletedLast ==
  ASSUME TypeInv, RealInv, Sourced, Follows, Lasting, [Next]_vars, NEW k \in Key,
         k[1] \notin Pendable, StatusOf(k)' = "DELETED"
  PROVE  Made(Import(k))'
  <1> USE DEF TypeInv
  <1>0. Import(k) \in Id
    BY IdType
  <1>1. CASE tracked'[k] = tracked[k]
    <2>1. StatusOf(k) = "DELETED"
      BY <1>1 DEF StatusOf
    <2> QED BY <1>0, <2>1, RemoteMoves DEF Lasting
  <1>2. ASSUME NEW w \in reply.dup, BackfillDuplicate(w), w.key = k PROVE Made(Import(k))'
    <2>1. w \in Replies /\ phase = "record"
      BY <1>2 DEF Replies, BackfillDuplicate
    <2>2. w.iid = Import(k) /\ Made(w.iid)
      BY <1>2, <2>1, RepliesSourced DEF RealInv, CarriedIsReal
    <2> QED BY <1>0, <2>2, RemoteMoves
  <1>3. ASSUME NEW u \in cls.updates, u.old = k PROVE FALSE
    BY <1>3 DEF Sourced, Reported
  <1> QED BY <1>1, <1>2, <1>3, DeletedBy

(* An answer still to be recorded finds no row that says otherwise.        *)
LEMMA RepliesLast ==
  ASSUME TypeInv, RealInv, Sourced, Follows, OneKey, OneEach, Lasting, [Next]_vars,
         NEW w \in reply'.new, phase' \in {"record", "match"},
         w.key[1] \notin Pendable \ Solo
  PROVE  StatusOf(w.key)' \in {"untracked", w.status}
  <1> USE DEF TypeInv
  <1> DEFINE Fits == tracked'[w.key] = NoRow \/ tracked'[w.key].status = w.status
  <1>1. CASE phase' = phase /\ reply'.new \subseteq reply.new
    <2>1. w \in reply.new /\ w \in Replies /\ w.key \in Key /\ w \in Works
      BY <1>1, RepliesSourced DEF Replies, Works
    <2>2. StatusOf(w.key) \in {"untracked", w.status}
      BY <1>1, <2>1 DEF Lasting
    <2>3. ~(BookUpdate \/ \E u \in fixes : RecoverAsDeleted(u))
      BY <1>1 DEF BookUpdate, RecoverAsDeleted, NextUpdate, Shape
    <2>4. ~(RecordLeg /\ cur.key[1] \in cls.links /\ w.key[1] = SecondaryOf(cur.key[1]))
      <3>1. RecordLeg => phase = "record"
        BY DEF RecordLeg, Shape
      <3> QED BY <2>1, <3>1, RepliesSourced DEF Lasting
    <2>5. ASSUME NEW v \in reply.new, v.key = w.key PROVE v.status = w.status
      <3>1. v \in Works
        BY <1>1, RepliesSourced DEF Replies, Works
      <3> QED BY <2>1, <2>5, <3>1 DEF OneEach
    <2>6. ASSUME NEW v \in reply.dup PROVE ~BackfillDuplicate(v) /\ ~MatchedAgain(v)
      BY <2>1 DEF BackfillDuplicate, MatchedAgain
    <2>7. tracked'[w.key] \in {tracked[w.key], NoRow} => Fits
      <3>1. tracked[w.key] # NoRow => tracked[w.key].status \in Status
        BY <2>1, RowType DEF TypeOK
      <3> QED BY <2>2, <3>1 DEF StatusOf, Status
    <2>8. ASSUME NEW v \in reply.new, RecordCreated(v), v.key = w.key,
                 tracked'[w.key] = [status |-> v.status, id |-> CreatedId(v)]
          PROVE  Fits
      BY <2>5, <2>8
    <2>9. ASSUME NEW v \in reply.new, RecordMatched(v), v.key = w.key,
                 tracked'[w.key] = [status |-> v.status, id |-> MatchedId(v)]
          PROVE  Fits
      BY <2>5, <2>9
    <2> HIDE DEF Fits
    <2>10. Fits
      BY <2>1, <2>3, <2>4, <2>6, <2>7, <2>8, <2>9, RowMoves
    <2> QED BY <2>10 DEF StatusOf, Fits
  <1>2. CASE PostCreates \/ PostMatches
    <2>1. PICK W \in SUBSET Work : W \in {cls.creates, cls.matches} /\ w \in W
                                   /\ ynab[w.iid] = "none"
      <3>1. CASE PostCreates
        BY <3>1, PostEffect DEF PostCreates, TypeOK, Cycle
      <3>2. CASE PostMatches
        BY <3>2, PostEffect DEF PostMatches, UpdatesDone, TypeOK, Cycle
      <3> QED BY <1>2, <3>1, <3>2
    <2>2. tracked' = tracked
      BY <1>2 DEF PostCreates, PostMatches
    <2>3. w.key \in Key /\ w.iid = Import(w.key) /\ ~Made(Import(w.key))
      BY <2>1, WorkType DEF Follows, Made
    <2>4. CASE w.key[1] \in Solo
      <3>1. tracked[w.key] = NoRow
        BY <2>3, <2>4 DEF OneKey, RowOf, SoloKey
      <3> QED BY <2>2, <3>1 DEF StatusOf
    <2>5. CASE w.key[1] \notin Pendable
      <3>1. w.status = "BOOKED"
        BY <2>1, <2>5, WorkType DEF Sourced, Reported, Seen
      <3>2. StatusOf(w.key) \in {"untracked", "BOOKED"}
        <4>1. StatusOf(w.key) # "DELETED"
          BY <2>3, <2>5 DEF Lasting
        <4>2. StatusOf(w.key) # "PENDING"
          BY <2>3, <2>5 DEF Sourced, Reported, StatusOf
        <4>3. StatusOf(w.key) \in Status \cup {"untracked"}
          BY <2>3, RowType DEF StatusOf, TypeOK
        <4> QED BY <4>1, <4>2, <4>3 DEF Status
      <3> QED BY <2>2, <3>1, <3>2 DEF StatusOf
    <2> QED BY <2>4, <2>5
  <1> QED BY <1>1, <1>2, HandMoves

(* What a row says lasts.                                                  *)
LEMMA LastingStep ==
  ASSUME TypeInv, RealInv, Sourced, Follows, OneKey, OneEach, Lasting, [Next]_vars
  PROVE  Lasting'
  <1>1. \A k \in Key : k[1] \notin Pendable /\ StatusOf(k)' = "DELETED" => Made(Import(k))'
    BY DeletedLast
  <1>2. phase' \in {"record", "match"} =>
          \A w \in reply'.new : w.key[1] \notin Pendable \ Solo =>
            StatusOf(w.key)' \in {"untracked", w.status}
    BY RepliesLast
  <1> QED BY <1>1, <1>2, LegsLast DEF Lasting

-----------------------------------------------------------------------------
(* Where the user deletes nothing.                                         *)

(* Only the end of a manual match deletes, and it deletes the entry of the *)
(* transaction that was matched.                                           *)
LEMMA OnlyMatchesDelete ==
  ASSUME TypeInv, LedgerInv, [Next]_vars, "user_delete" \notin Faults,
         NEW k \in SoloKey, k[1] \in Apart, NEW y \in Id, OwnerOf(y) = k[1],
         ynab[y] # "deleted", ynab'[y] = "deleted"
  PROVE  sub = "delete" /\ y = cur.orig /\ cur.key = k /\ y \in Unimported
  <1> USE DEF TypeInv
  <1>1. CASE UNCHANGED <<ynab, match>>
    BY <1>1
  <1>2. CASE \E z \in ManualId : UserTypes(z)
    BY <1>2 DEF UserTypes, TypeOK
  <1>3. CASE \E z \in Id : UserDeletes(z)
    BY <1>3 DEF UserDeletes, May
  <1>4. ASSUME NEW W \in SUBSET Work, Post(W), phase = "create" => W = cls.creates
        PROVE  FALSE
    BY <1>4, PostEffect DEF LedgerInv
  <1>5. CASE PostCreates
    BY <1>4, <1>5 DEF PostCreates, TypeOK, Cycle
  <1>6. CASE PostReplacement
    <2>1. {cur} \in SUBSET Work /\ Post({cur}) /\ phase # "create"
      BY <1>6 DEF PostReplacement, Shape
    <2> QED BY <1>4, <2>1
  <1>7. CASE PostMatches
    BY <1>4, <1>7 DEF PostMatches, UpdatesDone, TypeOK, Cycle
  <1>8. CASE DeleteOriginal
    <2>1. /\ sub = "delete" /\ Delete(cur.orig) /\ cur \in Work /\ cur.orig \in Unimported
          /\ Akin(cur.key[1], OwnerOf(cur.orig))
      BY <1>8 DEF DeleteOriginal, Shape, LedgerInv, Owned
    <2>2. ASSUME NEW p \in Pairs
          PROVE  y # Leg(p[2]) /\ y # Import(<<p[1], "BOOKED">>)
      <3>1. p[2] \in Secondary /\ p[1] \in Primary /\ p[1] \in Tx /\ p[2] \in Tx /\ p[1] \notin Card
        BY EngineAssumption DEF Secondary, Primary
      <3>2. <<p[1], "BOOKED">> \in Key
        BY <3>1, KeyType DEF KeyOf, Obs, Seen
      <3>3. OwnerOf(Leg(p[2])) = p[2] /\ OwnerOf(Import(<<p[1], "BOOKED">>)) = p[1]
        BY <3>1, <3>2, Owners
      <3> QED BY <3>1, <3>3, SoloFacts
    <2>3. y = cur.orig
      BY <2>1, <2>2 DEF Delete
    <2>4. cur.key \in Key /\ cur.key[1] = k[1]
      BY <2>1, <2>3, WorkType DEF Akin
    <2> QED BY <2>1, <2>3, <2>4, SoloFacts
  <1> QED BY <1>1, <1>2, <1>3, <1>5, <1>6, <1>7, <1>8, RemoteChanges

(* A correction finds the entry that its row tracks, and finds it live.    *)
LEMMA CorrectionsLive ==
  ASSUME LedgerInv, NEW k \in SoloKey, UndisturbedKey(k),
         NEW u \in cls.updates, k \in {u.old, u.new}
  PROVE  u.old = k /\ u.new = k /\ u.id = tracked[k].id /\ ynab[u.id] = "live"
  <1>1. CorrectionOf(k, u)
    BY DEF LedgerInv, OneKey
  <1>2. u.id \notin Remade(k)
    BY DEF UndisturbedKey
  <1> QED BY <1>1, <1>2 DEF CorrectionOf, UndisturbedKey

(* So that none is replaced.                                               *)
LEMMA NotReplaced ==
  ASSUME LedgerInv, NEW k \in SoloKey, UndisturbedKey(k), NEW w, w.key = k
  PROVE  ~Replaces(w)
  BY CorrectionsLive DEF Replaces

(* What is recorded of such a transaction comes from the cycle itself.     *)
LEMMA OwnReplies ==
  ASSUME TypeInv, LedgerInv, NEW k \in SoloKey, UndisturbedKey(k),
         NEW w \in Replies, w.key = k
  PROVE  /\ phase \in {"record", "match"} /\ w \in Works /\ w.iid = Import(k)
         /\ phase = "record" => w \in cls.creates
         /\ phase = "match" => w \in cls.matches
         /\ ynab[Import(k)] = "live"
  <1> USE DEF TypeInv
  <1>0. ~Replaces(w)
    BY NotReplaced
  <1>1. /\ \/ phase = "record" /\ w \in cls.creates
           \/ phase = "match" /\ w \in cls.matches
        /\ w.iid = Import(k)
    BY <1>0, RepliesSourced DEF LedgerInv
  <1>2. Made(Import(k)) /\ ynab[Import(k)] # "deleted" /\ Import(k) \in Id
    BY <1>1, IdType, SoloFacts DEF LedgerInv, RealInv, CarriedIsReal, UndisturbedKey
  <1> QED BY <1>1, <1>2 DEF Made, TypeOK, Works

(* What stands for a key goes on standing for it.                          *)
LEMMA StandsOn ==
  ASSUME TypeInv, RealInv, [Next]_vars, NEW k \in Key, Stands(k)
  PROVE  Stands(k)'
  <1>1. Import(k) \in Id
    BY IdType
  <1> QED BY <1>1, RemoteMoves DEF Stands, Made

(* The engine's own entry is not deleted, so none replaces it; and where it*)
(* does not stand, no other entry is deleted either.                       *)
LEMMA EntriesUndisturbed ==
  ASSUME TypeInv, LedgerInv, [Next]_vars, "user_delete" \notin Faults,
         NEW k \in SoloKey, k[1] \in Apart, UndisturbedKey(k)
  PROVE  /\ ynab'[Import(k)] # "deleted" /\ Remade(k)' = {}
         /\ \/ Stands(k)'
            \/ \A y \in Unimported : OwnerOf(y) = k[1] => ynab'[y] # "deleted"
  <1> USE DEF TypeInv
  <1>0. /\ k \in Key /\ Import(k) \in Id \ Unimported /\ Unimported \subseteq Id
        /\ OwnerOf(Import(k)) = k[1]
    BY SoloFacts, IdType, Owners
  <1>1. ynab'[Import(k)] # "deleted"
    BY <1>0, OnlyMatchesDelete DEF UndisturbedKey
  <1>2. Remade(k)' = {}
    <2>1. ASSUME NEW u \in cls.updates, CorrectionOf(k, u), ynab[u.id] = "deleted"
          PROVE  FALSE
      BY <2>1, CorrectionsLive DEF CorrectionOf
    <2> QED BY <2>1, RemadeMoves DEF LedgerInv, UndisturbedKey
  <1>3. CASE Stands(k)
    BY <1>0, <1>1, <1>2, <1>3, StandsOn DEF LedgerInv
  <1>4. CASE ~Stands(k)
    <2> SUFFICES ASSUME NEW y \in Unimported, OwnerOf(y) = k[1], ynab'[y] = "deleted"
                 PROVE  FALSE
      BY <1>1, <1>2
    <2>1. ynab[y] # "deleted"
      BY <1>4 DEF UndisturbedKey
    <2>2. sub = "delete" /\ cur.key = k
      BY <1>0, <2>1, OnlyMatchesDelete
    <2> QED BY <1>4, <2>2 DEF UndisturbedKey
  <1> QED BY <1>3, <1>4

(* An entry of the user's that is hidden behind, or matched by hand, is    *)
(* live where the engine's own does not stand.                             *)
LEMMA TakenOverLive ==
  ASSUME TypeInv, LedgerInv, NEW k \in SoloKey, k[1] \in Apart, UndisturbedKey(k),
         NEW y \in Unimported, Made(y), Akin(k[1], OwnerOf(y)), ~Stands(k)
  PROVE  ynab[y] = "live"
  <1>1. OwnerOf(y) = k[1] /\ y \in Id
    BY IdType DEF Akin
  <1> QED BY <1>1 DEF UndisturbedKey, Made, TypeInv, TypeOK

(* What a step writes to such a row: the engine's own entry, or the one    *)
(* taken over.                                                             *)
LEMMA WrittenLive ==
  ASSUME TypeInv, LedgerInv, [Next]_vars,
         NEW k \in SoloKey, k[1] \in Apart, UndisturbedKey(k), tracked'[k] # NoRow
  PROVE  \/ tracked[k] # NoRow /\ tracked'[k].id = tracked[k].id
         \/ /\ UNCHANGED ynab /\ ynab[tracked'[k].id] = "live"
            /\ \A w \in cls.matches : w.key = k => tracked'[k].id \in {w.iid, w.orig}
  <1> USE DEF TypeInv
  <1> DEFINE Same == tracked[k] # NoRow /\ tracked'[k].id = tracked[k].id
             Written(y) == /\ UNCHANGED ynab /\ ynab[y] = "live"
                           /\ \A w \in cls.matches : w.key = k => y \in {w.iid, w.orig}
             Goal == Same \/ Written(tracked'[k].id)
  <1>0. k \in Key /\ Import(k) \in Id /\ OwnerOf(Import(k)) = k[1]
    BY SoloFacts, IdType, Owners
  <1>a. \A v \in cls.creates, w \in cls.matches : ~(v.key = k /\ w.key = k)
    <2> SUFFICES ASSUME NEW v \in cls.creates, NEW w \in cls.matches, v.key = w.key
                 PROVE  FALSE
      OBVIOUS
    <2>1. v = w /\ v.orig = NoId
      BY DEF LedgerInv, OneEach, Works
    <2>2. w.orig \in Unimported
      BY DEF Shape
    <2> QED BY <2>1, <2>2, IdType, EngineAssumption
  <1>b. \A v, w \in cls.matches : v.key = k /\ w.key = k => v = w
    BY DEF LedgerInv, OneEach, Works
  <1>1. CASE tracked'[k] = tracked[k]
    BY <1>1
  <1>2. CASE /\ BookUpdate /\ cur \in cls.updates /\ k = cur.new /\ tracked[cur.old] # NoRow
             /\ tracked'[k] = [status |-> "BOOKED", id |-> tracked[cur.old].id]
    <2>1. cur.old = k
      BY <1>2, CorrectionsLive
    <2> QED BY <1>2, <2>1
  <1>3. ASSUME NEW w \in reply.new, RecordCreated(w), w.key = k,
               tracked'[k] = [status |-> w.status, id |-> CreatedId(w)]
        PROVE  Goal
    <2>1. /\ phase = "record" /\ w \in cls.creates /\ w.iid = Import(k)
          /\ ynab[Import(k)] = "live" /\ UNCHANGED ynab
      BY <1>3, OwnReplies DEF RecordCreated, Replies, remote
    <2>2. ynab[CreatedId(w)] = "live"
      <3>1. CASE CreatedId(w) = w.iid
        BY <2>1, <3>1
      <3>2. CASE Hidden(w.iid) /\ CreatedId(w) = match[w.iid]
        <4>1. /\ match[w.iid] \in ManualId /\ Made(match[w.iid])
              /\ Akin(k[1], match[w.iid].tx)
          BY <1>0, <2>1, <3>2 DEF LedgerInv, Owned, RealInv, ShadowsLive, TypeOK, Hidden
        <4>2. PICK y : y = match[w.iid]
          OBVIOUS
        <4>3. y \in Unimported /\ Akin(k[1], OwnerOf(y)) /\ Made(y) /\ ~Stands(k)
          BY <2>1, <3>2, <4>1, <4>2, IdType, Owners DEF Stands
        <4> QED BY <3>2, <4>2, <4>3, TakenOverLive
      <3> QED BY <3>1, <3>2 DEF CreatedId
    <2>3. \A v \in cls.matches : v.key # k
      BY <1>3, <1>a, <2>1
    <2> QED BY <1>3, <2>1, <2>2, <2>3
  <1>4. ASSUME NEW w \in reply.new, RecordMatched(w), w.key = k,
               tracked'[k] = [status |-> w.status, id |-> MatchedId(w)]
        PROVE  Goal
    <2>1. /\ phase = "match" /\ w \in cls.matches /\ w.iid = Import(k) /\ w \in Replies
          /\ ynab[Import(k)] = "live" /\ UNCHANGED ynab
      BY <1>4, OwnReplies DEF RecordMatched, Replies, remote
    <2>2. ynab[MatchedId(w)] = "live"
      <3>1. CASE ~Hidden(w.iid)
        BY <2>1, <3>1 DEF MatchedId
      <3>2. CASE Hidden(w.iid)
        <4>1. /\ w.orig \in Unimported /\ Made(w.orig) /\ Akin(k[1], OwnerOf(w.orig))
              /\ ~Stands(k)
          BY <1>4, <2>1, <3>2 DEF Shape, LedgerInv, Owned, RealInv, CarriedIsReal, Stands
        <4> QED BY <3>2, <4>1, TakenOverLive DEF MatchedId
      <3> QED BY <3>1, <3>2
    <2>3. \A v \in cls.matches : v.key = k => MatchedId(w) \in {v.iid, v.orig}
      BY <1>4, <1>b, <2>1 DEF MatchedId
    <2> QED BY <1>4, <2>1, <2>2, <2>3
  <1>5. ASSUME NEW w \in reply.dup, w.key = k, BackfillDuplicate(w) \/ MatchedAgain(w),
               tracked'[k].id = w.iid
        PROVE  Goal
    <2>1. /\ w.iid = Import(k) /\ ynab[Import(k)] = "live" /\ UNCHANGED ynab
          /\ w \in Works
      BY <1>5, OwnReplies DEF BackfillDuplicate, MatchedAgain, Replies, remote
    <2>2. \A v \in cls.matches : v.key = k => v = w
      BY <1>5, <2>1 DEF LedgerInv, OneEach, Works
    <2> QED BY <1>5, <2>1, <2>2
  <1>6. ASSUME NEW w \in reply.dup, BackfillDuplicate(w), w.key = k, tracked[k] = NoRow,
               ~Unfindable(w), tracked'[k] = [status |-> DuplicateStatus(w), id |-> w.iid]
        PROVE  Goal
    BY <1>5, <1>6
  <1>7. ASSUME NEW w \in reply.dup, MatchedAgain(w), w.key = k, tracked[k] = NoRow,
               Findable(w), tracked'[k] = [status |-> w.status, id |-> w.iid]
        PROVE  Goal
    BY <1>5, <1>7
  <1>8. ASSUME NEW u \in fixes, RecoverAsDeleted(u), u \in cls.updates, u.old = k
        PROVE  FALSE
    BY <1>8, CorrectionsLive DEF RecoverAsDeleted
  <1>9. ~(RecordLeg /\ cur.key[1] \in cls.links /\ k[1] = SecondaryOf(cur.key[1]))
    BY LinkedLeg, SoloFacts DEF LedgerInv
  <1> HIDE DEF Goal
  <1>10. tracked'[k] = tracked[k] => Goal
    BY DEF Goal
  <1>11. BookUpdate /\ cur \in cls.updates /\ k = cur.new /\ tracked[cur.old] # NoRow
           /\ tracked'[k] = [status |-> "BOOKED", id |-> tracked[cur.old].id] => Goal
    BY <1>2 DEF Goal
  <1>12. Follows
    BY DEF LedgerInv
  <1>13. Goal
    BY <1>0, <1>3, <1>4, <1>6, <1>7, <1>8, <1>9, <1>10, <1>11, <1>12, RowMoves
  <1> QED BY <1>13 DEF Goal

(* What such a row tracks stays live.                                      *)
LEMMA RowStaysLive ==
  ASSUME TypeInv, LedgerInv, [Next]_vars, "user_delete" \notin Faults,
         NEW k \in SoloKey, k[1] \in Apart, UndisturbedKey(k), tracked'[k] # NoRow
  PROVE  ynab'[tracked'[k].id] = "live"
  <1> USE DEF TypeInv
  <1>1. CASE tracked[k] # NoRow /\ tracked'[k].id = tracked[k].id
    <2>1. PICK y : y = tracked[k].id
      OBVIOUS
    <2>2. y \in Id /\ ynab[y] = "live" /\ OwnerOf(y) = k[1]
      BY <1>1, <2>1, SoloFacts, RowType
         DEF TypeOK, UndisturbedKey, LedgerInv, Owned, Akin
    <2>3. ynab'[y] # "none"
      BY <2>2, RemoteMoves DEF LedgerInv, Made
    <2>4. ynab'[y] # "deleted"
      <3> SUFFICES ASSUME ynab'[y] = "deleted" PROVE FALSE
        OBVIOUS
      <3>1. sub = "delete" /\ y = cur.orig /\ cur.key = k
        BY <2>2, OnlyMatchesDelete
      <3> QED BY <2>1, <3>1 DEF LedgerInv, Owned
    <2>5. ynab' \in [Id -> {"none", "live", "deleted"}]
      BY TypeNext DEF TypeOK
    <2> QED BY <1>1, <2>1, <2>2, <2>3, <2>4, <2>5
  <1>2. CASE UNCHANGED ynab /\ ynab[tracked'[k].id] = "live"
    BY <1>2
  <1> QED BY <1>1, <1>2, WrittenLive

(* A match is completed only while an entry of the engine's stands.        *)
LEMMA CompletedStanding ==
  ASSUME TypeInv, LedgerInv, [Next]_vars,
         NEW k \in SoloKey, k[1] \in Apart, UndisturbedKey(k),
         sub' = "delete", cur'.key = k
  PROVE  Stands(k)'
  <1> USE DEF TypeInv
  <1>0. k \in Key /\ RealInv
    BY SoloFacts DEF LedgerInv
  <1> SUFFICES Stands(k)
    BY <1>0, StandsOn
  <1>1. CASE sub = "delete" /\ cur' = cur
    BY <1>1 DEF UndisturbedKey
  <1>2. ASSUME NEW w \in reply.new, RecordMatched(w) PROVE Stands(k)
    <2>1. cur' = w /\ ~Hidden(w.iid)
      BY <1>2 DEF RecordMatched, Ending
    <2>2. w.iid = Import(k) /\ ynab[Import(k)] = "live"
      BY <2>1, OwnReplies DEF Replies
    <2> QED BY <2>1, <2>2 DEF Stands, Made
  <1>3. ASSUME NEW w \in reply.dup, MatchedAgain(w) PROVE Stands(k)
    <2>1. /\ cur' = w /\ phase \in {"match", "rematch"}
          /\ \/ Findable(w)
             \/ tracked[w.key] # NoRow /\ ~EndedNatively(w)
      BY <1>3 DEF MatchedAgain
    <2>2. /\ w.key = k /\ w.iid = Import(k) /\ ynab[Import(k)] = "live"
          /\ w \in cls.matches
      BY <2>1, OwnReplies DEF Replies
    <2>3. CASE Findable(w)
      BY <2>2, <2>3 DEF Findable, Visible, Stands, Made
    <2>4. CASE tracked[k] # NoRow /\ tracked[k].id # w.orig
      <3>1. tracked[k].id = Import(k)
        BY <2>2, <2>4 DEF UndisturbedKey
      <3> QED BY <1>0, <2>2, <2>4, <3>1 DEF RealInv, TrackedIsReal, Stands, Made
    <2> QED BY <2>1, <2>2, <2>3, <2>4 DEF EndedNatively
  <1> QED BY <1>1, <1>2, <1>3, HandMoves

(* A row that a match finds tracks one side of it.                         *)
LEMMA MatchesOwnRow ==
  ASSUME TypeInv, LedgerInv, [Next]_vars,
         NEW k \in SoloKey, k[1] \in Apart, UndisturbedKey(k),
         NEW w \in cls'.matches, w.key = k, tracked'[k] # NoRow
  PROVE  tracked'[k].id \in {w.iid, w.orig}
  <1> USE DEF TypeInv
  <1>1. CASE cls' = EmptyCycle \/ Fetch
    BY <1>1 DEF EmptyCycle, Fetch
  <1>2. CASE MatchTransfers
    <2>1. phase = "classify" /\ cls'.matches = cls.matches /\ UNCHANGED tracked
      BY <1>2, Linking
    <2>2. tracked[w.key] = NoRow
      BY <2>1 DEF LedgerInv, OneEach, Works
    <2> QED BY <2>1, <2>2
  <1>3. ASSUME NEW o \in todo, \/ ClassifyTracked(o) \/ ClassifySettled(o)
                               \/ ClassifyManual(o) \/ ClassifyNew(o)
        PROVE  FALSE
    <2>1. phase' = "classify"
      BY <1>3, Classified
    <2>2. OneEach'
      BY OneEachStep DEF LedgerInv
    <2> QED BY <2>1, <2>2 DEF OneEach, Works
  <1>4. CASE cls' = cls
    BY <1>4, WrittenLive DEF UndisturbedKey
  <1> QED BY <1>1, <1>2, <1>3, <1>4, CycleMoves

(* Where the user deletes nothing, no step disturbs what is tracked of a   *)
(* transaction that resembles no other.                                    *)
LEMMA UndisturbedStep ==
  ASSUME TypeInv, LedgerInv, [Next]_vars
  PROVE  Undisturbed'
  <1> SUFFICES ASSUME "user_delete" \notin Faults, NEW k \in SoloKey, k[1] \in Apart'
               PROVE  UndisturbedKey(k)'
    BY DEF Undisturbed
  <1>1. k[1] \in Apart
    BY ReportsStay
  <1>2. UndisturbedKey(k)
    BY <1>1 DEF LedgerInv, Undisturbed
  <1>3. /\ ynab'[Import(k)] # "deleted" /\ Remade(k)' = {}
        /\ \/ Stands(k)'
           \/ \A y \in Unimported : OwnerOf(y) = k[1] => ynab'[y] # "deleted"
    BY <1>1, <1>2, EntriesUndisturbed
  <1>4. tracked'[k] # NoRow => ynab'[tracked'[k].id] = "live"
    BY <1>1, <1>2, RowStaysLive
  <1>5. sub' = "delete" /\ cur'.key = k => Stands(k)'
    BY <1>1, <1>2, CompletedStanding
  <1>6. \A w \in cls'.matches :
          w.key = k /\ tracked'[k] # NoRow => tracked'[k].id \in {w.iid, w.orig}
    BY <1>1, <1>2, MatchesOwnRow
  <1> QED BY <1>3, <1>4, <1>5, <1>6 DEF UndisturbedKey

-----------------------------------------------------------------------------
(* The ledger, and the promises that rest on it.                           *)

(* Nothing made, tracked or under way: nothing owed.                       *)
LEMMA LedgerInit == Init => LedgerInv
  <1> SUFFICES ASSUME Init PROVE LedgerInv
    OBVIOUS
  <1>1. /\ cls = EmptyCycle /\ todo = {} /\ fixes = {} /\ Replies = {}
        /\ phase = "idle" /\ sub = "none"
        /\ \A k \in Key : tracked[k] = NoRow
        /\ \A y \in Id : ~Made(y) /\ ~Hidden(y)
        /\ \A t \in Tx : bank[t] # "PENDING"
    BY DEF Init, Replies, NoReply, Made, Hidden
  <1>2. Sourced
    BY <1>1, IdType DEF Sourced, EmptyCycle, Id, FirstId
  <1>3. Follows
    BY <1>1 DEF Follows, EmptyCycle
  <1>4. Owned
    BY <1>1 DEF Owned, EmptyCycle
  <1>5. OneKey
    <2>1. \A k \in SoloKey : Remade(k) = {}
      BY <1>1, SoloFacts, IdType DEF Remade
    <2>2. reply.new = {} /\ cls.updates = {}
      BY <1>1 DEF Replies, EmptyCycle
    <2>3. \A k \in Key : StatusOf(k) # "DELETED"
      BY <1>1 DEF StatusOf
    <2> QED BY <1>1, <2>1, <2>2, <2>3, SoloFacts DEF OneKey
  <1>6. Accounted
    BY <1>1 DEF Accounted, EmptyCycle
  <1>7. OneEach /\ Lasting
    <2>1. cls.links = {} /\ Works = {} /\ cls.seen = {} /\ cls.creates = {}
      BY <1>1 DEF EmptyCycle, Works
    <2> QED BY <1>1, <2>1 DEF OneEach, Lasting, StatusOf
  <1>8. Undisturbed
    <2> SUFFICES ASSUME NEW k \in SoloKey PROVE UndisturbedKey(k)
      BY DEF Undisturbed
    <2>1. /\ k \in Key /\ Import(k) \in Id /\ Unimported \subseteq Id
          /\ \A y \in FirstId : Reeval(k, y) \in Id
      BY SoloFacts, IdType
    <2>2. Remade(k) = {} /\ cls.matches = {}
      BY <1>1, <2>1 DEF Remade, EmptyCycle
    <2>3. \A y \in Id : ynab[y] # "deleted"
      BY <1>1 DEF Made
    <2> QED BY <1>1, <2>1, <2>2, <2>3 DEF UndisturbedKey
  <1> QED BY <1>2, <1>3, <1>4, <1>5, <1>6, <1>7, <1>8, RealInit DEF LedgerInv

(* Through every retry, crash, lost reply, lost database, deletion and     *)
(* native match: what the engine holds was reported, follows from its      *)
(* cycle, is not confused with another transaction's, comes to at most one *)
(* entry per key, lasts, and accounts for all that was classified, once.   *)
THEOREM LedgerHolds == Spec => []LedgerInv
  <1>1. TypeInv /\ LedgerInv /\ [Next]_vars => LedgerInv'
    <2> SUFFICES ASSUME TypeInv, LedgerInv, [Next]_vars PROVE LedgerInv'
      OBVIOUS
    <2>1. /\ RealInv /\ Sourced /\ Follows /\ Owned /\ OneKey /\ Accounted
          /\ OneEach /\ Lasting
      BY DEF LedgerInv
    <2>2. RealInv'
      BY <2>1, RemoteReal, TrackedReal, CarriedReal DEF RealInv
    <2>3. Sourced' /\ Follows' /\ Owned' /\ OneKey' /\ Accounted'
      BY <2>1, SourcedStep, FollowsStep, OwnedStep, OneKeyStep, AccountedStep
    <2>4. OneEach' /\ Lasting' /\ Undisturbed'
      BY <2>1, OneEachStep, LastingStep, UndisturbedStep
    <2> QED BY <2>2, <2>3, <2>4 DEF LedgerInv
  <1> QED BY TypeInit, TypeNext, LedgerInit, <1>1, PTL DEF Spec

(* What stands in the register under the key of a Solo transaction, made   *)
(* for it or taken over.                                                   *)
Shown(k) ==
  {y \in Id : Visible(y) /\
     \/ y = Import(k) \/ y \in {Reeval(k, z) : z \in Remade(k)}
     \/ y \in ManualId /\ tracked[k] # NoRow /\ tracked[k].id = y}

(* Of the entry made first, its replacement and the one taken over, only   *)
(* one is ever visible.                                                    *)
LEMMA OneShown ==
  ASSUME LedgerInv, NEW k \in SoloKey, NEW x \in Shown(k), NEW y \in Shown(k)
  PROVE  x = y
  <1>0. /\ k \in Key /\ Import(k) \in ImportId /\ ManualId \subseteq Unimported
        /\ Import(k) \notin Unimported
        /\ \A z \in Remade(k) : Reeval(k, z) \notin Unimported
    BY SoloFacts, IdType DEF Remade
  <1> DEFINE Taken(u) == u \in ManualId /\ tracked[k] # NoRow /\ tracked[k].id = u
             Again(u) == u \in {Reeval(k, z) : z \in Remade(k)}
  <1>1. \A u : Again(u) => ~Visible(Import(k))
    BY DEF LedgerInv, OneKey
  <1>2. \A u : Taken(u) => ~Visible(Import(k))
    <2> SUFFICES ASSUME NEW u, Taken(u) PROVE ~Visible(Import(k))
      OBVIOUS
    <2>1. RowOf(k) /\ u = tracked[k].id /\ u \in Unimported
      BY <1>0 DEF LedgerInv, OneKey
    <2>2. u # Import(k) /\ ~(u \in {Reeval(k, z) : z \in Remade(k)})
      BY <1>0, <2>1
    <2> QED BY <2>1, <2>2 DEF RowOf
  <1>3. \A u, v : Again(u) /\ Taken(v) /\ Visible(u) /\ Visible(v) => FALSE
    <2> SUFFICES ASSUME NEW z \in Remade(k), NEW v, Taken(v), Visible(Reeval(k, z)), Visible(v)
                 PROVE FALSE
      OBVIOUS
    <2>1. RowOf(k) /\ v = tracked[k].id /\ v \in Unimported
      BY <1>0 DEF LedgerInv, OneKey
    <2> QED BY <2>1 DEF RowOf, Visible
  <1>4. \A u, v : Again(u) /\ Again(v) => u = v
    BY DEF LedgerInv, OneKey
  <1>5. \A u, v : Taken(u) /\ Taken(v) => u = v
    OBVIOUS
  <1>6. /\ Visible(x) /\ (x = Import(k) \/ Again(x) \/ Taken(x))
        /\ Visible(y) /\ (y = Import(k) \/ Again(y) \/ Taken(y))
    BY DEF Shown
  <1> HIDE DEF Again, Taken
  <1> QED BY <1>1, <1>2, <1>3, <1>4, <1>5, <1>6

(* Everything booked for a Solo transaction is shown under its key.        *)
LEMMA BookedShown ==
  ASSUME TypeOK, LedgerInv, NEW t \in Solo \cap Apart, NEW y \in Booked(t)
  PROVE  \E k \in SoloKey : k[1] = t /\ y \in Shown(k)
  <1>0. t \in Tx /\ t \notin Card /\ t \notin Secondary
    BY DEF Solo
  <1>1. PICK k \in SoloKey : k[1] = t
    <2>1. <<t, "BOOKED">> \in Obs /\ KeyOf(<<t, "BOOKED">>) \in Key
          /\ KeyOf(<<t, "BOOKED">>)[1] = t
      BY <1>0, KeyType DEF Obs, Seen, KeyOf
    <2> QED BY <2>1 DEF SoloKey
  <1>2. y \in Id /\ Visible(y) /\ Made(y) /\ OwnerOf(y) = t
    BY DEF Booked, Visible, Made
  <1>3. CASE y \in ImportId
    <2>1. y.key \in Key /\ y = Import(y.key) /\ y.key[1] = t
      BY <1>2, <1>3, IdType, Owners DEF ImportId, Import
    <2>2. y.key = k
      BY <1>1, <2>1, SoloFacts
    <2> QED BY <1>1, <1>2, <2>1, <2>2 DEF Shown
  <1>4. CASE y \in ReevalId
    <2>1. PICK j \in Key, z \in FirstId : y = Reeval(j, z)
      BY <1>4 DEF ReevalId, Reeval
    <2>2. j = k
      BY <1>1, <1>2, <2>1, Owners, SoloFacts
    <2>3. z \in Remade(k)
      BY <1>2, <2>1, <2>2 DEF Remade
    <2> QED BY <1>1, <1>2, <2>1, <2>2, <2>3 DEF Shown
  <1>5. CASE y \in ManualId
    <2>1. PICK j \in Key : tracked[j] # NoRow /\ tracked[j].id = y
      BY <1>5 DEF Booked
    <2>2. j = k
      BY <1>1, <1>2, <2>1, SoloFacts DEF LedgerInv, Owned, Akin
    <2> QED BY <1>1, <1>2, <1>5, <2>1, <2>2 DEF Shown
  <1>6. y \notin LegId
    BY <1>0, <1>2, Owners, IdType DEF LedgerInv, Sourced
  <1> QED BY <1>2, <1>3, <1>4, <1>5, <1>6 DEF Id, FirstId

(* What is booked, tracked or deleted is of the cast, and in a distinct    *)
(* cast nobody resembles another.                                          *)
LEMMA CastFacts ==
  ASSUME TypeOK, LedgerInv
  PROVE  /\ \A k \in Key : tracked[k] # NoRow => k[1] \in Cast
         /\ \A t \in Tx : Booked(t) # {} => t \in Cast
         /\ Distinct => Apart = Cast
  <1>1. ASSUME NEW k \in Key, tracked[k] # NoRow PROVE k[1] \in Cast
    BY <1>1, Owners DEF LedgerInv, Sourced, Reported, Cast, Seen
  <1>2. ASSUME NEW t \in Tx, NEW y \in Booked(t) PROVE t \in Cast
    BY <1>2 DEF Booked, Visible, Made, LedgerInv, Sourced
  <1>3. Distinct => Apart = Cast
    BY DEF Distinct, Apart
  <1> QED BY <1>1, <1>2, <1>3

(* A Solo transaction that resembles no other is booked once, whatever else*)
(* is in the cast.                                                         *)
LEMMA SoloBookedOnce ==
  ASSUME TypeOK, LedgerInv, NEW t \in Solo \cap Apart
  PROVE  ~Several(Booked(t))
  <1> SUFFICES ASSUME NEW x \in Booked(t), NEW y \in Booked(t) PROVE x = y
    BY DEF Several
  <1>1. PICK j \in SoloKey : j[1] = t /\ x \in Shown(j)
    BY BookedShown
  <1>2. PICK k \in SoloKey : k[1] = t /\ y \in Shown(k)
    BY BookedShown
  <1>3. j = k
    BY <1>1, <1>2, SoloFacts
  <1> QED BY <1>1, <1>2, <1>3, OneShown

(* No Solo transaction that resembles no other is booked twice, under any  *)
(* fault and whatever the others of the cast resemble.                     *)
THEOREM SoloIsBookedOnce ==
  Spec => [](\A t \in Solo \cap Apart : ~Several(Booked(t)))
  <1>1. TypeOK /\ LedgerInv => \A t \in Solo \cap Apart : ~Several(Booked(t))
    BY SoloBookedOnce
  <1> QED BY TypeCorrect, LedgerHolds, <1>1, PTL

(* Where all are Solo, no transaction is booked twice.                     *)
THEOREM NeverBookedTwice ==
  ASSUME Solo = Tx
  PROVE  Spec => []NoDoubleBooking
  <1>1. TypeOK /\ LedgerInv => NoDoubleBooking
    <2> SUFFICES ASSUME TypeOK, LedgerInv, Distinct, NEW t \in Tx, Several(Booked(t))
                 PROVE  FALSE
      BY DEF NoDoubleBooking
    <2>1. t \in Apart
      BY CastFacts DEF Several
    <2> QED BY <2>1, SoloBookedOnce
  <1> QED BY TypeCorrect, LedgerHolds, <1>1, PTL

(* Where all are Solo, alike or not, the entries shown are those of        *)
(* different reported transactions, hence no more than these.              *)
LEMMA ShownOncePerReport ==
  ASSUME TypeOK, LedgerInv, Solo = Tx, IsFiniteSet(Tx)
  PROVE  NoSurplus
  <1> DEFINE All == UNION {Booked(t) : t \in Tx}
             Bank == {t \in Tx : bank[t] \in Seen}
  <1>1. ASSUME NEW y \in All PROVE \E k \in SoloKey : y \in Shown(k) /\ k[1] \in Bank
    <2>1. PICK t \in Tx : y \in Booked(t)
      OBVIOUS
    <2>2. y \in Id /\ Visible(y) /\ Made(y)
      BY <2>1 DEF Booked, Visible, Made
    <2>3. \A k \in Key : k \in SoloKey
      BY Owners DEF SoloKey
    <2>4. CASE y \in ImportId
      <3>1. y.key \in Key /\ y = Import(y.key) /\ OwnerOf(y) = y.key[1]
        BY <2>4, IdType, Owners DEF ImportId, Import
      <3>2. y.key[1] \in Bank
        BY <2>2, <2>4, <3>1, Owners DEF LedgerInv, Sourced
      <3> QED BY <2>2, <2>3, <3>1, <3>2 DEF Shown
    <2>5. CASE y \in ReevalId
      <3>1. PICK j \in Key, z \in FirstId : y = Reeval(j, z)
        BY <2>5 DEF ReevalId, Reeval
      <3>2. OwnerOf(y) = j[1] /\ j[1] \in Bank
        BY <2>2, <2>5, <3>1, Owners DEF LedgerInv, Sourced
      <3>3. z \in Remade(j)
        BY <2>2, <3>1 DEF Remade
      <3> QED BY <2>2, <2>3, <3>1, <3>2, <3>3 DEF Shown
    <2>6. CASE y \in ManualId
      <3>1. PICK j \in Key : tracked[j] # NoRow /\ tracked[j].id = y
        BY <2>1, <2>6 DEF Booked
      <3>2. j[1] \in Bank
        BY <3>1, Owners DEF LedgerInv, Sourced, Reported
      <3> QED BY <2>2, <2>3, <2>6, <3>1, <3>2 DEF Shown
    <2>7. y \notin LegId
      BY <2>2, Owners DEF LedgerInv, Sourced, Solo, LegId
    <2> QED BY <2>2, <2>4, <2>5, <2>6, <2>7 DEF Id, FirstId
  <1> DEFINE KeyFor(y) == CHOOSE k \in SoloKey : y \in Shown(k) /\ k[1] \in Bank
             f == [y \in All |-> KeyFor(y)[1]]
  <1>2. \A y \in All : KeyFor(y) \in SoloKey /\ y \in Shown(KeyFor(y)) /\ KeyFor(y)[1] \in Bank
    BY <1>1
  <1> HIDE DEF KeyFor, All, Bank
  <1>3. \A x, y \in All : f[x] = f[y] => x = y
    <2> SUFFICES ASSUME NEW x \in All, NEW y \in All, KeyFor(x)[1] = KeyFor(y)[1] PROVE x = y
      OBVIOUS
    <2>1. KeyFor(x) = KeyFor(y)
      BY <1>2, SoloFacts
    <2> QED BY <1>2, <2>1, OneShown
  <1>4. f \in [All -> Bank]
    BY <1>2
  <1> HIDE DEF f
  <1>5. f \in Injection(All, Bank)
    BY <1>3, <1>4, Fun_IsInj
  <1>6. IsFiniteSet(Bank)
    BY FS_Subset DEF Bank
  <1>7. Cardinality(All) <= Cardinality(Bank)
    BY <1>5, <1>6, FS_Injection
  <1> QED BY <1>7 DEF NoSurplus, All, Bank

(* Where all are Solo, the register never shows more than the bank has.    *)
THEOREM RegisterNeverExceedsBank ==
  ASSUME Solo = Tx, IsFiniteSet(Tx)
  PROVE  Spec => []NoSurplus
  <1>1. TypeOK /\ LedgerInv => NoSurplus
    BY ShownOncePerReport
  <1> QED BY TypeCorrect, LedgerHolds, <1>1, PTL

(* What a deletion resolved is out of the register, and stays out.         *)
LEMMA SoloDeletedGone ==
  ASSUME TypeOK, LedgerInv, NEW k \in SoloKey, k[1] \in Apart \ Stable,
         StatusOf(k) = "DELETED"
  PROVE  Booked(k[1]) = {}
  <1>0. /\ k \in Key /\ k[1] \in Solo /\ Import(k) \notin Unimported
        /\ ManualId \subseteq Unimported
    BY SoloFacts, IdType DEF SoloKey
  <1>1. tracked[k] # NoRow /\ tracked[k].id = Import(k) /\ ynab[Import(k)] = "deleted"
    BY <1>0 DEF LedgerInv, OneKey, RowOf, StatusOf
  <1>2. Remade(k) = {}
    BY DEF LedgerInv, OneKey
  <1> SUFFICES ASSUME NEW y \in Booked(k[1]) PROVE FALSE
    OBVIOUS
  <1>3. PICK j \in SoloKey : j[1] = k[1] /\ y \in Shown(j)
    BY <1>0, BookedShown
  <1>4. j = k
    BY <1>0, <1>3, SoloFacts
  <1> QED BY <1>0, <1>1, <1>2, <1>3, <1>4 DEF Shown, Visible

(* A Solo transaction never seen PENDING, which resembles no other and was *)
(* resolved as deleted, has nothing in the register, under any fault.      *)
THEOREM SoloDeletedIsGone ==
  Spec => [](\A k \in SoloKey :
               k[1] \in Apart \ Stable /\ StatusOf(k) = "DELETED" => Booked(k[1]) = {})
  <1>1. TypeOK /\ LedgerInv =>
          \A k \in SoloKey :
            k[1] \in Apart \ Stable /\ StatusOf(k) = "DELETED" => Booked(k[1]) = {}
    BY SoloDeletedGone
  <1> QED BY TypeCorrect, LedgerHolds, <1>1, PTL

(* Where all are Solo and none is preauthorised, deleted means gone.       *)
THEOREM DeletedIsGone ==
  ASSUME Solo = Tx, Stable = {}
  PROVE  Spec => []DeletedMeansGone
  <1>1. TypeOK /\ LedgerInv => DeletedMeansGone
    <2> SUFFICES ASSUME TypeOK, LedgerInv, Distinct, NEW k \in Key,
                        StatusOf(k) = "DELETED"
                 PROVE  Booked(k[1]) = {}
      BY DEF DeletedMeansGone
    <2>1. k \in SoloKey /\ k[1] \in Apart
      BY CastFacts, Owners DEF SoloKey, StatusOf
    <2> QED BY <2>1, SoloDeletedGone
  <1> QED BY TypeCorrect, LedgerHolds, <1>1, PTL

(* Every correction of a Solo transaction finds its row, under the key it  *)
(* is to keep: no step of submit() stumbles over it.                       *)
LEMMA NoErrorStep ==
  ASSUME TypeInv, LedgerInv, Pendable \subseteq Solo, [Next]_vars, NoLogicError
  PROVE  NoLogicError'
  <1> USE DEF TypeInv
  <1>1. ASSUME NEW u \in cls.updates
        PROVE  u.old \in Key /\ u.old = u.new /\ tracked[u.old] # NoRow
    <2>1. u.old \in Key
      BY DEF TypeOK, Cycle, Update
    <2>2. u.old \in SoloKey
      BY <2>1 DEF LedgerInv, Sourced, Reported, SoloKey
    <2> QED BY <2>1, <2>2 DEF LedgerInv, OneKey, CorrectionOf
  <1>2. CASE BookUpdate
    <2>1. cur \in cls.updates
      BY <1>2 DEF BookUpdate, LedgerInv, Follows
    <2> QED BY <1>1, <1>2, <2>1 DEF BookUpdate, NoLogicError
  <1>3. ASSUME NEW u \in fixes, RecoverWithoutRow(u) PROVE FALSE
    <2>1. u \in cls.updates
      BY DEF LedgerInv, Follows
    <2> QED BY <1>1, <1>3, <2>1 DEF RecoverWithoutRow
  <1>4. ~BookUpdate /\ (\A u \in fixes : ~RecoverWithoutRow(u)) => (bug' = bug \/ bug' = FALSE)
    <2>1. CASE Environment
      BY <2>1 DEF Environment, Appear, Settle, UserTypes, UserDeletes
    <2>2. CASE Fetch \/ Classify \/ MatchTransfers
      BY <2>2 DEF Fetch, Classify, ListAgain, MatchTransfers, ClassifyTracked, ClassifySettled,
         ClassifyManual, ClassifyNew, Classifying
    <2>3. CASE Creates
      BY <2>3 DEF Creates, PostCreates, RecordLeg, LegMissing, FixLeg, Unclear, StartUpdates,
         RecordCreated, BackfillDuplicate
    <2>4. CASE Updates
      BY <2>4 DEF Updates, PostReplacement, ReplacementDone, PatchUpdate,
         RecoverAsDeleted, RecoverAsReplaced
    <2>5. CASE Matches
      BY <2>5 DEF Matches, PostMatches, DeleteOriginal, Finish, RecordMatched, MatchedAgain
    <2>6. CASE Retry \/ Drop \/ Failures
      BY <2>6 DEF Retry, Drop, Failures, SubmitFails, FetchFails, Crash
    <2>7. CASE UNCHANGED vars
      BY <2>7 DEF vars
    <2> QED BY <2>1, <2>2, <2>3, <2>4, <2>5, <2>6, <2>7 DEF Next
  <1> QED BY <1>2, <1>3, <1>4 DEF NoLogicError

(* submit() raises no error of its own as long as a booking changes no key *)
(* and no placeholder is mistaken for another transaction, legs of         *)
(* transfers and lookalikes included: its lookups by old_internal_id and   *)
(* its updates of a row that must exist do not fail.                       *)
THEOREM SubmitRaisesNothing ==
  ASSUME Pendable \subseteq Solo
  PROVE  Spec => []NoLogicError
  <1>1. TypeInv /\ LedgerInv /\ [Next]_vars /\ NoLogicError => NoLogicError'
    BY NoErrorStep
  <1>2. Init => NoLogicError
    BY DEF Init, NoLogicError
  <1> QED BY LedgerHolds, TypeInit, TypeNext, <1>1, <1>2, PTL DEF Spec

(* The delete that ends a match takes no entry that a Solo row tracks: not *)
(* the original, which is not the one its own row came to track, and no    *)
(* leg of a transfer.                                                      *)
LEMMA SoloRowKept ==
  ASSUME TypeInv, LedgerInv, DeleteOriginal, NEW k \in SoloKey, k[1] \in Apart,
         tracked[k] # NoRow
  PROVE  ynab'[tracked[k].id] = ynab[tracked[k].id]
  <1> USE DEF TypeInv
  <1>0. k \in Key /\ tracked[k].id \in Id
    BY SoloFacts, RowType DEF TypeOK
  <1>1. CASE UNCHANGED ynab
    BY <1>1
  <1>2. CASE Delete(cur.orig)
    <2>1. PICK y : y = tracked[k].id /\ y \in Id
      BY <1>0
    <2>2. OwnerOf(y) = k[1]
      BY <1>0, <2>1 DEF LedgerInv, Owned, Akin
    <2>3. y # cur.orig
      <3>1. sub = "delete" /\ cur \in Work
        BY DEF DeleteOriginal, Shape
      <3>2. Akin(cur.key[1], OwnerOf(cur.orig)) /\ tracked[cur.key].id # cur.orig
        BY <3>1 DEF LedgerInv, Owned
      <3>3. y = cur.orig => cur.key = k
        BY <2>2, <3>1, <3>2, SoloFacts, WorkType DEF Akin
      <3> QED BY <2>1, <3>2, <3>3
    <2>4. ASSUME NEW p \in Pairs
          PROVE  y # Leg(p[2]) /\ y # Import(<<p[1], "BOOKED">>)
      <3>1. OwnerOf(Leg(p[2])) = p[2] /\ p[2] \in Secondary /\ p[1] \in Primary
        BY Owners, EngineAssumption DEF Secondary, Primary
      <3>2. OwnerOf(Import(<<p[1], "BOOKED">>)) = p[1]
        <4>1. p[1] \in Tx /\ p[1] \notin Card
          BY EngineAssumption
        <4>2. KeyOf(<<p[1], "BOOKED">>) = <<p[1], "BOOKED">>
          BY <4>1 DEF KeyOf
        <4>3. <<p[1], "BOOKED">> \in Key
          BY <4>1, <4>2, KeyType DEF Obs, Seen
        <4> QED BY <4>3, Owners
      <3> QED BY <2>2, <3>1, <3>2, SoloFacts
    <2>5. ynab'[y] = ynab[y]
      BY <1>2, <2>1, <2>3, <2>4 DEF Delete
    <2> QED BY <2>1, <2>5
  <1> QED BY <1>1, <1>2 DEF DeleteOriginal

(* In any cast, the row of a Solo transaction that resembles no other does *)
(* not lose its entry to the delete that ends a match.                     *)
THEOREM SoloRowsKeepTheirEntry ==
  Spec => [][DeleteOriginal =>
               \A k \in SoloKey : k[1] \in Apart /\ tracked[k] # NoRow =>
                 ynab'[tracked[k].id] = ynab[tracked[k].id]]_vars
  <1>1. TypeInv /\ LedgerInv /\ [Next]_vars =>
          [DeleteOriginal =>
             \A k \in SoloKey : k[1] \in Apart /\ tracked[k] # NoRow =>
               ynab'[tracked[k].id] = ynab[tracked[k].id]]_vars
    BY SoloRowKept
  <1> QED BY LedgerHolds, TypeInit, TypeNext, <1>1, PTL DEF Spec

(* Where all are Solo, no entry that a row tracks is deleted by a match.   *)
THEOREM TrackedIsKept ==
  ASSUME Solo = Tx
  PROVE  Spec => KeepsTracked
  <1>1. TypeInv /\ LedgerInv /\ [Next]_vars =>
          [DeleteOriginal /\ Distinct =>
             \A k \in Key : tracked[k] # NoRow =>
               ynab'[tracked[k].id] = ynab[tracked[k].id]]_vars
    <2> SUFFICES ASSUME TypeInv, LedgerInv, DeleteOriginal, Distinct,
                        NEW k \in Key, tracked[k] # NoRow
                 PROVE  ynab'[tracked[k].id] = ynab[tracked[k].id]
      OBVIOUS
    <2>1. k \in SoloKey /\ k[1] \in Apart
      BY CastFacts, Owners DEF SoloKey, TypeInv
    <2> QED BY <2>1, SoloRowKept
  <1> QED BY LedgerHolds, TypeInit, TypeNext, <1>1, PTL DEF Spec, KeepsTracked

(* Nothing is to come when a cycle reports success.                        *)
LEMMA FinishedAccounts ==
  ASSUME TypeInv, LedgerInv, Finish, NEW o \in cls.seen, o[1] \in Solo
  PROVE  tracked[KeyOf(o)] # NoRow \/ LeftAlone(o)
  <1>1. \/ phase = "update" /\ cls.matches = {}
        \/ phase = "match" /\ Replies = {}
    BY DEF Finish, UpdatesDone, Replies, NoReply
  <1>2. todo = {} /\ ToCome = {}
    BY <1>1 DEF ToCome, LedgerInv, Follows
  <1> QED BY <1>2 DEF LedgerInv, Accounted

(* In any cast and under any fault, a cycle that succeeds has tracked or   *)
(* knowingly left alone each Solo transaction it was told of.              *)
THEOREM SuccessAccountsForSolo ==
  Spec => [][Finish => \A o \in cls.seen : o[1] \in Solo =>
               tracked[KeyOf(o)] # NoRow \/ LeftAlone(o)]_vars
  <1>1. TypeInv /\ LedgerInv /\ [Next]_vars =>
          [Finish => \A o \in cls.seen : o[1] \in Solo =>
             tracked[KeyOf(o)] # NoRow \/ LeftAlone(o)]_vars
    BY FinishedAccounts
  <1> QED BY LedgerHolds, TypeInit, TypeNext, <1>1, PTL DEF Spec

(* Where all are Solo, a cycle that succeeds has tracked all it was told   *)
(* of, or knowingly left it alone.                                         *)
THEOREM SuccessLeavesNothing ==
  ASSUME Solo = Tx
  PROVE  Spec => SuccessSettlesAll
  <1>1. TypeInv /\ LedgerInv /\ [Next]_vars =>
          [Finish /\ Distinct => \A o \in cls.seen :
             o[1] \notin Card /\ tracked[KeyOf(o)] = NoRow =>
               LeftAlone(o) \/ LegMissed(o[1])]_vars
    <2> SUFFICES ASSUME TypeInv, LedgerInv, Finish, NEW o \in cls.seen
                 PROVE  tracked[KeyOf(o)] = NoRow => LeftAlone(o)
      OBVIOUS
    <2>1. o[1] \in Solo
      BY Owners DEF TypeInv, TypeOK, Cycle
    <2> QED BY <2>1, FinishedAccounts
  <1> QED BY LedgerHolds, TypeInit, TypeNext, <1>1, PTL DEF Spec, SuccessSettlesAll

-----------------------------------------------------------------------------
(* Where the user deletes nothing: retries, and the promise of Booking.    *)

(* A retry deletes the original of a match only when what its row tracks   *)
(* is in the register.                                                     *)
LEMMA RetriedSafely ==
  ASSUME TypeInv, LedgerInv, "user_delete" \notin Faults,
         NEW w \in reply.dup, w.key \in SoloKey, w.key[1] \in Apart,
         MatchedAgain(w), sub' = "delete"
  PROVE  Visible(tracked'[w.key].id)
  <1> USE DEF TypeInv
  <1>1. PICK k \in SoloKey : k = w.key /\ k \in Key /\ UndisturbedKey(k)
    BY SoloFacts DEF LedgerInv, Undisturbed
  <1>2. /\ phase \in {"match", "rematch"}
        /\ \/ /\ Findable(w) /\ tracked[k] = NoRow
              /\ tracked' = [tracked EXCEPT ![k] = [status |-> w.status, id |-> w.iid]]
           \/ tracked' = tracked /\ tracked[k] # NoRow /\ tracked[k].id # w.orig
    BY <1>1, FoundOurs DEF MatchedAgain, EndedNatively
  <1>3. w \in cls.matches /\ w.iid = Import(k) /\ ynab[Import(k)] = "live"
    BY <1>1, <1>2, OwnReplies DEF Replies
  <1>4. CASE Findable(w) /\ tracked' = [tracked EXCEPT ![k] = [status |-> w.status, id |-> w.iid]]
    <2>1. tracked'[k].id = w.iid
      BY <1>1, <1>4 DEF TypeOK
    <2> QED BY <1>1, <1>4, <2>1 DEF Findable
  <1>5. CASE tracked' = tracked /\ tracked[k] # NoRow /\ tracked[k].id # w.orig
    <2>1. tracked[k].id = Import(k)
      BY <1>1, <1>3, <1>5 DEF UndisturbedKey
    <2>2. ~Hidden(Import(k))
      BY <1>1, <1>5, <2>1 DEF LedgerInv, RealInv, TrackedIsReal
    <2> QED BY <1>1, <1>3, <1>5, <2>1, <2>2 DEF Visible
  <1> QED BY <1>2, <1>4, <1>5

(* In any cast, where the user deletes nothing, what a retry deletes for a *)
(* Solo transaction that resembles no other has its replacement in the     *)
(* register.                                                               *)
THEOREM SoloRetriesDeleteSafely ==
  ASSUME "user_delete" \notin Faults
  PROVE  Spec => [][\A w \in reply.dup :
                      w.key \in SoloKey /\ w.key[1] \in Apart /\ MatchedAgain(w)
                      /\ sub' = "delete" => Visible(tracked'[w.key].id)]_vars
  <1>1. TypeInv /\ LedgerInv /\ [Next]_vars =>
          [\A w \in reply.dup :
             w.key \in SoloKey /\ w.key[1] \in Apart /\ MatchedAgain(w)
             /\ sub' = "delete" => Visible(tracked'[w.key].id)]_vars
    BY RetriedSafely
  <1> QED BY LedgerHolds, TypeInit, TypeNext, <1>1, PTL DEF Spec

(* Where all are Solo, none resembles another and the user deletes nothing,*)
(* every delete of a retry is safe.                                        *)
THEOREM RetriesDeleteSafely ==
  ASSUME Solo = Tx, \A t, u \in Tx : LooksLike(t, u) => t = u,
         "user_delete" \notin Faults
  PROVE  Spec => RetryDeletesSafely
  <1>1. TypeInv /\ LedgerInv /\ [Next]_vars =>
          [\A w \in reply.dup : MatchedAgain(w) /\ sub' = "delete" =>
             Visible(tracked'[w.key].id)]_vars
    <2> SUFFICES ASSUME TypeInv, LedgerInv, NEW w \in reply.dup, MatchedAgain(w),
                        sub' = "delete"
                 PROVE  Visible(tracked'[w.key].id)
      OBVIOUS
    <2>1. w.key \in Key /\ Reported(w.key[1], w.status) /\ w.key[1] \in Tx
      BY RepliesSourced, Owners DEF LedgerInv, Replies
    <2>2. w.key \in SoloKey /\ w.key[1] \in Cast
      BY <2>1 DEF SoloKey, Reported, Cast, Seen
    <2>3. w.key[1] \in Apart
      BY <2>2 DEF Apart, Cast
    <2> QED BY <2>2, <2>3, RetriedSafely
  <1> QED BY LedgerHolds, TypeInit, TypeNext, <1>1, PTL DEF Spec, RetryDeletesSafely

(* The corrections of a cycle keep their keys, and find rows in force.     *)
LEMMA LiveCorrections ==
  ASSUME TypeInv, LedgerInv, Pendable \subseteq Solo,
         Stable = {} \/ "user_delete" \notin Faults, NEW u \in cls.updates
  PROVE  /\ u.old \in Key /\ u.new = u.old /\ tracked[u.old] # NoRow
         /\ StatusOf(u.old) # "DELETED" /\ ynab[u.id] = "live"
         /\ bank[u.old[1]] = "BOOKED"
  <1> USE DEF TypeInv
  <1>1. PICK k \in Key : k = u.old
    BY DEF TypeOK, Cycle, Update
  <1>2. Reported(k[1], "PENDING") /\ Reported(u.new[1], "BOOKED")
    BY <1>1 DEF LedgerInv, Sourced
  <1>3. k \in SoloKey
    BY <1>1, <1>2 DEF Reported, SoloKey
  <1>4. k[1] \in Stable /\ k[1] \in Tx /\ k[1] \in Cast
    BY <1>2, <1>3, SoloFacts DEF Reported, Cast, Seen
  <1>5. k[1] \in Apart
    BY <1>3, <1>4, SoloFacts DEF Apart, Cast
  <1>6. UndisturbedKey(k)
    BY <1>3, <1>4, <1>5 DEF LedgerInv, Undisturbed
  <1>7. u.new = k /\ u.id = tracked[k].id /\ ynab[u.id] = "live"
    BY <1>1, <1>3, <1>6, CorrectionsLive
  <1>8. tracked[k] # NoRow
    BY <1>1, <1>3 DEF LedgerInv, OneKey, CorrectionOf
  <1>9. StatusOf(k) # "DELETED"
    BY <1>7 DEF LedgerInv, OneKey
  <1> QED BY <1>1, <1>2, <1>7, <1>8, <1>9 DEF Reported

(* A step writes one row at most.                                          *)
LEMMA OneRow ==
  ASSUME TypeInv, LedgerInv, Pendable \subseteq Solo,
         Stable = {} \/ "user_delete" \notin Faults, "db_loss" \notin Faults,
         [Next]_vars
  PROVE  \/ UNCHANGED tracked
         \/ UNCHANGED bank /\ \E k \in Key : /\ tracked'[k] # NoRow
                                             /\ \A j \in Key \ {k} : tracked'[j] = tracked[j]
  <1> USE DEF TypeInv
  <1> DEFINE Row1 == \E k \in Key : /\ tracked'[k] # NoRow
                                    /\ \A j \in Key \ {k} : tracked'[j] = tracked[j]
  <1>0. ASSUME NEW k \in Key, NEW r, r # NoRow, tracked' = [tracked EXCEPT ![k] = r]
        PROVE  Row1
    BY <1>0 DEF TypeOK
  <1>a. \A st \in Status, y \in Id : [status |-> st, id |-> y] # NoRow
    BY EngineAssumption DEF Status
  <1> HIDE DEF Row1
  <1>1. CASE RecordLeg
    <2>1. PICK t \in cls.links : t = cur.key[1] /\ bank' = bank
      BY <1>1 DEF RecordLeg, Shape, ItsPrimary, remote
    <2>2. /\ LegKey(t) \in Key /\ Leg(SecondaryOf(t)) \in Id
          /\ tracked' = [tracked EXCEPT ![LegKey(t)] =
                           [status |-> "BOOKED", id |-> Leg(SecondaryOf(t))]]
      BY <1>1, <2>1, LinkedLeg, LegKeys, IdType DEF RecordLeg, Track, LedgerInv, LegKey
    <2>3. [status |-> "BOOKED", id |-> Leg(SecondaryOf(t))] # NoRow
      BY <1>a, <2>2 DEF Status
    <2> QED BY <1>0, <2>1, <2>2, <2>3 DEF Row1
  <1>2. CASE BookUpdate
    <2>1. cur \in cls.updates /\ bank' = bank
      BY <1>2 DEF BookUpdate, LedgerInv, Follows, remote
    <2>2. cur.old \in Key /\ cur.new = cur.old
      BY <2>1, LiveCorrections
    <2>3. CASE tracked' = Moved(cur)
      <3>1. tracked' = [tracked EXCEPT ![cur.old] = [status |-> "BOOKED", id |-> tracked[cur.old].id]]
        BY <2>2, <2>3 DEF Moved, TypeOK
      <3>2. tracked[cur.old].id \in Id
        BY <2>1, <2>2, LiveCorrections, RowType DEF TypeOK
      <3>3. [status |-> "BOOKED", id |-> tracked[cur.old].id] # NoRow
        BY <1>a, <3>2 DEF Status
      <3> QED BY <1>0, <2>1, <2>2, <3>1, <3>3 DEF Row1
    <2> QED BY <1>2, <2>3 DEF BookUpdate
  <1>3. CASE Crash
    BY <1>3 DEF Crash, May
  <1>4. ASSUME NEW w \in reply.new, RecordCreated(w) \/ RecordMatched(w)
        PROVE  bank' = bank /\ Row1
    <2>1. w \in Work /\ w.key \in Key /\ w.status \in Status /\ w.iid \in Id
      BY RepliesSourced, WorkType DEF LedgerInv, Replies, Seen, Status
    <2>2. CreatedId(w) \in Id
      BY <2>1, IdType DEF CreatedId, Hidden, TypeOK
    <2>3. phase \in {"match", "rematch"} => MatchedId(w) \in Id
      BY <2>1, IdType DEF MatchedId, Shape, Replies
    <2>4. bank' = bank /\ \E y \in Id : Track(w.key, w.status, y)
      BY <1>4, <2>2, <2>3 DEF RecordCreated, RecordMatched, remote
    <2>5. PICK y \in Id : tracked' = [tracked EXCEPT ![w.key] = [status |-> w.status, id |-> y]]
      BY <2>4 DEF Track
    <2> QED BY <1>0, <1>a, <2>1, <2>4, <2>5
  <1>5. ASSUME NEW w \in reply.dup, BackfillDuplicate(w) \/ MatchedAgain(w)
        PROVE  tracked' = tracked \/ (bank' = bank /\ Row1)
    <2>1. w \in Work /\ w.key \in Key /\ w.status \in Status /\ w.iid \in Id
      BY RepliesSourced, WorkType DEF LedgerInv, Replies, Seen, Status
    <2>2. DuplicateStatus(w) \in Status
      BY <2>1 DEF DuplicateStatus, Status
    <2>3. /\ bank' = bank
          /\ \/ tracked' = tracked
             \/ \E st \in Status :
                  tracked' = [tracked EXCEPT ![w.key] = [status |-> st, id |-> w.iid]]
      BY <1>5, <2>1, <2>2, FoundOurs DEF BackfillDuplicate, MatchedAgain, remote
    <2>4. ASSUME NEW st \in Status,
                 tracked' = [tracked EXCEPT ![w.key] = [status |-> st, id |-> w.iid]]
          PROVE  Row1
      BY <1>0, <1>a, <2>1, <2>4
    <2> QED BY <2>3, <2>4
  <1>6. ASSUME NEW u \in fixes, RecoverAsDeleted(u) PROVE FALSE
    BY <1>6, LiveCorrections DEF RecoverAsDeleted, LedgerInv, Follows
  <1> QED BY <1>1, <1>2, <1>3, <1>4, <1>5, <1>6, TableChanges DEF Row1

(* What a row says is final, but for a placeholder that books.             *)
LEMMA RowsAreFinal ==
  ASSUME TypeInv, LedgerInv, Pendable \subseteq Solo,
         Stable = {} \/ "user_delete" \notin Faults, [Next]_vars,
         NEW k \in Key, tracked[k] # NoRow, tracked'[k] # NoRow
  PROVE  StatusOf(k)' = StatusOf(k) \/ (StatusOf(k) = "PENDING" /\ StatusOf(k)' = "BOOKED")
  <1> USE DEF TypeInv
  <1> DEFINE Final == \/ tracked'[k].status = tracked[k].status
                      \/ tracked[k].status = "PENDING" /\ tracked'[k].status = "BOOKED"
  <1>0. tracked[k].status \in {"PENDING", "BOOKED", "DELETED"} /\ StatusOf(k) = tracked[k].status
    BY RowType DEF TypeOK, Status, StatusOf
  <1>1. tracked'[k] = tracked[k] => Final
    OBVIOUS
  <1>2. ASSUME RecordLeg, cur.key[1] \in cls.links, k[1] = SecondaryOf(cur.key[1]),
               tracked'[k] = [status |-> "BOOKED", id |-> Leg(SecondaryOf(cur.key[1]))]
        PROVE  Final
    <2>1. PICK t \in cls.links : t = cur.key[1]
      BY <1>2
    <2>2. k = LegKey(t) /\ k[1] \notin Pendable
      BY <1>2, <2>1, LegKeys DEF LedgerInv
    <2>3. StatusOf(k) # "DELETED"
      BY <2>2 DEF LedgerInv, Lasting
    <2>4. StatusOf(k) # "PENDING"
      BY <2>2 DEF LedgerInv, Sourced, Reported
    <2> QED BY <1>0, <1>2, <2>3, <2>4
  <1>3. ASSUME BookUpdate, cur \in cls.updates, k = cur.new, tracked[cur.old] # NoRow,
               tracked'[k] = [status |-> "BOOKED", id |-> tracked[cur.old].id]
        PROVE  Final
    BY <1>0, <1>3, LiveCorrections
  <1>4. ASSUME NEW w \in Replies, Replaces(w) PROVE FALSE
    BY <1>4, LiveCorrections DEF Replaces
  <1>5. ASSUME NEW w \in reply.new, w.key = k, tracked'[k].status = w.status,
               phase \in {"record", "match"}
        PROVE  Final
    <2>1. w.key[1] \notin Pendable \ Solo
      OBVIOUS
    <2>2. StatusOf(w.key) \in {"untracked", w.status}
      BY <1>5, <2>1 DEF LedgerInv, Lasting
    <2> QED BY <1>0, <1>5, <2>2
  <1>6. ASSUME NEW w \in reply.new, RecordCreated(w), w.key = k,
               tracked'[k] = [status |-> w.status, id |-> CreatedId(w)]
        PROVE  Final
    <2>1. phase = "record" /\ tracked'[k].status = w.status
      BY <1>6 DEF RecordCreated
    <2> QED BY <1>5, <1>6, <2>1
  <1>7. ASSUME NEW w \in reply.new, RecordMatched(w), w.key = k,
               tracked'[k] = [status |-> w.status, id |-> MatchedId(w)]
        PROVE  Final
    <2>1. phase = "match"
      BY <1>4, <1>7, RepliesSourced DEF RecordMatched, Replies, LedgerInv
    <2>2. tracked'[k].status = w.status
      BY <1>7
    <2> QED BY <1>5, <1>7, <2>1, <2>2
  <1>8. ASSUME NEW u \in fixes, RecoverAsDeleted(u), u \in cls.updates PROVE FALSE
    BY <1>8, LiveCorrections DEF RecoverAsDeleted
  <1> HIDE DEF Final
  <1>9. Follows
    BY DEF LedgerInv
  <1>10. Final
    BY <1>1, <1>2, <1>3, <1>6, <1>7, <1>8, <1>9, RowMoves
  <1> QED BY <1>0, <1>10 DEF Final, StatusOf

(* What a row's status says of the promise.                                *)
Says(st) == IF st = "BOOKED" THEN "settled"
            ELSE IF st = "DELETED" THEN "dismissed"
            ELSE IF st = "PENDING" THEN "held" ELSE "open"

(* Without cards, what is promised of a transaction is what its one row    *)
(* says.                                                                   *)
LEMMA OneRowEach ==
  ASSUME Pendable \subseteq Solo, NEW t \in Tx
  PROVE  /\ <<t, "BOOKED">> \in Key
         /\ {j \in Key : j[1] = t} = {<<t, "BOOKED">>}
         /\ BookingState(t) = Says(StatusOf(<<t, "BOOKED">>))
         /\ BookingState(t)' = Says(StatusOf(<<t, "BOOKED">>)')
  <1>1. t \notin Card
    BY DEF Pendable, Solo
  <1>2. <<t, "BOOKED">> \in Key
    BY <1>1, KeyType DEF KeyOf, Obs, Seen
  <1>3. ASSUME NEW j \in Key, j[1] = t PROVE j = <<t, "BOOKED">>
    <2>1. PICK o \in Obs : j = KeyOf(o)
      BY DEF Key
    <2>2. o[1] = t
      BY <1>3, <2>1, Owners
    <2> QED BY <1>1, <2>1, <2>2 DEF KeyOf
  <1>4. {j \in Key : j[1] = t} = {<<t, "BOOKED">>}
    BY <1>2, <1>3
  <1>5. \A k \in {j \in Key : j[1] = t} : k = <<t, "BOOKED">>
    BY <1>4
  <1>6. {StatusOf(k) : k \in {j \in Key : j[1] = t}} = {StatusOf(<<t, "BOOKED">>)}
    BY <1>4
  <1>7. {StatusOf(k)' : k \in {j \in Key : j[1] = t}} = {StatusOf(<<t, "BOOKED">>)'}
    BY <1>4
  <1>8. BookingState(t) = Says(StatusOf(<<t, "BOOKED">>))
    BY <1>6 DEF BookingState, Says
  <1>9. BookingState(t)' = Says(StatusOf(<<t, "BOOKED">>)')
    BY <1>7 DEF BookingState, Says
  <1> QED BY <1>2, <1>4, <1>8, <1>9

(* Every step reports one transaction, or writes one row, as the promise   *)
(* allows.                                                                 *)
LEMMA BookingStep ==
  ASSUME TypeInv, LedgerInv, Pendable \subseteq Solo,
         Stable = {} \/ "user_delete" \notin Faults, "db_loss" \notin Faults,
         [Next]_vars
  PROVE  [Promise!Next]_<<[t \in Tx |-> BankState(t)], [t \in Tx |-> BookingState(t)]>>
  <1> USE DEF TypeInv
  <1> DEFINE B == [t \in Tx |-> BankState(t)]
             S == [t \in Tx |-> BookingState(t)]
  <1>1. CASE UNCHANGED tracked
    <2>1. S' = S
      <3>1. \A t \in Tx : BookingState(t)' = BookingState(t)
        BY <1>1 DEF BookingState, StatusOf
      <3> QED BY <3>1
    <2>2. CASE UNCHANGED bank
      <3>1. B' = B
        BY <2>2 DEF BankState
      <3> QED BY <2>1, <3>1
    <2>3. ASSUME NEW t \in Tx, Appear(t) \/ Settle(t)
          PROVE  Promise!Next
      <3>1. PICK st \in Seen :
              /\ bank' = [bank EXCEPT ![t] = st]
              /\ bank[t] = "none" \/ (bank[t] = "PENDING" /\ st = "BOOKED")
        BY <2>3 DEF Appear, Settle, Seen
      <3>2. B' = [B EXCEPT ![t] = st]
        BY <3>1 DEF BankState, TypeOK, Seen
      <3>3. B[t] = "none" \/ (B[t] = "PENDING" /\ st = "BOOKED")
        BY <3>1 DEF BankState
      <3>4. Promise!BankReports(t, st)
        BY <2>1, <3>2, <3>3 DEF Promise!BankReports
      <3> QED BY <3>4 DEF Promise!Next, Seen
    <2> QED BY <2>2, <2>3, BankSteps
  <1>2. ASSUME UNCHANGED bank, NEW k \in Key, tracked'[k] # NoRow,
               \A j \in Key \ {k} : tracked'[j] = tracked[j]
        PROVE  [Promise!Next]_<<B, S>>
    <2>1. PICK t \in Tx : t = k[1]
      BY Owners
    <2>2. k = <<t, "BOOKED">>
      BY <2>1, OneRowEach
    <2>3. /\ S[t] = Says(StatusOf(k)) /\ S'[t] = Says(StatusOf(k)')
          /\ S' = [S EXCEPT ![t] = Says(StatusOf(k)')]
      <3>1. \A u \in Tx \ {t} : BookingState(u)' = BookingState(u)
        <4> SUFFICES ASSUME NEW u \in Tx \ {t} PROVE BookingState(u)' = BookingState(u)
          OBVIOUS
        <4>1. <<u, "BOOKED">> \in Key \ {k}
          BY <2>2, OneRowEach
        <4>2. StatusOf(<<u, "BOOKED">>)' = StatusOf(<<u, "BOOKED">>)
          BY <1>2, <4>1 DEF StatusOf
        <4> QED BY <4>2, OneRowEach
      <3>2. BookingState(t) = Says(StatusOf(k)) /\ BookingState(t)' = Says(StatusOf(k)')
        BY <2>2, OneRowEach
      <3> QED BY <3>1, <3>2
    <2>4. B' = B
      BY <1>2 DEF BankState
    <2>5. /\ StatusOf(k)' \in Status
          /\ B[t] # "none" /\ (StatusOf(k)' = "BOOKED" => B[t] = "BOOKED")
      <3>1. Sourced' /\ TypeOK'
        BY SourcedStep, TypeNext DEF LedgerInv
      <3>2. Reported(t, StatusOf(k))' /\ StatusOf(k)' \in Status
        BY <1>2, <2>1, <3>1, RowType DEF Sourced, StatusOf, TypeOK
      <3> QED BY <1>2, <3>2 DEF Reported, BankState, Seen
    <2>6. CASE tracked[k] = NoRow
      <3>1. S[t] = "open"
        BY <2>3, <2>6 DEF StatusOf, Says
      <3>2. Promise!Hold(t) \/ Promise!Settle(t) \/ Promise!Dismiss(t)
        BY <2>3, <2>4, <2>5, <3>1
           DEF Promise!Hold, Promise!Settle, Promise!Dismiss, Says, Status
      <3> QED BY <3>2 DEF Promise!Next
    <2>7. CASE tracked[k] # NoRow
      <3>1. CASE StatusOf(k)' = StatusOf(k)
        <4>1. S' = S
          BY <2>3, <3>1
        <4> QED BY <2>4, <4>1
      <3>2. CASE StatusOf(k) = "PENDING" /\ StatusOf(k)' = "BOOKED"
        <4>1. Promise!Settle(t)
          BY <2>3, <2>4, <2>5, <3>2 DEF Promise!Settle, Says
        <4> QED BY <4>1 DEF Promise!Next
      <3> QED BY <1>2, <2>7, <3>1, <3>2, RowsAreFinal
    <2> QED BY <2>6, <2>7
  <1> QED BY <1>1, <1>2, OneRow

(* The engine implements Booking, transfers and lookalikes included: a     *)
(* transaction is only ever held, settled or dismissed once the bank has   *)
(* reported it (settled once it has booked it), nothing held is forgotten, *)
(* and settled and dismissed are final.  As long as the database is not    *)
(* lost, a booking changes no key, no placeholder is mistaken for another  *)
(* transaction, and, with placeholders, the user deletes nothing.          *)
THEOREM BookingImplemented ==
  ASSUME Pendable \subseteq Solo, "db_loss" \notin Faults,
         Stable = {} \/ "user_delete" \notin Faults
  PROVE  Spec => ImplementsBooking
  <1>1. Init => Promise!Init
    <2> SUFFICES ASSUME Init PROVE Promise!Init
      OBVIOUS
    <2>1. \A t \in Tx : BankState(t) = "none"
      BY DEF Init, BankState
    <2>2. ASSUME NEW t \in Tx PROVE BookingState(t) = "open"
      <3>1. StatusOf(<<t, "BOOKED">>) = "untracked"
        BY OneRowEach DEF Init, StatusOf
      <3> QED BY <3>1, OneRowEach DEF Says
    <2> QED BY <2>1, <2>2 DEF Promise!Init
  <1>2. TypeInv /\ LedgerInv /\ [Next]_vars =>
          [Promise!Next]_<<[t \in Tx |-> BankState(t)], [t \in Tx |-> BookingState(t)]>>
    BY BookingStep
  <1> QED BY <1>1, <1>2, LedgerHolds, TypeInit, TypeNext, PTL
         DEF Spec, ImplementsBooking, Promise!Spec

=============================================================================
