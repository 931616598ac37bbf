-------------------------- MODULE SyncEngine_proofs --------------------------
(***************************************************************************)
(* Proofs about SyncEngine for every set of transactions, every           *)
(* configuration and every combination of faults: its type invariant, and  *)
(* that each tracked row names a transaction that exists in YNAB and is    *)
(* not the hidden shadow of a native match.                                *)
(***************************************************************************)
EXTENDS SyncEngine, TLAPS

-----------------------------------------------------------------------------
(* Keys and ids.                                                           *)

(* Every observation has a key.                                            *)
LEMMA KeyType == \A o \in Obs : KeyOf(o) \in Key
  BY DEF Key

(* The kinds of ids the model builds, and the fact that no import_id is    *)
(* the id of an entry made without one.                                    *)
LEMMA IdType ==
  /\ \A k \in Key : Import(k) \in ImportId
  /\ \A t \in Tx : Leg(t) \in LegId
  /\ \A k \in Key, y \in FirstId : Reeval(k, y) \in ReevalId
  /\ (ImportId \cup ReevalId) \cap Unimported = {}
  /\ ImportId \cup Unimported \subseteq FirstId /\ FirstId \subseteq Id
  /\ ManualId \subseteq Unimported /\ LegId \subseteq Unimported
  /\ ReevalId \subseteq Id
  <1>1. (ImportId \cup ReevalId) \cap Unimported = {}
    BY DEF ImportId, ReevalId, Unimported, ManualId, LegId
  <1>2. /\ \A k \in Key : Import(k) \in ImportId
        /\ \A t \in Tx : Leg(t) \in LegId
        /\ \A k \in Key, y \in FirstId : Reeval(k, y) \in ReevalId
    BY DEF Import, Leg, Reeval, ImportId, LegId, ReevalId
  <1>3. /\ ImportId \cup Unimported \subseteq FirstId /\ FirstId \subseteq Id
        /\ ManualId \subseteq Unimported /\ LegId \subseteq Unimported
        /\ ReevalId \subseteq Id
    BY DEF FirstId, Id, Unimported
  <1> QED BY <1>1, <1>2, <1>3

(* What the classification of an observation submits is well formed.       *)
LEMMA WorkForType ==
  ASSUME NEW o \in Obs, NEW y \in Unimported \cup {NoId}
  PROVE  WorkFor(o, y) \in Work /\ WorkFor(o, y).iid = Import(WorkFor(o, y).key)
  BY KeyType, IdType DEF WorkFor, Work, Obs

(* Each work item has an id, and one created with a reeval id is BOOKED.   *)
LEMMA WorkType ==
  ASSUME NEW w \in Work
  PROVE  /\ w.key \in Key /\ w.status \in Seen
         /\ w.iid \in Id \ Unimported
         /\ w.iid \in ImportId \/ w.status = "BOOKED"
         /\ w.orig \in Unimported \cup {NoId}
  BY IdType DEF Work, Seen

(* A row may hold any pair of a booking status and a submitted id.         *)
LEMMA RowType ==
  /\ \A st \in Status, y \in FirstId : [status |-> st, id |-> y] \in Row
  /\ \A y \in Id : [status |-> "BOOKED", id |-> y] \in Row
  /\ \A r \in Row : r \in [status : Status, id : Id]
  /\ \A r \in Row : r.status # "BOOKED" => r.id \in FirstId
  /\ NoRow \notin Row
  BY IdType, EngineAssumption DEF Row, Id, Status

(* The second leg of a transfer.                                           *)
LEMMA SecondaryType ==
  ASSUME NEW t \in Primary
  PROVE  SecondaryOf(t) \in Tx /\ <<t, SecondaryOf(t)>> \in Pairs
  <1>1. PICK p \in Pairs : t = p[1]
    BY DEF Primary
  <1>2. p[2] \in Tx /\ <<t, p[2]>> \in Pairs
    BY <1>1, EngineAssumption
  <1> QED BY <1>2 DEF SecondaryOf

(* A transaction belongs to one pair.                                      *)
LEMMA PairsDisjoint ==
  ASSUME NEW p \in Pairs, NEW q \in Pairs, p[2] = q[2]
  PROVE  p[1] = q[1]
  <1>1. p[2] \in {p[1], p[2]} \cap {q[1], q[2]}
    OBVIOUS
  <1> QED BY <1>1, EngineAssumption

(* The ids of the two legs of a transfer.                                  *)
LEMMA PairIds ==
  ASSUME NEW p \in Pairs
  PROVE  /\ Leg(p[2]) \in Id /\ Leg(p[2]) \in Unimported /\ Leg(p[2]) \notin ManualId
         /\ Import(<<p[1], "BOOKED">>) \in Id
  <1>1. p[1] \in Tx /\ p[2] \in Tx /\ p[1] \notin Card
    BY EngineAssumption
  <1>2. KeyOf(<<p[1], "BOOKED">>) = <<p[1], "BOOKED">>
    BY <1>1 DEF KeyOf
  <1>3. <<p[1], "BOOKED">> \in Key
    BY <1>1, <1>2, KeyType DEF Obs, Seen
  <1> QED BY <1>1, <1>3, IdType DEF Leg, ManualId

(* Different keys give different import_ids.                               *)
LEMMA ImportInjective ==
  ASSUME NEW j, NEW k, Import(j) = Import(k)
  PROVE  j = k
  <1>1. Import(j).key = j /\ Import(k).key = k
    BY DEF Import
  <1> QED BY <1>1

(* A leg of a transfer is seen BOOKED only: its key is what it is keyed by.*)
LEMMA PrimaryKey ==
  ASSUME NEW k \in Key, k[1] \in Primary
  PROVE  k = <<k[1], "BOOKED">> /\ k[1] \in Tx
  <1>1. PICK o \in Obs : k = KeyOf(o)
    BY DEF Key
  <1>2. k[1] = o[1] /\ o[1] \in Tx
    BY <1>1 DEF KeyOf, Obs
  <1>3. o[1] \notin Card
    BY <1>2, EngineAssumption DEF Primary
  <1> QED BY <1>1, <1>2, <1>3 DEF KeyOf

-----------------------------------------------------------------------------
(* The type invariant.  Its inductive form adds Shape, which says what the *)
(* item a sub-step works on is: a leg only ever follows a created primary, *)
(* a delete only ever has an entry of the user's as its target.            *)

TypeInv == TypeOK /\ Shape

(* What YNAB matches natively are entries the user typed.                  *)
LEMMA PostMatchesTyped ==
  ASSUME NEW W, Post(W)
  PROVE  \E hit \in SUBSET ({w.iid : w \in W} \X ManualId) :
           \E legs \in SUBSET Legs(W) : PostWith(W, hit, legs)
  <1>1. PICK hit \in SUBSET UNION {{w.iid} \X Anchors(w) : w \in W} :
          \E legs \in SUBSET Legs(W) : PostWith(W, hit, legs)
    BY DEF Post
  <1>2. ASSUME NEW h \in hit PROVE h \in {w.iid : w \in W} \X ManualId
    <2>1. PICK w \in W : h \in {w.iid} \X Anchors(w)
      BY <1>1
    <2>2. Anchors(w) \subseteq ManualId
      BY DEF Anchors
    <2> QED BY <2>1, <2>2
  <1> QED BY <1>1, <1>2

(* create_transactions keeps YNAB's tables well formed, and its response   *)
(* partitions what was submitted.                                          *)
LEMMA PostType ==
  ASSUME TypeOK, NEW W \in SUBSET Work, Post(W)
  PROVE  /\ ynab' \in [Id -> {"none", "live", "deleted"}]
         /\ match' \in [Id -> ManualId \cup {NoId}]
         /\ cleared' \in [Id -> BOOLEAN]
         /\ reply' \in Reply
         /\ reply'.new \cup reply'.dup \subseteq W
  <1>1. PICK hit \in SUBSET ({w.iid : w \in W} \X ManualId), legs \in SUBSET Legs(W) :
          PostWith(W, hit, legs)
    BY PostMatchesTyped
  <1>2. ynab' \in [Id -> {"none", "live", "deleted"}]
    BY <1>1 DEF PostWith, TypeOK
  <1>3. \A h \in hit : h[2] \in ManualId
    OBVIOUS
  <1>4. \A y \in Id : (\E h \in hit : h[1] = y) =>
          (CHOOSE h \in hit : h[1] = y)[2] \in ManualId
    BY <1>3
  <1>5. match' \in [Id -> ManualId \cup {NoId}]
    BY <1>1, <1>4 DEF PostWith, TypeOK
  <1>6. cleared' \in [Id -> BOOLEAN]
    BY <1>1, Zenon DEF PostWith
  <1>7. reply' \in Reply /\ reply'.new \cup reply'.dup \subseteq W
    BY <1>1 DEF PostWith, New, Reply
  <1> QED BY <1>2, <1>5, <1>6, <1>7

(* The empty cycle, pool and response.                                     *)
LEMMA EmptyType ==
  EmptyCycle \in Cycle /\ EmptyPool \in Pool /\ NoReply \in Reply
  BY DEF EmptyCycle, Cycle, EmptyPool, Pool, NoReply, Reply

(* The empty table and the idle engine SyncEngine.__init__ starts from have*)
(* the types, and nothing under way.                                       *)
LEMMA TypeInit == Init => TypeInv
  <1> SUFFICES ASSUME Init PROVE TypeInv
    OBVIOUS
  <1>1. EmptyCycle \in Cycle /\ EmptyPool \in Pool /\ NoReply \in Reply
    BY EmptyType
  <1>2. TypeOK
    BY <1>1 DEF Init, TypeOK, Phases, SubSteps
  <1>3. Shape
    BY DEF Init, Shape, EmptyCycle, EmptyPool, NoReply, Replies
  <1> QED BY <1>2, <1>3 DEF TypeInv

(* Deleting an entry leaves YNAB's table well formed.                      *)
LEMMA DeleteType ==
  ASSUME TypeOK, NEW y, Delete(y)
  PROVE  ynab' \in [Id -> {"none", "live", "deleted"}]
  BY DEF Delete, TypeOK

(* The bank's and the user's steps.                                        *)
LEMMA TypeEnvironment == TypeInv /\ Environment => TypeInv'
  <1> SUFFICES ASSUME TypeInv, Environment PROVE TypeInv'
    OBVIOUS
  <1> USE DEF TypeInv
  <1>1. ASSUME NEW t \in Tx, Appear(t) PROVE TypeInv'
    <2>1. PICK st \in Seen : bank' = [bank EXCEPT ![t] = st]
      BY <1>1 DEF Appear, Seen
    <2> QED BY <1>1, <2>1 DEF Appear, Seen, volatile, TypeOK, Shape, StatusOf, EmptyPool, Replies, ItsPrimary
  <1>2. ASSUME NEW t \in Tx, Settle(t) PROVE TypeInv'
    BY <1>2 DEF Settle, volatile, TypeOK, Shape, StatusOf, EmptyPool, Replies, ItsPrimary
  <1>3. ASSUME NEW y \in ManualId, UserTypes(y) PROVE TypeInv'
    BY <1>3 DEF UserTypes, volatile, TypeOK, Shape, StatusOf, EmptyPool, Replies, ItsPrimary
  <1>4. ASSUME NEW y \in Id, UserDeletes(y) PROVE TypeInv'
    BY <1>4, DeleteType DEF UserDeletes, volatile, TypeOK, Shape, StatusOf, EmptyPool, Replies, ItsPrimary
  <1> QED BY <1>1, <1>2, <1>3, <1>4 DEF Environment

(* fetch_and_classify.                                                     *)
LEMMA TypeClassify == TypeInv /\ (Fetch \/ Classify \/ MatchTransfers) => TypeInv'
  <1> SUFFICES ASSUME TypeInv, Fetch \/ Classify \/ MatchTransfers PROVE TypeInv'
    OBVIOUS
  <1> USE DEF TypeInv
  <1>1. CASE Fetch
    <2>1. todo' \subseteq Obs
      BY <1>1 DEF Fetch, TypeOK, Obs, Seen
    <2>2. cls' \in Cycle /\ cls'.creates = {} /\ cls'.matches = {}
      BY <1>1, <2>1 DEF Fetch, EmptyCycle, Cycle
    <2>3. pool' \in Pool
      BY <1>1 DEF Fetch, Pool
    <2>4. TypeOK'
      BY <1>1, <2>1, <2>2, <2>3 DEF Fetch, remote, TypeOK, Phases
    <2>5. Shape'
      BY <1>1, <2>2 DEF Fetch, remote, Shape, StatusOf, EmptyPool, ItsPrimary
    <2> QED BY <2>4, <2>5
  <1>2. ASSUME NEW o \in todo, ClassifyTracked(o) PROVE TypeInv'
    <2>1. o \in Obs /\ KeyOf(o) \in Key
      BY KeyType DEF TypeOK
    <2>2. \A k \in Key : StatusOf(k) = "PENDING" => tracked[k].id \in FirstId
      BY RowType DEF TypeOK, StatusOf
    <2>3. {[old |-> k, new |-> k, id |-> tracked[k].id] :
             k \in {k \in {KeyOf(o)} : o[2] = "BOOKED" /\ StatusOf(k) = "PENDING"}}
          \subseteq Update
      BY <2>1, <2>2 DEF Update
    <2> QED BY <1>2, <2>1, <2>3 DEF ClassifyTracked, Classifying, remote, TypeOK, Cycle,
             Shape, StatusOf, EmptyPool, Replies, ItsPrimary
  <1>3. ASSUME NEW o \in todo, ClassifySettled(o) PROVE TypeInv'
    <2>1. o \in Obs /\ KeyOf(o) \in Key
      BY KeyType DEF TypeOK
    <2> DEFINE k == The(Settles(o))
    <2>2. k \in Settles(o) /\ Settles(o) \subseteq pool.pending
      BY <1>3 DEF ClassifySettled, Unique, The, Settles
    <2>3. k \in Key /\ tracked[k].id \in FirstId
      BY <2>2, RowType DEF TypeOK, Pool, Shape, StatusOf
    <2>4. [old |-> k, new |-> KeyOf(o), id |-> tracked[k].id] \in Update
      BY <2>1, <2>3 DEF Update
    <2> QED BY <1>3, <2>4 DEF ClassifySettled, Classifying, remote, TypeOK, Cycle, Pool,
              Shape, StatusOf, EmptyPool, Replies, ItsPrimary
  <1>4. ASSUME NEW o \in todo, ClassifyManual(o) PROVE TypeInv'
    <2>1. o \in Obs /\ KeyOf(o) \in Key
      BY KeyType DEF TypeOK
    <2> DEFINE y == The(Typed(o))
    <2>2. y \in Unimported
      BY <1>4 DEF ClassifyManual, Unique, The, Typed, TypeOK, Pool
    <2>3. WorkFor(o, y) \in Work /\ WorkFor(o, y).iid = Import(WorkFor(o, y).key)
          /\ WorkFor(o, y).orig \in Unimported
      BY <2>1, <2>2, WorkForType DEF WorkFor
    <2> QED BY <1>4, <2>3 DEF ClassifyManual, Classifying, remote, TypeOK, Cycle, Pool,
              Shape, StatusOf, EmptyPool, Replies, ItsPrimary
  <1>5. ASSUME NEW o \in todo, ClassifyNew(o) PROVE TypeInv'
    <2>1. WorkFor(o, NoId) \in Work
          /\ WorkFor(o, NoId).iid = Import(WorkFor(o, NoId).key)
      BY WorkForType DEF TypeOK
    <2> QED BY <1>5, <2>1 DEF ClassifyNew, Classifying, remote, TypeOK, Cycle,
              Shape, StatusOf, EmptyPool, Replies, ItsPrimary
  <1>6. CASE MatchTransfers
    <2>c. PICK linked \in SUBSET Linkable :
            cls' = [cls EXCEPT !.links = {p[1] : p \in linked},
                               !.creates = {w \in @ : w.key[1] \notin Withheld(linked)}]
      BY <1>6 DEF MatchTransfers
    <2> DEFINE links == {p[1] : p \in linked}
               creates == {w \in cls.creates : w.key[1] \notin Withheld(linked)}
    <2>a. cls' = [cls EXCEPT !.links = links, !.creates = creates]
      BY <2>c
    <2>b. links \subseteq Primary /\ creates \subseteq cls.creates
      BY DEF Primary, Linkable
    <2> HIDE DEF links, creates
    <2>1. /\ cls' \in Cycle
          /\ cls'.creates \subseteq cls.creates /\ cls'.matches = cls.matches
      BY <2>a, <2>b DEF TypeOK, Cycle
    <2> QED BY <1>6, <2>1 DEF MatchTransfers, remote, TypeOK, Phases, EmptyPool, Pool,
              Shape, StatusOf, Replies, ItsPrimary
  <1>7. CASE ListAgain
    <2>1. pool' \in Pool /\ pool'.pending = pool.pending
      BY <1>7 DEF ListAgain, TypeOK, Pool
    <2> QED BY <1>7, <2>1 DEF ListAgain, remote, TypeOK, Shape, StatusOf, EmptyPool, Replies,
              ItsPrimary
  <1> QED BY <1>1, <1>2, <1>3, <1>4, <1>5, <1>6, <1>7 DEF Classify

(* Writing a row.                                                          *)
LEMMA TrackType ==
  ASSUME TypeOK, NEW k \in Key, NEW st, NEW y, Track(k, st, y),
         [status |-> st, id |-> y] \in Row
  PROVE  tracked' \in [Key -> Row \cup {NoRow}] /\ tracked'[k] # NoRow
  BY RowType DEF Track, TypeOK

(* The creates of submit.                                                  *)
LEMMA TypeCreates == TypeInv /\ Creates => TypeInv'
  <1> SUFFICES ASSUME TypeInv, Creates PROVE TypeInv'
    OBVIOUS
  <1> USE DEF TypeInv
  <1>1. CASE PostCreates
    <2>1. cls.creates \in SUBSET Work /\ Post(cls.creates)
      BY <1>1 DEF PostCreates, TypeOK, Cycle
    <2> QED BY <1>1, <2>1, PostType DEF PostCreates, TypeOK, Phases, Shape, StatusOf, EmptyPool,
             Replies, ItsPrimary
  <1>2. CASE RecordLeg
    <2> DEFINE s == SecondaryOf(cur.key[1])
    <2>1. s \in Tx /\ KeyOf(<<s, "BOOKED">>) \in Key
      BY <1>2, SecondaryType, KeyType DEF RecordLeg, Shape, ItsPrimary, TypeOK, Cycle, Obs, Seen
    <2>2. [status |-> "BOOKED", id |-> Leg(s)] \in Row
      BY <2>1, IdType, RowType
    <2>3. tracked' \in [Key -> Row \cup {NoRow}]
      BY <1>2, <2>1, <2>2, TrackType DEF RecordLeg
    <2> QED BY <1>2, <2>3 DEF RecordLeg, remote, TypeOK, SubSteps, Shape, StatusOf, EmptyPool,
             Replies, ItsPrimary
  <1>3. CASE FixLeg
    BY <1>3 DEF FixLeg, TypeOK, SubSteps, Shape, StatusOf, EmptyPool, Replies, ItsPrimary
  <1>4. CASE Unclear
    <2>1. cleared' \in [Id -> BOOLEAN]
      BY <1>4, Zenon DEF Unclear, TypeOK
    <2>2. /\ sub = "unclear" /\ sub' = "none" /\ cur' = NoWork
          /\ UNCHANGED <<bank, ynab, match, tracked, phase, cls, todo, fixes, pool, reply, bug>>
      BY <1>4 DEF Unclear
    <2>3. TypeOK'
      BY <2>1, <2>2 DEF TypeOK, SubSteps
    <2>4. Shape'
      BY <2>2 DEF Shape, StatusOf, Replies, ItsPrimary
    <2> QED BY <2>3, <2>4
  <1>5. CASE StartUpdates
    BY <1>5 DEF StartUpdates, remote, TypeOK, Cycle, Phases, Shape, StatusOf, EmptyPool, Replies,
             ItsPrimary
  <1>6. ASSUME NEW w \in reply.new, RecordCreated(w) PROVE TypeInv'
    <2>1. w \in cls.creates /\ w \in Work /\ w.iid \in ImportId
      BY <1>6, WorkType, IdType DEF RecordCreated, Shape, Replies, TypeOK, Cycle
    <2>2. CreatedId(w) \in FirstId /\ [status |-> w.status, id |-> CreatedId(w)] \in Row
      BY <2>1, IdType, RowType, WorkType DEF CreatedId, Hidden, TypeOK, Seen, Status
    <2>3. tracked' \in [Key -> Row \cup {NoRow}] /\ tracked'[w.key] # NoRow
      BY <1>6, <2>1, <2>2, TrackType, WorkType DEF RecordCreated
    <2>4. reply' \in Reply /\ reply'.new \subseteq reply.new /\ reply'.dup = reply.dup
      BY <1>6 DEF RecordCreated, TypeOK, Reply
    <2> QED BY <1>6, <2>1, <2>3, <2>4 DEF RecordCreated, remote, TypeOK, Item, SubSteps,
             Shape, StatusOf, EmptyPool, Replies, ItsPrimary
  <1>7. ASSUME NEW w \in reply.dup, BackfillDuplicate(w) PROVE TypeInv'
    <2>1. w \in cls.creates /\ w \in Work /\ w.iid \in ImportId
      BY <1>7, WorkType, IdType DEF BackfillDuplicate, Shape, Replies, TypeOK, Cycle
    <2>2. [status |-> DuplicateStatus(w), id |-> w.iid] \in Row
      BY <2>1, IdType, RowType, WorkType DEF DuplicateStatus, Seen, Status
    <2>3. tracked' \in [Key -> Row \cup {NoRow}]
      BY <1>7, <2>2 DEF BackfillDuplicate, TypeOK
    <2>4. reply' \in Reply /\ reply'.new = reply.new /\ reply'.dup \subseteq reply.dup
      BY <1>7 DEF BackfillDuplicate, TypeOK, Reply
    <2> QED BY <1>7, <2>1, <2>3, <2>4 DEF BackfillDuplicate, remote, TypeOK,
             Shape, StatusOf, EmptyPool, Replies, ItsPrimary
  <1>8. CASE LegMissing
    BY <1>8 DEF LegMissing, remote, TypeOK, SubSteps, Shape, StatusOf, EmptyPool, Replies,
       ItsPrimary
  <1> QED BY <1>1, <1>2, <1>3, <1>4, <1>5, <1>6, <1>7, <1>8 DEF Creates

(* The corrections of submit.                                              *)
LEMMA TypeUpdates == TypeInv /\ Updates => TypeInv'
  <1> SUFFICES ASSUME TypeInv, Updates PROVE TypeInv'
    OBVIOUS
  <1> USE DEF TypeInv
  <1>1. CASE BookUpdate
    <2>1. cur \in Update
      BY <1>1 DEF BookUpdate, Shape
    <2>2. ASSUME tracked[cur.old] # NoRow
          PROVE  Moved(cur) \in [Key -> Row \cup {NoRow}]
      <3>1. [status |-> "BOOKED", id |-> tracked[cur.old].id] \in Row
        BY <2>1, <2>2, RowType DEF Update, TypeOK
      <3> QED BY <2>1, <3>1 DEF Moved, Update, TypeOK
    <2>3. tracked' \in [Key -> Row \cup {NoRow}]
      BY <1>1, <2>2 DEF BookUpdate, TypeOK
    <2>4. phase' \in {"failed", "update"} /\ fixes' \subseteq fixes /\ bug' \in BOOLEAN
      BY <1>1 DEF BookUpdate
    <2>5. /\ sub = "book" /\ sub' = "none" /\ cur' = NoWork
          /\ UNCHANGED <<remote, cls, todo, pool, reply>>
      BY <1>1 DEF BookUpdate
    <2> QED BY <2>3, <2>4, <2>5 DEF remote, TypeOK, Phases, SubSteps, Shape,
             StatusOf, EmptyPool, Replies, ItsPrimary
  <1>2. CASE PostReplacement
    <2>1. {cur} \in SUBSET Work /\ Post({cur}) /\ cur.orig \in Unimported
      BY <1>2 DEF PostReplacement, Shape
    <2> QED BY <1>2, <2>1, PostType DEF PostReplacement, TypeOK, Phases, Shape, StatusOf,
             EmptyPool, Replies, ItsPrimary
  <1>3. CASE ReplacementDone
    BY <1>3 DEF ReplacementDone, remote, volatile, TypeOK, Phases, Shape, StatusOf,
       EmptyPool, Replies, ItsPrimary
  <1>4. ASSUME NEW u \in fixes, PatchUpdate(u) PROVE TypeInv'
    <2>1. u \in Update
      BY DEF TypeOK
    <2> QED BY <1>4, <2>1 DEF PatchUpdate, NextUpdate, TypeOK, Item, SubSteps, Shape,
             StatusOf, EmptyPool, Replies, ItsPrimary
  <1>5. ASSUME NEW u \in fixes, RecoverWithoutRow(u) PROVE TypeInv'
    BY <1>5 DEF RecoverWithoutRow, NextUpdate, remote, TypeOK, Phases, Shape,
       StatusOf, EmptyPool, Replies, ItsPrimary
  <1>6. ASSUME NEW u \in fixes, RecoverAsDeleted(u) PROVE TypeInv'
    <2>1. u.old \in Key /\ [status |-> "DELETED", id |-> u.id] \in Row
      BY RowType DEF TypeOK, Update, Status
    <2>2. tracked' \in [Key -> Row \cup {NoRow}]
      BY <1>6, <2>1, TrackType DEF RecoverAsDeleted
    <2> QED BY <1>6, <2>2 DEF RecoverAsDeleted, NextUpdate, remote, TypeOK, Shape,
             StatusOf, EmptyPool, Replies, ItsPrimary
  <1>7. ASSUME NEW u \in fixes, RecoverAsReplaced(u) PROVE TypeInv'
    <2>1. The(Replacements(u)) \in Unimported
      BY <1>7 DEF RecoverAsReplaced, Unique, The, Replacements
    <2>2. cur' \in Work /\ cur'.orig \in Unimported
      BY <1>7, <2>1, IdType DEF RecoverAsReplaced, TypeOK, Update, Work
    <2> QED BY <1>7, <2>2 DEF RecoverAsReplaced, NextUpdate, remote, TypeOK, Item, Phases,
             Shape, StatusOf, EmptyPool, Replies, ItsPrimary
  <1> QED BY <1>1, <1>2, <1>3, <1>4, <1>5, <1>6, <1>7 DEF Updates

(* A match tracks the original or the entry that replaces it.              *)
LEMMA MatchedType ==
  ASSUME NEW w \in Work, w.orig \in Unimported
  PROVE  [status |-> w.status, id |-> w.iid] \in Row /\ [status |-> w.status, id |-> w.orig] \in Row
  BY WorkType, IdType, RowType DEF Seen, Status

(* The manual matches of submit.                                           *)
LEMMA TypeMatches == TypeInv /\ Matches => TypeInv'
  <1> SUFFICES ASSUME TypeInv, Matches PROVE TypeInv'
    OBVIOUS
  <1> USE DEF TypeInv
  <1>1. CASE PostMatches
    <2>1. cls.matches \in SUBSET Work /\ Post(cls.matches)
      BY <1>1 DEF PostMatches, TypeOK, Cycle
    <2> QED BY <1>1, <2>1, PostType DEF PostMatches, UpdatesDone, TypeOK, Phases, Shape,
             StatusOf, EmptyPool, Replies, ItsPrimary
  <1>2. CASE DeleteOriginal
    <2>1. ynab' \in [Id -> {"none", "live", "deleted"}]
      BY <1>2, DeleteType DEF DeleteOriginal, TypeOK
    <2>2. /\ sub = "delete" /\ sub' = "none" /\ cur' = NoWork
          /\ UNCHANGED <<bank, match, cleared, tracked, phase, cls, todo, fixes, pool, reply, bug>>
      BY <1>2 DEF DeleteOriginal
    <2>3. TypeOK'
      BY <2>1, <2>2 DEF TypeOK, SubSteps
    <2>4. Shape'
      BY <2>2 DEF Shape, StatusOf, Replies, ItsPrimary
    <2> QED BY <2>3, <2>4
  <1>3. CASE Finish
    BY <1>3, EmptyType DEF Finish, UpdatesDone, remote, volatile, EmptyCycle, TypeOK, Phases,
       Shape, StatusOf, EmptyPool, NoReply, Replies, ItsPrimary
  <1>4. ASSUME NEW w \in reply.new, RecordMatched(w) PROVE TypeInv'
    <2>1. w \in Work /\ w.orig \in Unimported
      BY <1>4 DEF RecordMatched, Shape, Replies, TypeOK, Reply
    <2>2. w.key \in Key /\ [status |-> w.status, id |-> MatchedId(w)] \in Row
      BY <2>1, MatchedType, WorkType DEF MatchedId
    <2>3. tracked' \in [Key -> Row \cup {NoRow}] /\ tracked'[w.key] # NoRow
      BY <1>4, <2>2, TrackType DEF RecordMatched
    <2>4. reply' \in Reply /\ reply'.new \subseteq reply.new /\ reply'.dup = reply.dup
      BY <1>4 DEF RecordMatched, TypeOK, Reply
    <2> QED BY <1>4, <2>1, <2>3, <2>4 DEF RecordMatched, Ending, remote, TypeOK, Item, SubSteps,
             Shape, StatusOf, EmptyPool, Replies, ItsPrimary
  <1>5. ASSUME NEW w \in reply.dup, MatchedAgain(w) PROVE TypeInv'
    <2>1. w \in Work /\ w.orig \in Unimported
      BY <1>5 DEF MatchedAgain, Shape, Replies, TypeOK, Reply
    <2>2. tracked' \in [Key -> Row \cup {NoRow}]
      BY <1>5, <2>1, MatchedType DEF MatchedAgain, MatchedId, TypeOK
    <2>3. reply' \in Reply /\ reply'.new = reply.new /\ reply'.dup \subseteq reply.dup
      BY <1>5 DEF MatchedAgain, TypeOK, Reply
    <2>4. sub' = "unclear" => tracked'[w.key] # NoRow
      <3>1. w.key \in Key /\ [status |-> w.status, id |-> MatchedId(w)] \in Row
        BY <2>1, MatchedType, WorkType DEF MatchedId
      <3> QED BY <1>5, <3>1, RowType DEF MatchedAgain, TypeOK
    <2>5. sub' \in {"none", "delete", "unclear"}
      BY <1>5 DEF MatchedAgain, Ending
    <2>6. /\ phase \in {"match", "rematch"} /\ cur' = IF sub' = "none" THEN NoWork ELSE w
          /\ UNCHANGED <<remote, phase, cls, todo, fixes, pool, bug>>
      BY <1>5 DEF MatchedAgain
    <2>7. TypeOK'
      BY <2>1, <2>2, <2>3, <2>5, <2>6 DEF remote, TypeOK, Item, SubSteps
    <2>8. Shape'
      BY <2>1, <2>3, <2>4, <2>5, <2>6 DEF remote, Shape, StatusOf, EmptyPool, Replies, ItsPrimary
    <2> QED BY <2>7, <2>8
  <1> QED BY <1>1, <1>2, <1>3, <1>4, <1>5 DEF Matches

(* A failed call, a retry, a dropped cycle and a crash.                    *)
LEMMA TypeFailures == TypeInv /\ (Retry \/ Drop \/ Failures) => TypeInv'
  <1> SUFFICES ASSUME TypeInv, Retry \/ Drop \/ Failures PROVE TypeInv'
    OBVIOUS
  <1> USE DEF TypeInv
  <1>1. Reset => /\ pool' = EmptyPool /\ pool' \in Pool /\ reply' = NoReply /\ reply' \in Reply
                 /\ Replies' = {} /\ sub' = "none" /\ todo' = {} /\ fixes' = {}
                 /\ cur' = NoWork /\ pool'.pending = {}
    BY EmptyType DEF Reset, NoReply, EmptyPool, Replies
  <1>2. CASE Retry
    BY <1>2 DEF Retry, remote, volatile, TypeOK, Phases, Shape, StatusOf, EmptyPool,
       Replies, ItsPrimary
  <1>3. CASE Drop
    BY <1>1, <1>3, EmptyType DEF Drop, remote, EmptyCycle, TypeOK, Phases, SubSteps, Shape,
       StatusOf, ItsPrimary
  <1>4. CASE SubmitFails
    BY <1>1, <1>4 DEF SubmitFails, remote, TypeOK, Phases, SubSteps, Shape, StatusOf, ItsPrimary
  <1>5. CASE FetchFails
    BY <1>1, <1>5, EmptyType DEF FetchFails, remote, EmptyCycle, TypeOK, Phases, SubSteps,
       Shape, StatusOf, ItsPrimary
  <1>6. CASE Crash
    <2>1. tracked' \in [Key -> Row \cup {NoRow}]
      BY <1>6 DEF Crash, TypeOK
    <2> QED BY <1>1, <1>6, <2>1, EmptyType DEF Crash, remote, EmptyCycle, TypeOK, Phases,
             SubSteps, Shape, StatusOf, ItsPrimary
  <1> QED BY <1>2, <1>3, <1>4, <1>5, <1>6 DEF Failures

(* Every step keeps it.                                                    *)
LEMMA TypeNext == TypeInv /\ [Next]_vars => TypeInv'
  <1> SUFFICES ASSUME TypeInv, [Next]_vars PROVE TypeInv'
    OBVIOUS
  <1>1. CASE UNCHANGED vars
    BY <1>1 DEF vars, TypeInv, TypeOK, Shape, StatusOf, Replies, ItsPrimary
  <1> QED BY <1>1, TypeEnvironment, TypeClassify, TypeCreates, TypeUpdates, TypeMatches,
             TypeFailures DEF Next

(* The engine's variables keep their types, and every step of a cycle      *)
(* finds the item it works on, after any retry, failure or crash.          *)
THEOREM TypeCorrect == Spec => []TypeOK
  <1>1. TypeInv => TypeOK
    BY DEF TypeInv
  <1> QED BY TypeInit, TypeNext, <1>1, PTL DEF Spec
-----------------------------------------------------------------------------
(* Tracked rows are real.                                                  *)

(* Only six actions change which transactions YNAB has or hides: typing and*)
(* deleting by the user, the three creates, and the delete that completes a*)
(* manual match.                                                           *)
LEMMA RemoteChanges ==
  ASSUME [Next]_vars
  PROVE  \/ UNCHANGED <<ynab, match>>
         \/ \E y \in ManualId : UserTypes(y)
         \/ \E y \in Id : UserDeletes(y)
         \/ PostCreates \/ PostReplacement \/ PostMatches \/ DeleteOriginal
  <1>1. CASE Environment
    BY <1>1 DEF Environment, Appear, Settle
  <1>2. CASE Fetch \/ Classify \/ MatchTransfers
    BY <1>2 DEF Fetch, Classify, ListAgain, MatchTransfers, ClassifyTracked, ClassifySettled,
       ClassifyManual, ClassifyNew, Classifying, remote
  <1>3. CASE Creates
    BY <1>3 DEF Creates, RecordLeg, LegMissing, FixLeg, Unclear, StartUpdates, RecordCreated,
       BackfillDuplicate, remote
  <1>4. CASE Updates
    BY <1>4 DEF Updates, BookUpdate, ReplacementDone, PatchUpdate, RecoverWithoutRow,
       RecoverAsDeleted, RecoverAsReplaced, remote
  <1>5. CASE Matches
    BY <1>5 DEF Matches, Finish, RecordMatched, MatchedAgain, remote
  <1>6. CASE Retry \/ Drop \/ Failures
    BY <1>6 DEF Retry, Drop, Failures, SubmitFails, FetchFails, Crash, remote
  <1>7. CASE UNCHANGED vars
    BY <1>7 DEF vars
  <1> QED BY <1>1, <1>2, <1>3, <1>4, <1>5, <1>6, <1>7 DEF Next

(* Only eight actions write tracked_transactions: those that record a       *)
(* response, a correction or its recovery, and the loss of the database.   *)
LEMMA TableChanges ==
  ASSUME [Next]_vars
  PROVE  \/ UNCHANGED tracked
         \/ RecordLeg \/ BookUpdate \/ Crash
         \/ \E w \in reply.new : RecordCreated(w) \/ RecordMatched(w)
         \/ \E w \in reply.dup : BackfillDuplicate(w) \/ MatchedAgain(w)
         \/ \E u \in fixes : RecoverAsDeleted(u)
  <1>1. CASE Environment
    BY <1>1 DEF Environment, Appear, Settle, UserTypes, UserDeletes
  <1>2. CASE Fetch \/ Classify \/ MatchTransfers
    BY <1>2 DEF Fetch, Classify, ListAgain, MatchTransfers, ClassifyTracked, ClassifySettled,
       ClassifyManual, ClassifyNew, Classifying
  <1>3. CASE Creates
    BY <1>3 DEF Creates, PostCreates, LegMissing, FixLeg, Unclear, StartUpdates
  <1>4. CASE Updates
    BY <1>4 DEF Updates, PostReplacement, ReplacementDone, PatchUpdate,
       RecoverWithoutRow, RecoverAsReplaced
  <1>5. CASE Matches
    BY <1>5 DEF Matches, PostMatches, DeleteOriginal, Finish
  <1>6. CASE Retry \/ Drop \/ Failures
    BY <1>6 DEF Retry, Drop, Failures, SubmitFails, FetchFails
  <1>7. CASE UNCHANGED vars
    BY <1>7 DEF vars
  <1> QED BY <1>1, <1>2, <1>3, <1>4, <1>5, <1>6, <1>7 DEF Next

(* Every posted transaction exists afterwards, a created primary is never  *)
(* a shadow; what existed still does, and none of it becomes a shadow.     *)
LEMMA PostReal ==
  ASSUME TypeInv, RealInv, NEW W \in SUBSET Work, Post(W),
         phase = "create" => W = cls.creates
  PROVE  /\ \A y \in Id : Made(y) => Made(y)' /\ (~Hidden(y) => ~Hidden(y)')
         /\ \A w \in W : Made(w.iid)'
         /\ \A w \in reply'.new : Linked(w) => ~Hidden(w.iid)'
         /\ ShadowsLive' /\ LegsLinked'
  <1> USE DEF TypeInv
  <1>1. PICK hit \in SUBSET ({w.iid : w \in W} \X ManualId), legs \in SUBSET Legs(W) :
          PostWith(W, hit, legs)
    BY PostMatchesTyped
  <1>2. ASSUME NEW y \in Id, ~Hidden(y), match'[y] # NoId
        PROVE  \E h \in hit : h[1] = y /\ match'[y] = h[2]
    BY <1>1, <1>2 DEF PostWith, Hidden
  <1>3. ASSUME NEW h \in hit
        PROVE  /\ \E w \in W : w.iid = h[1] /\ w \in New(W) /\ ~Linked(w)
               /\ h[2] \in ManualId /\ Visible(h[2])
    <2>1. PICK w \in W : w.iid = h[1] /\ h[2] \in Anchors(w)
      BY <1>1 DEF PostWith
    <2> QED BY <2>1 DEF Anchors, New
  <1>4. \A y \in Id : Made(y) => Made(y)' /\ (~Hidden(y) => ~Hidden(y)')
    <2> SUFFICES ASSUME NEW y \in Id, Made(y)
                 PROVE  Made(y)' /\ (~Hidden(y) => ~Hidden(y)')
      OBVIOUS
    <2>1. Made(y)'
      BY <1>1 DEF PostWith, Made
    <2>2. ASSUME ~Hidden(y), match'[y] # NoId PROVE FALSE
      BY <1>2, <1>3, <2>2 DEF New, Made
    <2> QED BY <2>1, <2>2 DEF Hidden
  <1>5. \A w \in W : Made(w.iid)' /\ (w \in New(W) => ynab'[w.iid] = "live")
    BY <1>1, WorkType DEF PostWith, Made, New
  <1>6. ASSUME NEW w \in New(W), Linked(w), match'[w.iid] # NoId PROVE FALSE
    <2>1. /\ w \in cls.creates /\ W = cls.creates /\ w.iid \in Id /\ w.key \in Key
          /\ w.iid = Import(w.key)
      BY <1>6, WorkType DEF Linked, New, Shape
    <2>2. ~Hidden(w.iid)
      BY <2>1 DEF RealInv, ShadowsLive, New
    <2>3. PICK h \in hit : h[1] = w.iid
      BY <1>2, <1>6, <2>1, <2>2
    <2>4. PICK v \in W : v.iid = w.iid /\ ~Linked(v)
      BY <1>3, <2>3
    <2>5. v.key = w.key
      BY <2>1, <2>4, WorkType, ImportInjective DEF Shape
    <2> QED BY <1>6, <2>4, <2>5 DEF Linked
  <1>7. \A w \in reply'.new : Linked(w) => ~Hidden(w.iid)'
    BY <1>1, <1>6 DEF PostWith, Hidden
  <1>8. ShadowsLive'
    <2> SUFFICES ASSUME NEW y \in Id, match'[y] # NoId
                 PROVE  ynab'[y] = "live" /\ y \notin Unimported /\ ynab'[match'[y]] # "none"
      BY DEF ShadowsLive, Hidden, Made
    <2>1. CASE Hidden(y)
      <3>1. ynab[y] = "live" /\ y \notin Unimported /\ match[y] \in Id /\ Made(match[y])
        BY <2>1, IdType DEF RealInv, ShadowsLive, TypeOK, Hidden
      <3>2. \A h \in hit : h[1] # y
        BY <1>3, <3>1 DEF New
      <3> QED BY <1>1, <1>4, <3>1, <3>2 DEF PostWith, Made
    <2>2. CASE ~Hidden(y)
      <3>1. PICK h \in hit : h[1] = y /\ match'[y] = h[2]
        BY <1>2, <2>2
      <3>2. PICK w \in New(W) : w.iid = y
        BY <1>3, <3>1
      <3>3. h[2] \in Id /\ Made(h[2])
        BY <1>3, IdType DEF Visible, Made
      <3> QED BY <1>4, <1>5, <3>1, <3>2, <3>3, WorkType DEF New, Made
    <2> QED BY <2>1, <2>2
  <1>9. LegsLinked'
    <2> SUFFICES ASSUME NEW p \in Pairs, Made(Leg(p[2]))'
                 PROVE  Made(Import(<<p[1], "BOOKED">>))' /\ ~Hidden(Import(<<p[1], "BOOKED">>))'
      BY DEF LegsLinked
    <2> DEFINE l == Leg(p[2])
               f == Import(<<p[1], "BOOKED">>)
    <2>1. l \in Id /\ l \in Unimported
      BY PairIds
    <2>2. f \in Id
      BY PairIds
    <2>3. CASE Made(l)
      BY <1>4, <2>2, <2>3 DEF RealInv, LegsLinked
    <2>4. CASE ~Made(l)
      <3>1. PICK v \in New(W) : Linked(v) /\ l = Leg(SecondaryOf(v.key[1]))
        <4>1. l \in legs \cup {w.iid : w \in New(W)}
          BY <1>1, <2>1, <2>4 DEF PostWith, Made
        <4>2. \A w \in New(W) : w.iid # l
          BY <2>1, WorkType DEF New
        <4> QED BY <4>1, <4>2 DEF Legs
      <3>2. /\ v \in W /\ v \in cls.creates /\ W = cls.creates
            /\ v.key \in Key /\ v.key[1] \in Primary
        BY <3>1, WorkType DEF Linked, New, TypeOK, Cycle
      <3>3. SecondaryOf(v.key[1]) = p[2] /\ <<v.key[1], p[2]>> \in Pairs
        BY <3>1, <3>2, SecondaryType DEF Leg
      <3>4. v.key[1] = p[1]
        BY <3>3, PairsDisjoint
      <3>5. v.key = <<p[1], "BOOKED">> /\ v.iid = f
        BY <3>2, <3>4, PrimaryKey DEF Shape
      <3>6. match'[f] = NoId
        BY <1>6, <3>1, <3>5
      <3> QED BY <1>5, <3>2, <3>5, <3>6 DEF Hidden
    <2> QED BY <2>3, <2>4
  <1> QED BY <1>4, <1>5, <1>7, <1>8, <1>9
(* A delete leaves every transaction made and hides nothing; what it takes *)
(* with it, the other leg of a transfer, is not a shadow.                  *)
LEMMA DeleteReal ==
  ASSUME TypeInv, RealInv, NEW y \in Id, ~Hidden(y), Delete(y), Made(y), UNCHANGED match
  PROVE  /\ \A z \in Id : Made(z) => Made(z)' /\ (~Hidden(z) => ~Hidden(z)')
         /\ ShadowsLive' /\ LegsLinked'
  <1> USE DEF TypeInv
  <1>1. \A z \in Id : Made(z)' <=> Made(z)
    BY DEF Delete, Made
  <1>2. \A z \in Id : Hidden(z)' <=> Hidden(z)
    BY DEF Hidden
  <1>3. ASSUME NEW z \in Id, Hidden(z) PROVE ynab'[z] = "live"
    <2>1. ynab[z] = "live" /\ z \notin Unimported /\ z # y
      BY <1>3 DEF RealInv, ShadowsLive
    <2>2. \A p \in Pairs : Leg(p[2]) \in Unimported
      BY EngineAssumption, IdType
    <2>3. \A p \in Pairs : y = Leg(p[2]) => z # Import(<<p[1], "BOOKED">>)
      BY <1>3 DEF RealInv, LegsLinked
    <2> QED BY <2>1, <2>2, <2>3 DEF Delete
  <1>4. ShadowsLive'
    BY <1>1, <1>3, IdType DEF RealInv, ShadowsLive, TypeOK, Hidden, Made
  <1>5. LegsLinked'
    <2> SUFFICES ASSUME NEW p \in Pairs, Made(Leg(p[2]))'
                 PROVE  Made(Import(<<p[1], "BOOKED">>))' /\ ~Hidden(Import(<<p[1], "BOOKED">>))'
      BY DEF LegsLinked
    <2>1. Leg(p[2]) \in Id /\ Import(<<p[1], "BOOKED">>) \in Id
      BY PairIds
    <2> QED BY <1>1, <1>2, <2>1 DEF RealInv, LegsLinked
  <1> QED BY <1>1, <1>2, <1>4, <1>5

(* Steps of the remote side, of the engine's or of anyone else's making.   *)
LEMMA RemoteReal ==
  ASSUME TypeInv, RealInv, [Next]_vars
  PROVE  /\ \A y \in Id : Made(y) => Made(y)' /\ (~Hidden(y) => ~Hidden(y)')
         /\ ShadowsLive' /\ LegsLinked'
  <1> USE DEF TypeInv
  <1>1. CASE UNCHANGED <<ynab, match>>
    BY <1>1 DEF RealInv, ShadowsLive, LegsLinked, Made, Hidden
  <1>2. ASSUME NEW y \in ManualId, UserTypes(y)
        PROVE  /\ \A z \in Id : Made(z) => Made(z)' /\ (~Hidden(z) => ~Hidden(z)')
               /\ ShadowsLive' /\ LegsLinked'
    <2>1. /\ ynab[y] = "none" /\ ynab' = [ynab EXCEPT ![y] = "live"] /\ match' = match
          /\ y \in Unimported /\ y \in Id
      BY <1>2, IdType DEF UserTypes
    <2>2. \A z \in Id : Made(z) => Made(z)' /\ (~Hidden(z) => ~Hidden(z)')
      BY <2>1 DEF TypeOK, Made, Hidden
    <2>3. ShadowsLive'
      BY <2>1, IdType DEF RealInv, ShadowsLive, TypeOK, Made, Hidden
    <2>4. LegsLinked'
      <3> SUFFICES ASSUME NEW p \in Pairs, Made(Leg(p[2]))'
                   PROVE  /\ Made(Import(<<p[1], "BOOKED">>))'
                          /\ ~Hidden(Import(<<p[1], "BOOKED">>))'
        BY DEF LegsLinked
      <3>1. /\ Leg(p[2]) \in Id /\ Import(<<p[1], "BOOKED">>) \in Id
            /\ Leg(p[2]) \notin ManualId
        BY PairIds
      <3>2. Made(Leg(p[2]))
        BY <2>1, <3>1 DEF Made, TypeOK
      <3> QED BY <2>2, <3>1, <3>2 DEF RealInv, LegsLinked
    <2> QED BY <2>2, <2>3, <2>4
  <1>3. ASSUME NEW y \in Id, UserDeletes(y)
        PROVE  /\ \A z \in Id : Made(z) => Made(z)' /\ (~Hidden(z) => ~Hidden(z)')
               /\ ShadowsLive' /\ LegsLinked'
    <2>1. ~Hidden(y) /\ Made(y) /\ Delete(y) /\ UNCHANGED match
      BY <1>3 DEF UserDeletes, Visible, Made
    <2> QED BY <2>1, DeleteReal
  <1>4. CASE PostCreates
    BY <1>4, PostReal DEF PostCreates, TypeOK, Cycle
  <1>5. CASE PostReplacement
    <2>1. {cur} \in SUBSET Work /\ Post({cur}) /\ phase # "create"
      BY <1>5 DEF PostReplacement, Shape
    <2> QED BY <2>1, PostReal
  <1>6. CASE PostMatches
    <2>1. cls.matches \in SUBSET Work /\ Post(cls.matches) /\ phase # "create"
      BY <1>6 DEF PostMatches, UpdatesDone, TypeOK, Cycle
    <2> QED BY <2>1, PostReal
  <1>7. CASE DeleteOriginal
    <2>1. cur.orig \in Id /\ ~Hidden(cur.orig) /\ Made(cur.orig) /\ UNCHANGED match
      BY <1>7, IdType DEF DeleteOriginal, Shape, RealInv, CarriedIsReal, ShadowsLive
    <2>2. CASE Delete(cur.orig)
      BY <2>1, <2>2, DeleteReal
    <2> QED BY <1>1, <1>7, <2>1, <2>2 DEF DeleteOriginal
  <1> QED BY <1>1, <1>2, <1>3, <1>4, <1>5, <1>6, <1>7, RemoteChanges

(* Every row the engine writes is real.                                    *)
LEMMA TrackedReal ==
  ASSUME TypeInv, RealInv, [Next]_vars
  PROVE  TrackedIsReal'
  <1> USE DEF TypeInv
  <1> DEFINE Real(y) == ynab'[y] # "none" /\ match'[y] = NoId
  <1>1. \A y \in Id : Made(y) /\ ~Hidden(y) => Real(y)
    BY RemoteReal DEF Made, Hidden
  <1>2. \A k \in Key : tracked[k] # NoRow => tracked[k].id \in Id /\ Real(tracked[k].id)
    BY <1>1, RowType DEF RealInv, TrackedIsReal, TypeOK, Made
  <1> HIDE DEF Real
  <1>3. ASSUME NEW k \in Key, NEW st, NEW y \in Id, Real(y),
               tracked' = [tracked EXCEPT ![k] = [status |-> st, id |-> y]]
        PROVE  TrackedIsReal'
    BY <1>2, <1>3 DEF TrackedIsReal, Hidden, Real, TypeOK
  <1>4. CASE UNCHANGED tracked
    BY <1>2, <1>4 DEF TrackedIsReal, Hidden, Real
  <1>5. CASE RecordLeg
    <2> DEFINE s == SecondaryOf(cur.key[1])
    <2>1. s \in Tx /\ KeyOf(<<s, "BOOKED">>) \in Key /\ Leg(s) \in Id /\ Leg(s) \in Unimported
      BY <1>5, SecondaryType, KeyType, IdType DEF RecordLeg, Shape, ItsPrimary, TypeOK, Cycle,
         Obs, Seen
    <2>2. Real(Leg(s))
      BY <1>1, <1>5, <2>1 DEF RecordLeg, RealInv, CarriedIsReal, ShadowsLive
    <2> QED BY <1>3, <1>5, <2>1, <2>2 DEF RecordLeg, Track
  <1>6. CASE BookUpdate
    <2>1. cur \in Update
      BY <1>6 DEF BookUpdate, Shape
    <2>2. ASSUME tracked[cur.old] # NoRow, tracked' = Moved(cur) PROVE TrackedIsReal'
      BY <1>2, <2>1, <2>2 DEF Moved, Update, TrackedIsReal, Hidden, Real, TypeOK
    <2> QED BY <1>4, <1>6, <2>2 DEF BookUpdate
  <1>7. CASE Crash
    BY <1>4, <1>7 DEF Crash, TrackedIsReal
  <1>8. ASSUME NEW w \in reply.new, RecordCreated(w) PROVE TrackedIsReal'
    <2>1. /\ w \in cls.creates /\ w \in Work /\ w.key \in Key /\ w.iid \in Id
          /\ w.iid = Import(w.key) /\ Made(w.iid) /\ phase = "record"
      BY <1>8, WorkType DEF RecordCreated, Shape, Replies, TypeOK, Cycle, RealInv, CarriedIsReal
    <2>2. CASE Hidden(w.iid) /\ ~ItsPrimary(w)
      <3>1. match[w.iid] \in Unimported /\ match[w.iid] \in Id /\ Made(match[w.iid])
        BY <2>1, <2>2, IdType DEF RealInv, ShadowsLive, Hidden, TypeOK
      <3>2. Real(match[w.iid])
        BY <1>1, <3>1 DEF RealInv, ShadowsLive
      <3> QED BY <1>3, <1>8, <2>1, <2>2, <3>1, <3>2 DEF RecordCreated, Track, CreatedId
    <2>3. CASE ItsPrimary(w)
      <3>4. ~Hidden(w.iid)
        BY <2>1, <2>3 DEF RealInv, CarriedIsReal
      <3> QED BY <1>1, <1>3, <1>8, <2>1, <3>4 DEF RecordCreated, Track, CreatedId
    <2>4. CASE ~Hidden(w.iid)
      BY <1>1, <1>3, <1>8, <2>1, <2>4 DEF RecordCreated, Track, CreatedId
    <2> QED BY <2>2, <2>3, <2>4
  <1>9. ASSUME NEW w \in reply.new, RecordMatched(w) PROVE TrackedIsReal'
    <2>1. /\ w.key \in Key /\ w.iid \in Id /\ w.orig \in Unimported /\ w.orig \in Id
          /\ Made(w.iid) /\ Made(w.orig)
      BY <1>9, WorkType, IdType
         DEF RecordMatched, Shape, Replies, TypeOK, Reply, RealInv, CarriedIsReal
    <2>2. ~Hidden(w.orig)
      BY <2>1 DEF RealInv, ShadowsLive
    <2>3. MatchedId(w) \in Id /\ Real(MatchedId(w))
      BY <1>1, <2>1, <2>2 DEF MatchedId
    <2> QED BY <1>3, <1>9, <2>1, <2>3 DEF RecordMatched, Track
  <1>10. ASSUME NEW w \in reply.dup, BackfillDuplicate(w) PROVE TrackedIsReal'
    <2>1. w.key \in Key /\ w.iid \in Id /\ Made(w.iid)
      BY <1>10, WorkType
         DEF BackfillDuplicate, Shape, Replies, TypeOK, Cycle, RealInv, CarriedIsReal
    <2>2. CASE Unfindable(w) \/ tracked[w.key] # NoRow
      BY <1>4, <1>10, <2>2 DEF BackfillDuplicate
    <2>3. CASE ~Unfindable(w) /\ tracked[w.key] = NoRow
      <3>1. ~Hidden(w.iid)
        BY <2>1, <2>3 DEF Unfindable, RealInv, ShadowsLive
      <3> QED BY <1>1, <1>3, <1>10, <2>1, <2>3, <3>1 DEF BackfillDuplicate
    <2> QED BY <2>2, <2>3
  <1>11. ASSUME NEW w \in reply.dup, MatchedAgain(w) PROVE TrackedIsReal'
    <2>1. w.key \in Key /\ w.iid \in Id
      BY WorkType DEF TypeOK, Reply
    <2>2. CASE tracked[w.key] = NoRow /\ Findable(w)
      <3>1. MatchedId(w) = w.iid /\ Real(w.iid)
        BY <1>1, <2>1, <2>2 DEF Findable, Visible, Made, MatchedId
      <3> QED BY <1>3, <1>11, <2>1, <2>2, <3>1 DEF MatchedAgain
    <2>3. CASE ~(tracked[w.key] = NoRow /\ Findable(w))
      BY <1>4, <1>11, <2>3 DEF MatchedAgain
    <2> QED BY <2>2, <2>3
  <1>12. ASSUME NEW u \in fixes, RecoverAsDeleted(u) PROVE TrackedIsReal'
    <2>1. u.id \in Id /\ u.old \in Key /\ Real(u.id)
      BY <1>1, IdType DEF TypeOK, Update, RealInv, CarriedIsReal
    <2> QED BY <1>3, <1>12, <2>1 DEF RecoverAsDeleted, Track
  <1> QED BY <1>4, <1>5, <1>6, <1>7, <1>8, <1>9, <1>10, <1>11, <1>12, TableChanges
(* What the engine carries over a step stays real.                         *)
LEMMA CarriedStays ==
  ASSUME TypeInv, RealInv, [Next]_vars
  PROVE  /\ \A w \in Replies : ynab'[w.iid] # "none"
         /\ phase = "record" => \A w \in reply.new :
              ItsPrimary(w) => match'[w.iid] = NoId
         /\ sub = "delete" => ynab'[cur.orig] # "none"
         /\ \A y \in pool.manual : ynab'[y] # "none"
         /\ \A w \in cls.matches : ynab'[w.orig] # "none"
         /\ phase = "repost" => ynab'[cur.orig] # "none"
         /\ phase \in {"match", "rematch"} => \A w \in Replies : ynab'[w.orig] # "none"
         /\ \A u \in cls.updates \cup fixes : ynab'[u.id] # "none" /\ match'[u.id] = NoId
  <1> USE DEF TypeInv
  <1>1. \A y \in Id : Made(y) => ynab'[y] # "none" /\ (~Hidden(y) => match'[y] = NoId)
    BY RemoteReal DEF Made, Hidden
  <1>2. /\ \A w \in Replies : w.iid \in Id
        /\ phase \in {"match", "rematch"} => \A w \in Replies : w.orig \in Id
    BY WorkType, IdType DEF TypeOK, Reply, Replies, Shape
  <1>3. \A y \in Unimported : y \in Id
    BY IdType
  <1>4. /\ \A w \in cls.matches : w.orig \in Id
        /\ \A y \in pool.manual : y \in Id
        /\ sub = "delete" => cur.orig \in Id
        /\ phase = "repost" => cur.orig \in Id
    BY <1>3 DEF TypeOK, Pool, Shape
  <1>5. \A u \in cls.updates \cup fixes : u.id \in Id
    BY IdType DEF TypeOK, Cycle, Update
  <1> QED BY <1>1, <1>2, <1>4, <1>5 DEF RealInv, CarriedIsReal, Replies

(* What it starts to carry is real, too.                                   *)
LEMMA CarriedReal ==
  ASSUME TypeInv, RealInv, [Next]_vars
  PROVE  CarriedIsReal'
  <1> USE DEF TypeInv
  <1>1. CASE Environment \/ UNCHANGED vars
    <2>1. UNCHANGED <<tracked, phase, cls, volatile>>
      BY <1>1 DEF Environment, Appear, Settle, UserTypes, UserDeletes, vars, volatile
    <2> QED BY <2>1, CarriedStays DEF CarriedIsReal, Made, Hidden, Replies, ItsPrimary, volatile
  <1>2. CASE Fetch
    BY <1>2, CarriedStays DEF Fetch, CarriedIsReal, Made, Hidden, Replies, ItsPrimary,
       EmptyCycle, Visible, remote
  <1>9. CASE ListAgain
    BY <1>9, CarriedStays DEF ListAgain, CarriedIsReal, Made, Hidden, Replies, ItsPrimary,
       Visible, remote
  <1>3. CASE Classify
    <2> SUFFICES ASSUME NEW o \in todo,
                        \/ ClassifyTracked(o) \/ ClassifySettled(o)
                        \/ ClassifyManual(o) \/ ClassifyNew(o)
                 PROVE  CarriedIsReal'
      BY <1>3, <1>9 DEF Classify
    <2>1. /\ phase = "classify" /\ UNCHANGED <<ynab, match, phase, sub, fixes, reply, cur>>
          /\ reply'.new \cup reply'.dup = Replies
      BY DEF ClassifyTracked, ClassifySettled, ClassifyManual, ClassifyNew, Classifying,
         remote, Replies
    <2>2. \A y \in pool'.manual : y \in pool.manual
      BY DEF ClassifyTracked, ClassifySettled, ClassifyManual, ClassifyNew, Classifying,
         TypeOK, Pool
    <2>3. \A w \in cls'.matches : Made(w.orig)
      <3>1. CASE ClassifyManual(o)
        <4>1. The(Typed(o)) \in pool.manual
          BY <3>1 DEF ClassifyManual, Unique, The, Typed
        <4>2. \A w \in cls'.matches : w \in cls.matches \/ w.orig = The(Typed(o))
          BY <3>1 DEF ClassifyManual, TypeOK, Cycle, WorkFor
        <4> QED BY <4>1, <4>2 DEF RealInv, CarriedIsReal
      <3>2. CASE ClassifyTracked(o) \/ ClassifySettled(o) \/ ClassifyNew(o)
        <4>1. cls'.matches = cls.matches
          BY <3>2 DEF ClassifyTracked, ClassifySettled, ClassifyNew, TypeOK, Cycle
        <4> QED BY <4>1 DEF RealInv, CarriedIsReal
      <3> QED BY <3>1, <3>2
    <2>4. \A u \in cls'.updates : Made(u.id) /\ ~Hidden(u.id)
      <3>1. \A k \in Key : StatusOf(k) = "PENDING" =>
              Made(tracked[k].id) /\ ~Hidden(tracked[k].id)
        BY DEF StatusOf, RealInv, TrackedIsReal, Made
      <3>2. CASE ClassifyTracked(o)
        <4>1. \A u \in cls'.updates : \/ u \in cls.updates
                \/ \E k \in Key : StatusOf(k) = "PENDING" /\ u.id = tracked[k].id
          <5>1. o \in Obs /\ KeyOf(o) \in Key
            BY KeyType DEF TypeOK
          <5> QED BY <3>2, <5>1 DEF ClassifyTracked, TypeOK, Cycle
        <4> QED BY <3>1, <4>1 DEF RealInv, CarriedIsReal
      <3>3. CASE ClassifySettled(o)
        <4> DEFINE k == The(Settles(o))
        <4>1. k \in pool.pending
          BY <3>3 DEF ClassifySettled, Unique, The, Settles
        <4>2. \A u \in cls'.updates : u \in cls.updates \/ u.id = tracked[k].id
          BY <3>3 DEF ClassifySettled, TypeOK, Cycle
        <4> QED BY <3>1, <4>1, <4>2 DEF RealInv, CarriedIsReal, TypeOK, Pool, Shape
      <3>4. CASE ClassifyManual(o) \/ ClassifyNew(o)
        <4>1. cls'.updates = cls.updates
          BY <3>4 DEF ClassifyManual, ClassifyNew, TypeOK, Cycle
        <4> QED BY <4>1 DEF RealInv, CarriedIsReal
      <3> QED BY <3>2, <3>3, <3>4
    <2> QED BY <2>1, <2>2, <2>3, <2>4, CarriedStays
            DEF CarriedIsReal, Made, Hidden, Replies, RealInv
  <1>4. CASE MatchTransfers
    <2>1. /\ cls'.matches = cls.matches /\ cls'.updates = cls.updates
          /\ pool' = EmptyPool /\ phase' = "create" /\ phase = "classify"
          /\ UNCHANGED <<sub, fixes, reply, cur>>
      BY <1>4 DEF MatchTransfers, TypeOK, Cycle
    <2> QED BY <2>1, CarriedStays DEF CarriedIsReal, Made, Hidden, Replies, EmptyPool
  <1>5. CASE Creates
    <2>1. CASE PostCreates
      <3>1. /\ cls.creates \in SUBSET Work /\ Post(cls.creates) /\ phase = "create"
            /\ phase' = "record" /\ UNCHANGED <<sub, cls, fixes, pool, cur>>
        BY <2>1 DEF PostCreates, TypeOK, Cycle
      <3>2. \A w \in Replies' : w \in cls.creates
        BY <3>1, PostType DEF Replies
      <3>3. /\ \A w \in Replies' : ynab'[w.iid] # "none"
            /\ \A w \in reply'.new : ItsPrimary(w) => match'[w.iid] = NoId
        BY <3>1, <3>2, PostReal DEF Made, Hidden, Linked, ItsPrimary, Replies
      <3> QED BY <3>1, <3>3, CarriedStays DEF CarriedIsReal, Made, Hidden, ItsPrimary, Shape
    <2>2. CASE RecordLeg
      BY <2>2, CarriedStays DEF RecordLeg, remote, CarriedIsReal, Made, Hidden, Replies, ItsPrimary
    <2>8. CASE LegMissing
      BY <2>8, CarriedStays DEF LegMissing, remote, CarriedIsReal, Made, Hidden, Replies,
         ItsPrimary, Shape
    <2>3. CASE FixLeg
      BY <2>3, CarriedStays DEF FixLeg, CarriedIsReal, Made, Hidden, Replies, ItsPrimary, Shape
    <2>4. CASE Unclear
      <3>1. /\ sub = "unclear" /\ sub' = "none"
            /\ UNCHANGED <<ynab, match, phase, cls, fixes, pool, reply>>
        BY <2>4 DEF Unclear
      <3> QED BY <3>1, CarriedStays DEF CarriedIsReal, Made, Hidden, Replies, ItsPrimary, Shape
    <2>5. CASE StartUpdates
      BY <2>5, CarriedStays DEF StartUpdates, remote, CarriedIsReal, Made, Hidden, Replies,
         ItsPrimary
    <2>6. ASSUME NEW w \in reply.new, RecordCreated(w) PROVE CarriedIsReal'
      <3>1. /\ reply'.new \subseteq reply.new /\ reply'.dup = reply.dup /\ phase = "record"
            /\ (sub' = "leg" => cur' = w /\ ItsPrimary(w)) /\ sub' # "delete"
            /\ UNCHANGED <<ynab, match, phase, cls, fixes, pool>>
        BY <2>6 DEF RecordCreated, remote, TypeOK, Reply
      <3> QED BY <3>1, CarriedStays DEF CarriedIsReal, Made, Hidden, Replies, ItsPrimary
    <2>7. ASSUME NEW w \in reply.dup, BackfillDuplicate(w) PROVE CarriedIsReal'
      <3>1. /\ reply'.new = reply.new /\ reply'.dup \subseteq reply.dup
            /\ UNCHANGED <<ynab, match, phase, sub, cls, fixes, pool, cur>>
        BY <2>7 DEF BackfillDuplicate, remote, TypeOK, Reply
      <3> QED BY <3>1, CarriedStays DEF CarriedIsReal, Made, Hidden, Replies, ItsPrimary
    <2> QED BY <1>5, <2>1, <2>2, <2>3, <2>4, <2>5, <2>6, <2>7, <2>8 DEF Creates
  <1>6. CASE Updates
    <2>1. CASE BookUpdate
      <3>1. /\ sub' = "none" /\ phase' \in {"failed", "update"} /\ fixes' \subseteq fixes
            /\ UNCHANGED <<ynab, match, cls, pool, reply>>
        BY <2>1 DEF BookUpdate, remote
      <3> QED BY <3>1, CarriedStays DEF CarriedIsReal, Made, Hidden, Replies
    <2>2. CASE PostReplacement
      <3>1. /\ {cur} \in SUBSET Work /\ Post({cur}) /\ phase = "repost"
            /\ phase' = "rematch" /\ sub = "none" /\ UNCHANGED <<sub, cls, fixes, pool>>
        BY <2>2 DEF PostReplacement, Shape, TypeOK, SubSteps
      <3>2. \A w \in Replies' : w = cur
        BY <3>1, PostType DEF Replies
      <3>3. \A w \in Replies' : ynab'[w.iid] # "none" /\ ynab'[w.orig] # "none"
        BY <3>1, <3>2, PostReal, CarriedStays DEF Made
      <3> QED BY <3>1, <3>3, CarriedStays DEF CarriedIsReal, Made, Hidden
    <2>3. CASE ReplacementDone
      BY <2>3, CarriedStays DEF ReplacementDone, remote, volatile, CarriedIsReal, Made,
         Hidden, Replies
    <2>4. ASSUME NEW u \in fixes, PatchUpdate(u) PROVE CarriedIsReal'
      BY <2>4, CarriedStays DEF PatchUpdate, NextUpdate, CarriedIsReal, Made, Hidden, Replies
    <2>5. ASSUME NEW u \in fixes, RecoverWithoutRow(u) PROVE CarriedIsReal'
      BY <2>5, CarriedStays DEF RecoverWithoutRow, NextUpdate, remote, CarriedIsReal, Made,
         Hidden, Replies
    <2>6. ASSUME NEW u \in fixes, RecoverAsDeleted(u) PROVE CarriedIsReal'
      BY <2>6, CarriedStays DEF RecoverAsDeleted, NextUpdate, remote, CarriedIsReal, Made,
         Hidden, Replies
    <2>7. ASSUME NEW u \in fixes, RecoverAsReplaced(u) PROVE CarriedIsReal'
      <3>1. ynab[The(Replacements(u))] = "live" /\ cur'.orig = The(Replacements(u))
        BY <2>7 DEF RecoverAsReplaced, Unique, The, Replacements, Visible
      <3>2. /\ sub' = "none" /\ phase' = "repost" /\ fixes' \subseteq fixes
            /\ UNCHANGED <<ynab, match, cls, pool, reply>>
        BY <2>7 DEF RecoverAsReplaced, NextUpdate, remote
      <3> QED BY <3>1, <3>2, CarriedStays DEF CarriedIsReal, Made, Hidden, Replies
    <2> QED BY <1>6, <2>1, <2>2, <2>3, <2>4, <2>5, <2>6, <2>7 DEF Updates
  <1>7. CASE Matches
    <2>1. CASE PostMatches
      <3>1. /\ cls.matches \in SUBSET Work /\ Post(cls.matches) /\ phase # "create"
            /\ phase' = "match" /\ sub = "none" /\ UNCHANGED <<sub, cls, fixes, pool>>
        BY <2>1 DEF PostMatches, UpdatesDone, TypeOK, Cycle
      <3>2. \A w \in Replies' : w \in cls.matches
        BY <3>1, PostType DEF Replies
      <3>3. \A w \in Replies' : ynab'[w.iid] # "none" /\ ynab'[w.orig] # "none"
        BY <3>1, <3>2, PostReal, CarriedStays DEF Made
      <3> QED BY <3>1, <3>3, CarriedStays DEF CarriedIsReal, Made, Hidden
    <2>2. CASE DeleteOriginal
      <3>1. /\ sub = "delete" /\ sub' = "none"
            /\ UNCHANGED <<phase, cls, fixes, pool, reply>>
        BY <2>2 DEF DeleteOriginal
      <3> QED BY <3>1, CarriedStays DEF CarriedIsReal, Made, Hidden, Replies, ItsPrimary, Shape
    <2>3. CASE Finish
      BY <2>3, CarriedStays DEF Finish, UpdatesDone, remote, volatile, EmptyCycle,
         CarriedIsReal, Made, Hidden, Replies
    <2>4. ASSUME NEW w \in reply.new, RecordMatched(w) PROVE CarriedIsReal'
      <3>1. /\ reply'.new \subseteq reply.new /\ reply'.dup = reply.dup
            /\ phase \in {"match", "rematch"}
            /\ (sub' = "delete" => cur' = w)
            /\ UNCHANGED <<ynab, match, phase, cls, fixes, pool>>
        BY <2>4 DEF RecordMatched, remote, TypeOK, Reply
      <3> QED BY <3>1, CarriedStays DEF CarriedIsReal, Made, Hidden, Replies
    <2>5. ASSUME NEW w \in reply.dup, MatchedAgain(w) PROVE CarriedIsReal'
      <3>1. /\ reply'.new = reply.new /\ reply'.dup \subseteq reply.dup
            /\ phase \in {"match", "rematch"}
            /\ (sub' = "delete" => cur' = w)
            /\ UNCHANGED <<ynab, match, phase, cls, fixes, pool>>
        BY <2>5 DEF MatchedAgain, remote, TypeOK, Reply
      <3> QED BY <3>1, CarriedStays DEF CarriedIsReal, Made, Hidden, Replies
    <2> QED BY <1>7, <2>1, <2>2, <2>3, <2>4, <2>5 DEF Matches
  <1>8. CASE Retry \/ Drop \/ Failures
    <2>1. Reset => /\ Replies' = {} /\ sub' = "none" /\ fixes' = {} /\ pool'.manual = {}
                   /\ reply'.new = {}
      BY DEF Reset, Replies, NoReply, EmptyPool
    <2>2. CASE Retry
      <3> QED BY <2>2, CarriedStays DEF Retry, remote, volatile, CarriedIsReal, Made,
              Hidden, Replies
    <2>3. CASE SubmitFails
      BY <2>1, <2>3, CarriedStays DEF SubmitFails, remote, CarriedIsReal, Made, Hidden
    <2>4. CASE Drop \/ FetchFails \/ Crash
      <3>1. Reset /\ phase' = "idle" /\ cls' = EmptyCycle
        BY <2>4 DEF Drop, FetchFails, Crash
      <3> QED BY <2>1, <3>1 DEF CarriedIsReal, EmptyCycle
    <2> QED BY <1>8, <2>2, <2>3, <2>4 DEF Failures
  <1> QED BY <1>1, <1>2, <1>3, <1>4, <1>5, <1>6, <1>7, <1>8 DEF Next

(* With nothing made in YNAB and nothing tracked, everything tracked or    *)
(* carried is real.                                                        *)
LEMMA RealInit == Init => RealInv
  <1> SUFFICES ASSUME Init PROVE RealInv
    OBVIOUS
  <1>1. ShadowsLive /\ TrackedIsReal
    BY DEF Init, ShadowsLive, TrackedIsReal, Hidden
  <1>2. LegsLinked
    BY PairIds DEF Init, LegsLinked, Made
  <1>3. CarriedIsReal
    BY DEF Init, CarriedIsReal, Replies, NoReply, EmptyPool, EmptyCycle
  <1> QED BY <1>1, <1>2, <1>3 DEF RealInv

(* Through every retry, failure and deletion: shadows are live and hide    *)
(* behind something that exists, legs have their primary, and every id the *)
(* engine carries from one call to a later one names a real transaction.   *)
THEOREM CarriedIdsAreReal == Spec => []RealInv
  <1>1. TypeInv /\ RealInv /\ [Next]_vars => RealInv'
    BY RemoteReal, TrackedReal, CarriedReal DEF RealInv
  <1> QED BY TypeInit, TypeNext, RealInit, <1>1, PTL DEF Spec

(* Whatever is retried, lost, refused, deleted or forgotten, a tracked row *)
(* names a transaction that exists in YNAB and is not a hidden shadow.     *)
THEOREM TrackedRowsAreReal == Spec => []TrackedIsReal
  <1>1. RealInv => TrackedIsReal
    BY DEF RealInv
  <1> QED BY CarriedIdsAreReal, <1>1, PTL

=============================================================================
