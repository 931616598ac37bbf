-------------------------- MODULE FileImport_proofs --------------------------
(***************************************************************************)
(* Proofs about FileImport for any number of contents, payee names, payees *)
(* and requests under way at once: what a request carries from one call to *)
(* the next stays true whatever the others, the cycle, the sweep and the   *)
(* user do in between, and so a commit that is answered is complete.       *)
(***************************************************************************)
EXTENDS FileImport, TLAPS

(* The payees of the budget, and what no step undoes of them: one that is  *)
(* gone stays gone, one that was made is never unmade, and the names it has*)
(* gone by are kept.                                                       *)
PayeesInv == PayeesTypeOK /\ LearnedRight /\ CalledExist

PayeesGrow ==
  \A q \in PayeeId : /\ payee[q] = "gone" => payee'[q] = "gone"
                     /\ payee[q] # "none" => payee'[q] # "none"
                     /\ called[q] \subseteq called'[q]

-----------------------------------------------------------------------------
(* The payees.                                                             *)

(* Submitting names makes or finds a payee for each.                       *)
LEMMA ResolveNames ==
  ASSUME PayeesInv, NEW D \in SUBSET Name, NEW f \in [D -> PayeeId], Resolve(f)
  PROVE  /\ PayeesGrow
         /\ payee' \in [PayeeId -> {"none", "live", "gone"}]
         /\ nameOf' \in [PayeeId -> Name \cup {None}]
         /\ called' \in [PayeeId -> SUBSET Name]
         /\ \A n \in D : n \in called'[f[n]] /\ payee'[f[n]] = "live"
         /\ \A p \in PayeeId : nameOf'[p] # None => nameOf'[p] \in called'[p]
         /\ CalledExist'
  <1> DEFINE Hit(p) == \E n \in D : f[n] = p
             Hitting(p) == CHOOSE n \in D : f[n] = p
  <1>1. \A p \in PayeeId : payee'[p] = IF Hit(p) THEN "live" ELSE payee[p]
    BY DEF Resolve
  <1>2. \A p \in PayeeId : nameOf'[p] = IF Hit(p) THEN Hitting(p) ELSE nameOf[p]
    BY DEF Resolve
  <1>3. \A p \in PayeeId : called'[p] = called[p] \cup {n \in D : f[n] = p}
    BY DEF Resolve
  <1>4. \A p \in PayeeId : Hit(p) => Hitting(p) \in D /\ f[Hitting(p)] = p
    OBVIOUS
  <1>5. \A p \in PayeeId : Hit(p) => payee[p] \in {"none", "live"}
    BY DEF Resolve, Named, Live
  <1>6. payee' \in [PayeeId -> {"none", "live", "gone"}]
    BY DEF Resolve, PayeesInv, PayeesTypeOK
  <1>7. nameOf' \in [PayeeId -> Name \cup {None}]
    <2>1. \A p \in PayeeId : nameOf'[p] \in Name \cup {None}
      BY <1>2, <1>4 DEF PayeesInv, PayeesTypeOK
    <2> QED BY <2>1 DEF Resolve
  <1>8. called' \in [PayeeId -> SUBSET Name]
    <2>1. \A p \in PayeeId : called'[p] \in SUBSET Name
      BY <1>3 DEF PayeesInv, PayeesTypeOK
    <2> QED BY <2>1 DEF Resolve
  <1>9. PayeesGrow
    BY <1>1, <1>3, <1>5 DEF PayeesGrow
  <1>10. \A n \in D : n \in called'[f[n]] /\ payee'[f[n]] = "live"
    BY <1>1, <1>3
  <1>11. \A p \in PayeeId : nameOf'[p] # None => nameOf'[p] \in called'[p]
    BY <1>2, <1>3, <1>4 DEF PayeesInv, LearnedRight
  <1>12. CalledExist'
    BY <1>1, <1>3 DEF PayeesInv, CalledExist
  <1> QED BY <1>6, <1>7, <1>8, <1>9, <1>10, <1>11, <1>12

(* The invariant of the payees survives a submission of names, ...         *)
LEMMA ResolveKeeps ==
  ASSUME PayeesInv, NEW D \in SUBSET Name, NEW f \in [D -> PayeeId], Resolve(f),
         UNCHANGED <<learned, sweep>>
  PROVE  PayeesInv' /\ PayeesGrow
  <1>1. PayeesTypeOK'
    BY ResolveNames DEF PayeesInv, PayeesTypeOK
  <1>2. LearnedRight'
    <2>1. ASSUME NEW n \in Name, learned'[n] # None PROVE n \in called'[learned'[n]]
      <3>1. learned[n] \in PayeeId /\ n \in called[learned[n]]
        BY <2>1 DEF PayeesInv, PayeesTypeOK, LearnedRight
      <3>2. called[learned[n]] \subseteq called'[learned[n]]
        BY <3>1, ResolveNames DEF PayeesGrow
      <3> QED BY <3>1, <3>2
    <2>2. \A p \in sweep'.gone : payee'[p] = "gone"
      BY ResolveNames DEF PayeesInv, PayeesTypeOK, LearnedRight, PayeesGrow
    <2> QED BY <2>1, <2>2, ResolveNames DEF LearnedRight
  <1> QED BY <1>1, <1>2, ResolveNames DEF PayeesInv

(* ... the learning of a name and the forgetting of a payee, ...           *)
LEMMA LearnedKeeps ==
  ASSUME PayeesInv, NEW n \in Name, NEW p \in PayeeId, n \in called[p],
         learned' = Learned(n, p), UNCHANGED <<payee, nameOf, called, sweep>>
  PROVE  PayeesInv' /\ PayeesGrow
  <1>1. learned' \in [Name -> PayeeId \cup {None}]
    BY DEF PayeesInv, PayeesTypeOK, Learned
  <1>2. \A k \in Name : learned'[k] = learned[k] \/ (k = n /\ learned'[k] = p)
    <2>1. CASE learned[n] = None
      BY <2>1 DEF PayeesInv, PayeesTypeOK, Learned
    <2>2. CASE learned[n] # None
      BY <2>2 DEF Learned
    <2> QED BY <2>1, <2>2
  <1>3. PayeesTypeOK' /\ CalledExist' /\ PayeesGrow
    BY <1>1 DEF PayeesInv, PayeesTypeOK, CalledExist, PayeesGrow
  <1>4. LearnedRight'
    BY <1>2 DEF PayeesInv, LearnedRight
  <1> QED BY <1>3, <1>4 DEF PayeesInv

LEMMA WithoutKeeps ==
  ASSUME PayeesInv, NEW P, learned' = Without(P), UNCHANGED <<payee, nameOf, called>>,
         sweep' \in {sweep, NoSweep}
  PROVE  PayeesInv' /\ PayeesGrow
  <1>1. /\ learned' \in [Name -> PayeeId \cup {None}]
        /\ \A k \in Name : learned'[k] \in {learned[k], None}
    BY DEF PayeesInv, PayeesTypeOK, Without
  <1>2. PayeesTypeOK' /\ CalledExist' /\ PayeesGrow
    BY <1>1 DEF PayeesInv, PayeesTypeOK, CalledExist, PayeesGrow, NoSweep
  <1>3. LearnedRight'
    BY <1>1 DEF PayeesInv, LearnedRight, NoSweep
  <1> QED BY <1>2, <1>3 DEF PayeesInv

(* ... and what the user and the sweep do.                                 *)
LEMMA PayeesNextKeeps ==
  ASSUME PayeesInv, PayeesNext
  PROVE  PayeesInv' /\ PayeesGrow
  <1>1. ASSUME NEW p \in PayeeId, Rename(p) PROVE PayeesInv' /\ PayeesGrow
    <2>1. nameOf' \in [PayeeId -> Name \cup {None}] /\ \A q \in PayeeId : nameOf'[q] \in {nameOf[q], None}
      BY <1>1 DEF PayeesInv, PayeesTypeOK, Rename
    <2> QED BY <1>1, <2>1 DEF PayeesInv, PayeesTypeOK, LearnedRight, CalledExist, PayeesGrow, Rename
  <1>2. ASSUME NEW p \in PayeeId, Vanish(p) PROVE PayeesInv' /\ PayeesGrow
    <2>1. nameOf' \in [PayeeId -> Name \cup {None}] /\ \A q \in PayeeId : nameOf'[q] \in {nameOf[q], None}
      BY <1>2 DEF PayeesInv, PayeesTypeOK, Vanish
    <2>2. /\ payee' \in [PayeeId -> {"none", "live", "gone"}]
          /\ \A q \in PayeeId : payee'[q] = payee[q] \/ payee'[q] = "gone"
      BY <1>2 DEF PayeesInv, PayeesTypeOK, Vanish
    <2>3. UNCHANGED <<called, learned, sweep>>
      BY <1>2 DEF Vanish
    <2>4. PayeesTypeOK'
      BY <2>1, <2>2, <2>3 DEF PayeesInv, PayeesTypeOK
    <2>5. LearnedRight'
      BY <2>1, <2>2, <2>3 DEF PayeesInv, PayeesTypeOK, LearnedRight
    <2>6. CalledExist' /\ PayeesGrow
      BY <2>2, <2>3 DEF PayeesInv, CalledExist, PayeesGrow
    <2> QED BY <2>4, <2>5, <2>6 DEF PayeesInv
  <1>3. ASSUME NEW p \in PayeeId, SweepLookUp(p) PROVE PayeesInv' /\ PayeesGrow
    <2>1. PICK found \in BOOLEAN :
            sweep' = [unsure |-> sweep.unsure \ {p},
                      gone |-> IF found /\ Gone(p) THEN sweep.gone \cup {p} ELSE sweep.gone]
      BY <1>3 DEF SweepLookUp
    <2>2. /\ sweep' \in [unsure : SUBSET PayeeId, gone : SUBSET PayeeId]
          /\ \A q \in sweep'.gone : payee[q] = "gone"
      BY <2>1 DEF PayeesInv, PayeesTypeOK, LearnedRight, Gone
    <2> QED BY <1>3, <2>2 DEF PayeesInv, PayeesTypeOK, LearnedRight, CalledExist, PayeesGrow, SweepLookUp
  <1>4. CASE SweepList
    <2>1. PICK listed \in SUBSET Live : sweep' = [NoSweep EXCEPT !.unsure = Cached \ listed]
      BY <1>4 DEF SweepList
    <2>2. sweep' = [unsure |-> Cached \ listed, gone |-> {}]
      BY <2>1 DEF NoSweep
    <2>3. sweep' \in [unsure : SUBSET PayeeId, gone : SUBSET PayeeId] /\ sweep'.gone = {}
      BY <2>2 DEF Cached
    <2> QED BY <1>4, <2>3 DEF PayeesInv, PayeesTypeOK, LearnedRight, CalledExist, PayeesGrow, SweepList
  <1>5. CASE SweepHeal
    BY <1>5, WithoutKeeps DEF SweepHeal
  <1> QED BY <1>1, <1>2, <1>3, <1>4, <1>5 DEF PayeesNext

-----------------------------------------------------------------------------
(* What requests share: the payees, YNAB's entries and the table.          *)

(* An entry is never unmade or undeleted, nor a shadow brought to light; it*)
(* loses its payee only with it, and a row goes only if the cycle takes it.*)
WorldGrows ==
  /\ PayeesInv' /\ PayeesGrow
  /\ entry' \in [Content -> [state : {"none", "live", "hidden", "deleted"}, payee : PayeeId \cup {None}]]
  /\ \A k \in Content :
       /\ entry[k].state # "none" => entry'[k].state # "none"
       /\ entry[k].state \in {"hidden", "deleted"} => entry'[k].state = entry[k].state
       /\ entry[k].state # "none" /\ entry'[k].state = "live" /\ entry'[k].payee = None
            => entry[k].state = "live" /\ entry[k].payee = None
  /\ row' \in [Content -> Status \cup {"DELETED", NoRow}] /\ taken' \subseteq Content
  /\ \A k \in Content : row[k] # NoRow \/ k \in taken => row'[k] # NoRow \/ k \in taken'
  /\ WrittenOffIsGone'

(* The types of the requests.                                              *)
RequestsOK ==
  /\ pc \in [Client -> {"idle", "post", "record"}]
  /\ sub \in [Client -> {"none", "learn", "forget", "correct", "backfill"}]
  /\ work \in [Client -> SUBSET Work]
  /\ reply \in [Client -> [made : SUBSET Content, new : SUBSET Made, dup : SUBSET Work]]
  /\ cur \in [Client -> Made \cup Found \cup {None}]

(* What a request has of its own, and what is true of it.                  *)
Own(c) == <<pc[c], sub[c], work[c], reply[c], cur[c]>>
Right(c) == CarriedBy(c) /\ AccountedBy(c) /\ RestoringBy(c)

LEMMA InvParts ==
  ImportInv <=> /\ PayeesInv /\ RequestsOK /\ WrittenOffIsGone
                /\ entry \in [Content -> [state : {"none", "live", "hidden", "deleted"},
                                          payee : PayeeId \cup {None}]]
                /\ row \in [Content -> Status \cup {"DELETED", NoRow}] /\ taken \subseteq Content
                /\ \A c \in Client : Right(c)
  BY DEF ImportInv, TypeOK, PayeesInv, RequestsOK, Right, Carried, Accounted, Restoring

LEMMA PayeesSame ==
  ASSUME PayeesInv, UNCHANGED payeeVars
  PROVE  PayeesInv' /\ PayeesGrow
  BY DEF PayeesInv, PayeesTypeOK, LearnedRight, CalledExist, PayeesGrow, payeeVars

(* A step that touches neither entries nor rows.                           *)
LEMMA WorldSame ==
  ASSUME ImportInv, PayeesInv', PayeesGrow, UNCHANGED <<entry, row, taken>>
  PROVE  WorldGrows
  BY InvParts DEF WorldGrows, WrittenOffIsGone

(* A row that is written.                                                  *)
LEMMA RowWritten ==
  ASSUME ImportInv, UNCHANGED <<entry, payeeVars>>, NEW k \in Content,
         NEW s \in Status \cup {"DELETED"},
         s = "DELETED" => entry[k].state = "deleted",
         row' = [row EXCEPT ![k] = s], taken' = taken \ {k}
  PROVE  WorldGrows
  <1>1. s # NoRow
    BY ImportAssumption DEF Status
  <1>2. row' \in [Content -> Status \cup {"DELETED", NoRow}] /\ taken' \subseteq Content
    BY InvParts
  <1>3. \A j \in Content : row'[j] = IF j = k THEN s ELSE row[j]
    BY InvParts
  <1>4. \A j \in Content : row[j] # NoRow \/ j \in taken => row'[j] # NoRow \/ j \in taken'
    BY <1>1, <1>3
  <1>5. WrittenOffIsGone'
    BY <1>3, InvParts DEF WrittenOffIsGone
  <1>6. PayeesInv' /\ PayeesGrow
    BY PayeesSame, InvParts
  <1> QED BY <1>2, <1>4, <1>5, <1>6, InvParts DEF WorldGrows

(* The steps of the user and the cycle.                                    *)
LEMMA UserAndCycle ==
  ASSUME ImportInv, NEW k \in Content, DeleteEntry(k) \/ CycleTakes(k)
  PROVE  WorldGrows
  <1>0. PayeesInv' /\ PayeesGrow
    BY PayeesSame, InvParts DEF DeleteEntry, CycleTakes
  <1>1. CASE DeleteEntry(k)
    <2>1. entry' \in [Content -> [state : {"none", "live", "hidden", "deleted"}, payee : PayeeId \cup {None}]]
      BY <1>1, InvParts DEF DeleteEntry
    <2>2. /\ entry'[k].state = "deleted" /\ entry[k].state = "live"
          /\ \A j \in Content \ {k} : entry'[j] = entry[j]
      BY <1>1, InvParts DEF DeleteEntry
    <2>3. WrittenOffIsGone'
      BY <1>1, <2>2, InvParts DEF WrittenOffIsGone, DeleteEntry
    <2> QED BY <1>0, <1>1, <2>1, <2>2, <2>3, InvParts DEF WorldGrows, DeleteEntry
  <1>2. CASE CycleTakes(k)
    <2>1. /\ row' \in [Content -> Status \cup {"DELETED", NoRow}] /\ taken' = taken \cup {k}
          /\ \A j \in Content : row'[j] = IF j = k THEN NoRow ELSE row[j]
      BY <1>2, InvParts DEF CycleTakes
    <2>2. UNCHANGED entry
      BY <1>2 DEF CycleTakes
    <2>3. WrittenOffIsGone'
      BY <2>1, <2>2, InvParts, ImportAssumption DEF WrittenOffIsGone
    <2>4. taken' \subseteq Content
      BY <2>1, InvParts
    <2>5. \A j \in Content : row[j] # NoRow \/ j \in taken => row'[j] # NoRow \/ j \in taken'
      BY <2>1
    <2> QED BY <1>0, <2>1, <2>2, <2>3, <2>4, <2>5, InvParts DEF WorldGrows
  <1> QED BY <1>1, <1>2

-----------------------------------------------------------------------------
(* What a request that makes no step itself can rely on.                   *)

LEMMA HonestStays ==
  ASSUME ImportInv, PayeesGrow
  PROVE  \A m \in Made : Honest(m) =>
           /\ m.sent = None => m.got # None /\ NameIn[m.key] \in called'[m.got]
           /\ Stale(m) => payee'[m.sent] = "gone"
  BY DEF PayeesGrow, Honest, Stale, Made

LEMMA Unmoved ==
  ASSUME ImportInv, WorldGrows, NEW c \in Client, Own(c)' = Own(c)
  PROVE  Right(c)'
  <1>1. /\ pc'[c] = pc[c] /\ sub'[c] = sub[c] /\ work'[c] = work[c]
        /\ reply'[c] = reply[c] /\ cur'[c] = cur[c]
    BY DEF Own
  <1>2. /\ work[c] \in SUBSET Work /\ reply[c].new \in SUBSET Made
        /\ reply[c].dup \in SUBSET Work /\ reply[c].made \in SUBSET Content
        /\ Right(c)
    BY InvParts DEF RequestsOK
  <1>3. CarriedBy(c)'
    <2>1. \A w \in work[c] : w.sent # None => payee'[w.sent] # "none"
      BY <1>2 DEF Right, CarriedBy, WorldGrows, PayeesGrow, Work
    <2>2. \A m \in reply[c].new : Honest(m)' /\ (m.matched => entry'[m.key].state = "hidden")
      <3>1. \A m \in reply[c].new : Honest(m)'
        BY <1>2, HonestStays DEF Right, CarriedBy, WorldGrows, Honest, Stale
      <3>2. \A m \in reply[c].new : m.matched => entry'[m.key].state = "hidden"
        BY <1>2 DEF Right, CarriedBy, WorldGrows, Made
      <3> QED BY <3>1, <3>2
    <2>3. \A w \in reply[c].dup : entry'[w.key].state # "none" /\ w.key \notin reply[c].made
      BY <1>2 DEF Right, CarriedBy, WorldGrows, Work
    <2>4. \A k \in reply[c].made : entry'[k].state # "none"
      BY <1>2 DEF Right, CarriedBy, WorldGrows
    <2>5. sub[c] = "learn" => cur[c] \in Made /\ Honest(cur[c])' /\ cur[c].sent = None
      BY <1>1, <1>2, HonestStays DEF Right, CarriedBy, WorldGrows, Honest, Stale
    <2>6. sub[c] \in {"forget", "correct"} => cur[c] \in Made /\ Honest(cur[c])' /\ Stale(cur[c])
      BY <1>1, <1>2, HonestStays DEF Right, CarriedBy, WorldGrows, Honest, Stale
    <2>7. sub[c] = "backfill" => cur[c] \in Found /\ (cur[c].status = "DELETED" => entry'[cur[c].key].state = "deleted")
      BY <1>2 DEF Right, CarriedBy, WorldGrows, Found
    <2> QED BY <1>1, <1>2, <2>1, <2>2, <2>3, <2>4, <2>5, <2>6, <2>7 DEF Right, CarriedBy, Stale
  <1>4. AccountedBy(c)'
    <2>1. \A w \in work[c] : row[w.key] # NoRow \/ w.key \in taken => row'[w.key] # NoRow \/ w.key \in taken'
      BY <1>2 DEF WorldGrows, Work
    <2>2. \A w \in work[c] : BeyondReach(c, w.key) => BeyondReach(c, w.key)'
      BY <1>1, <1>2 DEF WorldGrows, Work, BeyondReach
    <2> QED BY <1>1, <1>2, <2>1, <2>2 DEF Right, AccountedBy
  <1>5. RestoringBy(c)'
    <2>1. \A k \in reply[c].made :
             entry'[k].state = "live" /\ entry'[k].payee = None => entry[k].state = "live" /\ entry[k].payee = None
      BY <1>2 DEF Right, CarriedBy, WorldGrows
    <2> QED BY <1>1, <1>2, <2>1 DEF Right, RestoringBy, Stale
  <1> QED BY <1>3, <1>4, <1>5 DEF Right

-----------------------------------------------------------------------------
(* The steps of a request: what it shares grows, what is its own is right, *)
(* and it touches nothing of the others'.                                  *)
StepRight(c) ==
  /\ WorldGrows /\ RequestsOK' /\ Right(c)'
  /\ \A d \in Client \ {c} : Own(d)' = Own(d)

LEMMA UploadRight ==
  ASSUME ImportInv, NEW c \in Client, Upload(c)
  PROVE  StepRight(c)
  <1>1. PICK file \in SUBSET Content : work' = [work EXCEPT ![c] = NewOf(file)]
    BY DEF Upload
  <1>2. /\ pc' = [pc EXCEPT ![c] = "post"] /\ pc[c] = "idle"
        /\ UNCHANGED <<payeeVars, entry, row, taken, sub, reply, cur>>
    BY DEF Upload
  <1>3. WorldGrows
    BY <1>2, PayeesSame, WorldSame, InvParts
  <1>4. NewOf(file) \in SUBSET Work
    BY InvParts, ImportAssumption DEF NewOf, Work, StatusOf, Status, PayeesInv, PayeesTypeOK
  <1>5. RequestsOK'
    BY <1>1, <1>2, <1>4, InvParts DEF RequestsOK
  <1>6. /\ work'[c] = NewOf(file) /\ pc'[c] = "post" /\ sub'[c] = sub[c] /\ reply'[c] = reply[c]
        /\ cur'[c] = cur[c]
    BY <1>1, <1>2, InvParts DEF RequestsOK
  <1>7. Right(c)
    BY InvParts
  <1>8. sub[c] = "none"
    BY <1>2, <1>7, InvParts DEF Right, CarriedBy, RequestsOK
  <1>9. \A w \in NewOf(file) : w.sent # None => payee'[w.sent] # "none"
    BY <1>2, InvParts, ImportAssumption
    DEF NewOf, PayeesInv, PayeesTypeOK, LearnedRight, CalledExist, payeeVars
  <1>10. \A v, w \in NewOf(file) : v.key = w.key => v = w
    BY DEF NewOf
  <1>11. CarriedBy(c)'
    BY <1>2, <1>6, <1>7, <1>8, <1>9, <1>10 DEF Right, CarriedBy, Honest, Stale, payeeVars
  <1>12. AccountedBy(c)'
    BY <1>6 DEF AccountedBy
  <1>13. RestoringBy(c)'
    BY <1>2, <1>6, <1>7 DEF Right, RestoringBy, Stale
  <1>14. \A d \in Client \ {c} : Own(d)' = Own(d)
    BY <1>1, <1>2, InvParts DEF Own, RequestsOK
  <1> QED BY <1>3, <1>5, <1>11, <1>12, <1>13, <1>14 DEF StepRight, Right

(* The end of a request, whichever.                                        *)
LEMMA OverRight ==
  ASSUME ImportInv, NEW c \in Client, Over(c)
  PROVE  StepRight(c)
  <1>1. WorldGrows
    BY PayeesSame, WorldSame, InvParts DEF Over
  <1>2. /\ RequestsOK'
        /\ pc'[c] = "idle" /\ sub'[c] = "none" /\ work'[c] = {} /\ reply'[c] = NoReply
        /\ \A d \in Client \ {c} : Own(d)' = Own(d)
    BY InvParts DEF Over, RequestsOK, Own, NoReply
  <1>3. CarriedBy(c)' /\ AccountedBy(c)' /\ RestoringBy(c)'
    BY <1>2 DEF CarriedBy, AccountedBy, RestoringBy, NoReply
  <1> QED BY <1>1, <1>2, <1>3 DEF StepRight, Right

(* What a create makes of the rows that are new to YNAB.                   *)
LEMMA CreateDoes ==
  ASSUME ImportInv, NEW c \in Client, NEW f \in [NamesSent(work[c]) -> PayeeId],
         NEW matched, Create(c, f, matched)
  PROVE  /\ \A w \in Unused(work[c]) :
              entry'[w.key] = IF w.key \in matched THEN [state |-> "hidden", payee |-> None]
                              ELSE [state |-> "live", payee |-> GotBy(w, f)]
         /\ \A k \in Content :
              (\A w \in Unused(work[c]) : w.key # k) => entry'[k] = entry[k]
         /\ entry' \in [Content -> [state : {"none", "live", "hidden", "deleted"},
                                    payee : PayeeId \cup {None}]]
         /\ reply'[c].made = {w.key : w \in Unused(work[c])}
         /\ reply'[c].new = {[key |-> w.key, status |-> w.status, sent |-> w.sent,
                              got |-> GotBy(w, f), matched |-> w.key \in matched] :
                               w \in Unused(work[c])}
         /\ reply'[c].dup = work[c] \ Unused(work[c])
         /\ reply' \in [Client -> [made : SUBSET Content, new : SUBSET Made, dup : SUBSET Work]]
         /\ \A d \in Client \ {c} : reply'[d] = reply[d]
  <1> DEFINE new == Unused(work[c])
             Rec(w) == [key |-> w.key, status |-> w.status, sent |-> w.sent,
                         got |-> GotBy(w, f), matched |-> w.key \in matched]
             made == {Rec(w) : w \in new}
  <1>1. /\ entry' = [k \in Content |->
                       IF \E w \in new : w.key = k
                       THEN IF k \in matched THEN [state |-> "hidden", payee |-> None]
                            ELSE [state |-> "live", payee |-> (CHOOSE m \in made : m.key = k).got]
                       ELSE entry[k]]
        /\ reply' = [reply EXCEPT ![c] = [made |-> {w.key : w \in new}, new |-> made,
                                          dup |-> work[c] \ new]]
    BY DEF Create
  <1>2. /\ work[c] \in SUBSET Work /\ new \subseteq work[c]
        /\ \A v, w \in work[c] : v.key = w.key => v = w
    BY InvParts DEF RequestsOK, Right, CarriedBy, Unused
  <1>3. ASSUME NEW w \in new PROVE GotBy(w, f) \in PayeeId \cup {None}
    <2>1. w.sent = None => NameIn[w.key] \in NamesSent(work[c])
      BY DEF NamesSent
    <2>2. w.sent \in PayeeId \cup {None}
      BY <1>2 DEF Work
    <2> QED BY <2>1, <2>2 DEF GotBy
  <1>4. ASSUME NEW w \in new PROVE Rec(w) \in Made
    BY <1>2, <1>3 DEF Made, Work
  <1>5. ASSUME NEW w \in new PROVE (CHOOSE m \in made : m.key = w.key) = Rec(w)
    <2>1. Rec(w) \in made /\ Rec(w).key = w.key
      OBVIOUS
    <2>2. \A m \in made : m.key = w.key => m = Rec(w)
      <3>1. SUFFICES ASSUME NEW m \in made, m.key = w.key PROVE m = Rec(w)
        OBVIOUS
      <3>2. PICK v \in new : m = Rec(v)
        OBVIOUS
      <3>3. v.key = w.key
        BY <3>1, <3>2
      <3> QED BY <1>2, <3>2, <3>3
    <2> HIDE DEF made
    <2> QED BY <2>1, <2>2
  <1>6. ASSUME NEW w \in new
        PROVE  entry'[w.key] = IF w.key \in matched THEN [state |-> "hidden", payee |-> None]
                               ELSE [state |-> "live", payee |-> GotBy(w, f)]
    <2>1. w.key \in Content /\ \E v \in new : v.key = w.key
      BY <1>2 DEF Work
    <2>2. entry'[w.key] = IF w.key \in matched THEN [state |-> "hidden", payee |-> None]
                          ELSE [state |-> "live", payee |-> (CHOOSE m \in made : m.key = w.key).got]
      BY <1>1, <2>1
    <2>3. Rec(w).got = GotBy(w, f)
      OBVIOUS
    <2> HIDE DEF made, Rec
    <2> QED BY <2>2, <2>3, <1>5
  <1>7. ASSUME NEW k \in Content, \A w \in new : w.key # k PROVE entry'[k] = entry[k]
    BY <1>1, <1>7
  <1>8. entry' \in [Content -> [state : {"none", "live", "hidden", "deleted"}, payee : PayeeId \cup {None}]]
    <2>1. ASSUME NEW k \in Content
          PROVE  entry'[k] \in [state : {"none", "live", "hidden", "deleted"}, payee : PayeeId \cup {None}]
      <3>1. CASE \E w \in new : w.key = k
        <4>1. PICK w \in new : w.key = k
          BY <3>1
        <4>2. entry'[k] = IF k \in matched THEN [state |-> "hidden", payee |-> None]
                          ELSE [state |-> "live", payee |-> GotBy(w, f)]
          BY <4>1, <1>6
        <4> QED BY <4>1, <4>2, <1>3
      <3>2. CASE \A w \in new : w.key # k
        BY <3>2, <1>7, InvParts
      <3> QED BY <3>1, <3>2
    <2>2. \E g : entry' = [k \in Content |-> g[k]]
      <3>1. entry' = [k \in Content |-> entry'[k]]
        BY <1>1
      <3> QED BY <3>1
    <2> QED BY <2>1, <2>2
  <1>9. [made |-> {w.key : w \in new}, new |-> made, dup |-> work[c] \ new]
          \in [made : SUBSET Content, new : SUBSET Made, dup : SUBSET Work]
    <2>1. {w.key : w \in new} \subseteq Content
      BY <1>2 DEF Work
    <2>2. made \subseteq Made
      BY <1>4
    <2> QED BY <1>2, <2>1, <2>2
  <1>10. reply \in [Client -> [made : SUBSET Content, new : SUBSET Made, dup : SUBSET Work]]
    BY InvParts DEF RequestsOK
  <1>11. reply'[c] = [made |-> {w.key : w \in new}, new |-> made, dup |-> work[c] \ new]
    BY <1>1, <1>10
  <1>12. /\ reply' \in [Client -> [made : SUBSET Content, new : SUBSET Made, dup : SUBSET Work]]
         /\ \A d \in Client \ {c} : reply'[d] = reply[d]
    BY <1>1, <1>9, <1>10
  <1>13. reply'[c].made = {w.key : w \in new} /\ reply'[c].new = made /\ reply'[c].dup = work[c] \ new
    BY <1>11
  <1> QED BY <1>6, <1>7, <1>8, <1>12, <1>13

LEMMA PostRight ==
  ASSUME ImportInv, NEW c \in Client, Post(c)
  PROVE  StepRight(c)
  <1>1. PICK f \in [NamesSent(work[c]) -> PayeeId],
             matched \in SUBSET {w.key : w \in Unused(work[c])} :
          Resolve(f) /\ Create(c, f, matched)
    BY DEF Post
  <1>2. /\ pc[c] = "post" /\ pc' = [pc EXCEPT ![c] = "record"]
        /\ UNCHANGED <<learned, sweep, row, taken, sub, work, cur>>
    BY DEF Post
  <1> DEFINE new == Unused(work[c])
             Rec(w) == [key |-> w.key, status |-> w.status, sent |-> w.sent,
                         got |-> GotBy(w, f), matched |-> w.key \in matched]
  <1>3. /\ work[c] \in SUBSET Work /\ new \subseteq work[c]
        /\ \A w \in new : entry[w.key].state = "none"
        /\ \A w \in work[c] \ new : entry[w.key].state # "none"
        /\ \A w \in work[c] : w.sent # None => payee[w.sent] # "none"
        /\ \A v, w \in work[c] : v.key = w.key => v = w
        /\ sub[c] = "none" /\ sub'[c] = "none"
    BY <1>2, InvParts DEF RequestsOK, Right, CarriedBy, Unused
  <1>4. NamesSent(work[c]) \in SUBSET Name
    BY <1>3, ImportAssumption DEF NamesSent, Unused, Work
  <1>5. PayeesInv' /\ PayeesGrow
    BY <1>1, <1>2, <1>4, ResolveKeeps, InvParts
  <1>6. /\ \A w \in new :
             entry'[w.key] = IF w.key \in matched THEN [state |-> "hidden", payee |-> None]
                             ELSE [state |-> "live", payee |-> GotBy(w, f)]
        /\ \A k \in Content : (\A w \in new : w.key # k) => entry'[k] = entry[k]
        /\ entry' \in [Content -> [state : {"none", "live", "hidden", "deleted"}, payee : PayeeId \cup {None}]]
    BY <1>1, CreateDoes
  <1>7. /\ reply'[c].made = {w.key : w \in new} /\ reply'[c].new = {Rec(w) : w \in new}
        /\ reply'[c].dup = work[c] \ new
        /\ reply' \in [Client -> [made : SUBSET Content, new : SUBSET Made, dup : SUBSET Work]]
        /\ \A d \in Client \ {c} : reply'[d] = reply[d]
    BY <1>1, CreateDoes
  <1>8. \A k \in Content : entry[k].state # "none" => entry'[k] = entry[k]
    BY <1>3, <1>6
  <1>9. ASSUME NEW w \in new
        PROVE  /\ w.key \in matched => entry'[w.key].state = "hidden"
               /\ w.key \notin matched =>
                    entry'[w.key].state = "live" /\ entry'[w.key].payee = GotBy(w, f)
               /\ entry'[w.key].state # "none"
    <2>1. entry'[w.key] = IF w.key \in matched THEN [state |-> "hidden", payee |-> None]
                          ELSE [state |-> "live", payee |-> GotBy(w, f)]
      BY <1>6
    <2> QED BY <2>1
  <1>10. WorldGrows
    <2>1. WrittenOffIsGone'
      BY <1>2, <1>8, InvParts DEF WrittenOffIsGone
    <2> QED BY <1>2, <1>5, <1>6, <1>8, <2>1, InvParts DEF WorldGrows
  <1>11. RequestsOK'
    BY <1>2, <1>7, InvParts DEF RequestsOK
  <1>12. pc'[c] = "record" /\ work'[c] = work[c] /\ cur'[c] = cur[c]
    BY <1>2, InvParts DEF RequestsOK
  <1>13. ASSUME NEW m \in reply'[c].new PROVE Honest(m)'
    <2>0. PICK w \in new : m = Rec(w)
      BY <1>7
    <2>1. w \in Work /\ w.key \in Content /\ w.sent \in PayeeId \cup {None}
      BY <1>3 DEF Work
    <2>2. m.key = w.key /\ m.sent = w.sent /\ m.got = GotBy(w, f)
      BY <2>0
    <2>3. CASE w.sent = None
      <3>1. NameIn[w.key] \in NamesSent(work[c])
        BY <2>3 DEF NamesSent
      <3>2. f[NameIn[w.key]] \in PayeeId /\ NameIn[w.key] \in called'[f[NameIn[w.key]]]
        BY <1>1, <1>4, <3>1, ResolveNames, InvParts
      <3>3. m.got = f[NameIn[w.key]]
        BY <2>2, <2>3 DEF GotBy
      <3> QED BY <2>2, <2>3, <3>2, <3>3, PayeeAssumption DEF Honest, Stale
    <2>4. CASE w.sent # None /\ w.sent \in Live
      <3>1. m.got = w.sent
        BY <2>2, <2>4 DEF GotBy
      <3> QED BY <2>2, <2>4, <3>1 DEF Honest, Stale
    <2>5. CASE w.sent # None /\ w.sent \notin Live
      <3>1. payee[w.sent] = "gone"
        BY <1>3, <2>1, <2>5, InvParts DEF Live, PayeesInv, PayeesTypeOK
      <3>2. payee'[w.sent] = "gone"
        BY <1>5, <2>1, <2>5, <3>1 DEF PayeesGrow
      <3> QED BY <2>2, <2>5, <3>2 DEF Honest, Stale
    <2> QED BY <2>3, <2>4, <2>5
  <1>14. CarriedBy(c)'
    <2>1. \A w \in work'[c] : w.sent # None => payee'[w.sent] # "none"
      BY <1>3, <1>5, <1>12 DEF PayeesGrow, Work
    <2>2. \A v, w \in work'[c] : v.key = w.key => v = w
      BY <1>3, <1>12
    <2>3. \A m \in reply'[c].new : Honest(m)' /\ (m.matched => entry'[m.key].state = "hidden")
      <3>1. ASSUME NEW m \in reply'[c].new, m.matched PROVE entry'[m.key].state = "hidden"
        <4>1. PICK w \in new : m = Rec(w)
          BY <1>7
        <4>2. m.key = w.key /\ w.key \in matched
          BY <3>1, <4>1
        <4> QED BY <1>9, <4>2
      <3> QED BY <1>13, <3>1
    <2>4. \A w \in reply'[c].dup : entry'[w.key].state # "none" /\ w.key \notin reply'[c].made
      BY <1>3, <1>7, <1>8 DEF Work
    <2>5. \A k \in reply'[c].made : entry'[k].state # "none"
      BY <1>7, <1>9
    <2> QED BY <1>3, <1>12, <2>1, <2>2, <2>3, <2>4, <2>5 DEF CarriedBy
  <1>15. AccountedBy(c)'
    <2>1. ASSUME NEW w \in work[c]
          PROVE  w \in reply'[c].dup \/ \E m \in reply'[c].new : m.key = w.key
      <3>1. CASE w \in new
        <4>1. Rec(w) \in reply'[c].new /\ Rec(w).key = w.key
          BY <3>1, <1>7
        <4> QED BY <4>1
      <3>2. CASE w \notin new
        BY <3>2, <1>7
      <3> QED BY <3>1, <3>2
    <2> QED BY <1>12, <2>1 DEF AccountedBy
  <1>16. RestoringBy(c)'
    <2>1. ASSUME NEW w \in new, GotBy(w, f) = None
          PROVE  \E m \in reply'[c].new : m.key = w.key /\ Stale(m)
      <3>1. PICK m \in reply'[c].new : m = Rec(w)
        BY <1>7
      <3>2. m.key = w.key /\ m.sent = w.sent /\ m.got = None
        BY <2>1, <3>1
      <3>3. w.sent # None
        BY <1>13, <3>2 DEF Honest
      <3> QED BY <3>2, <3>3 DEF Stale
    <2>2. ASSUME NEW w \in new, entry'[w.key].state = "live" PROVE entry'[w.key].payee = GotBy(w, f)
      BY <1>9, <2>2
    <2> QED BY <1>7, <2>1, <2>2 DEF RestoringBy, Stale
  <1>17. \A d \in Client \ {c} : Own(d)' = Own(d)
    BY <1>2, <1>7, InvParts DEF Own, RequestsOK
  <1> QED BY <1>10, <1>11, <1>14, <1>15, <1>16, <1>17 DEF StepRight, Right

LEMMA RecordRowRight ==
  ASSUME ImportInv, NEW c \in Client, NEW m \in reply[c].new, RecordRow(c, m)
  PROVE  StepRight(c)
  <1>1. /\ pc[c] = "record" /\ sub[c] = "none"
        /\ row' = [row EXCEPT ![m.key] = m.status] /\ taken' = taken \ {m.key}
        /\ reply' = [reply EXCEPT ![c].new = @ \ {m}]
        /\ sub' = [sub EXCEPT ![c] = CASE m.matched -> "none"
                                       [] ~m.matched /\ m.sent = None -> "learn"
                                       [] ~m.matched /\ Stale(m) -> "forget"
                                       [] OTHER -> "none"]
        /\ cur' = [cur EXCEPT ![c] = IF sub'[c] = "none" THEN None ELSE m]
        /\ UNCHANGED <<payeeVars, entry, pc, work>>
    BY DEF RecordRow
  <1>2. m \in Made /\ m.key \in Content /\ m.status \in Status
    BY InvParts DEF RequestsOK, Made
  <1>3. m.status # "DELETED" /\ m.status # NoRow
    BY <1>2, ImportAssumption DEF Status
  <1>4. WorldGrows
    BY <1>1, <1>2, <1>3, RowWritten
  <1>5. RequestsOK'
    BY <1>1, <1>2, InvParts DEF RequestsOK
  <1>6. /\ pc'[c] = "record" /\ work'[c] = work[c]
        /\ reply'[c].new = reply[c].new \ {m} /\ reply'[c].dup = reply[c].dup
        /\ reply'[c].made = reply[c].made
        /\ sub'[c] = CASE m.matched -> "none"
                       [] ~m.matched /\ m.sent = None -> "learn"
                       [] ~m.matched /\ Stale(m) -> "forget"
                       [] OTHER -> "none"
        /\ cur'[c] = (IF sub'[c] = "none" THEN None ELSE m)
    BY <1>1, InvParts DEF RequestsOK
  <1>7. Right(c) /\ Honest(m) /\ (m.matched => entry[m.key].state = "hidden")
    BY InvParts DEF Right, CarriedBy
  <1>8. UNCHANGED <<payee, called, entry>>
    BY <1>1 DEF payeeVars
  <1>9. \A k \in Content : row'[k] = IF k = m.key THEN m.status ELSE row[k]
    BY <1>1, InvParts
  <1>10. CarriedBy(c)'
    <2>1. \A n \in reply[c].new : Honest(n)'
      BY <1>7, <1>8 DEF Right, CarriedBy, Honest, Stale
    <2>2. sub'[c] = "learn" => cur'[c] = m /\ m.sent = None
      BY <1>6
    <2>3. sub'[c] \in {"forget", "correct"} => cur'[c] = m /\ Stale(m)
      BY <1>6 DEF Stale
    <2>4. sub'[c] # "backfill"
      BY <1>6
    <2>5. Honest(m)'
      BY <2>1
    <2> QED BY <1>2, <1>6, <1>7, <1>8, <2>1, <2>2, <2>3, <2>4, <2>5 DEF Right, CarriedBy, Honest, Stale
  <1>11. AccountedBy(c)'
    <2>1. ASSUME NEW w \in work[c]
          PROVE  \/ row'[w.key] # NoRow \/ w.key \in taken'
                 \/ BeyondReach(c, w.key)'
                 \/ w \in reply'[c].dup \/ \E n \in reply'[c].new : n.key = w.key
      <3>1. w.key \in Content
        BY InvParts DEF RequestsOK, Work
      <3>2. CASE w.key = m.key
        BY <1>3, <1>9, <3>1, <3>2
      <3>3. CASE w.key # m.key
        BY <1>1, <1>6, <1>7, <1>9, <3>1, <3>3 DEF Right, AccountedBy, BeyondReach
      <3> QED BY <3>2, <3>3
    <2> QED BY <1>6, <2>1 DEF AccountedBy
  <1>12. RestoringBy(c)'
    <2>1. ASSUME NEW k \in reply[c].made, entry[k].state = "live", entry[k].payee = None
          PROVE  \/ \E n \in reply'[c].new : n.key = k /\ Stale(n)
                 \/ sub'[c] = "forget" /\ cur'[c].key = k
      <3>1. PICK n \in reply[c].new : n.key = k /\ Stale(n)
        BY <1>1, <1>7, <2>1 DEF Right, RestoringBy
      <3>2. CASE n = m
        <4>1. ~m.matched /\ m.sent # None /\ Stale(m) /\ m.key = k
          BY <1>7, <2>1, <3>1, <3>2 DEF Stale
        <4>2. sub'[c] = "forget"
          BY <1>6, <4>1
        <4> QED BY <1>6, <4>1, <4>2
      <3>3. CASE n # m
        BY <1>6, <3>1, <3>3 DEF Stale
      <3> QED BY <3>2, <3>3
    <2> QED BY <1>6, <1>8, <2>1 DEF RestoringBy, Stale
  <1>13. \A d \in Client \ {c} : Own(d)' = Own(d)
    BY <1>1, InvParts DEF Own, RequestsOK
  <1> QED BY <1>4, <1>5, <1>10, <1>11, <1>12, <1>13 DEF StepRight, Right

(* Where a request has dealt with the row at hand and goes on to the next. *)
LEMMA RowDone ==
  ASSUME ImportInv, WorldGrows, NEW c \in Client,
         pc[c] = "record", sub[c] # "none", sub' = [sub EXCEPT ![c] = "none"],
         cur' = [cur EXCEPT ![c] = None], UNCHANGED <<pc, work, reply>>,
         sub[c] = "backfill" => row'[cur[c].key] # NoRow,
         sub[c] \in {"forget", "correct"} =>
           ~(entry'[cur[c].key].state = "live" /\ entry'[cur[c].key].payee = None)
  PROVE  StepRight(c)
  <1>1. RequestsOK' /\ \A d \in Client \ {c} : Own(d)' = Own(d)
    BY InvParts DEF RequestsOK, Own
  <1>2. /\ pc'[c] = "record" /\ sub'[c] = "none" /\ work'[c] = work[c] /\ reply'[c] = reply[c]
        /\ cur'[c] = None
    BY InvParts DEF RequestsOK
  <1>3. /\ work[c] \in SUBSET Work /\ reply[c].new \in SUBSET Made
        /\ reply[c].dup \in SUBSET Work /\ reply[c].made \in SUBSET Content
        /\ Right(c)
    BY InvParts DEF RequestsOK
  <1>4. CarriedBy(c)'
    <2>1. \A w \in work[c] : w.sent # None => payee'[w.sent] # "none"
      BY <1>3 DEF Right, CarriedBy, WorldGrows, PayeesGrow, Work
    <2>2. \A m \in reply[c].new : Honest(m)' /\ (m.matched => entry'[m.key].state = "hidden")
      <3>1. \A m \in reply[c].new : Honest(m)'
        BY <1>3, HonestStays DEF Right, CarriedBy, WorldGrows, Honest, Stale
      <3>2. \A m \in reply[c].new : m.matched => entry'[m.key].state = "hidden"
        BY <1>3 DEF Right, CarriedBy, WorldGrows, Made
      <3> QED BY <3>1, <3>2
    <2>3. \A w \in reply[c].dup : entry'[w.key].state # "none" /\ w.key \notin reply[c].made
      BY <1>3 DEF Right, CarriedBy, WorldGrows, Work
    <2>4. \A k \in reply[c].made : entry'[k].state # "none"
      BY <1>3 DEF Right, CarriedBy, WorldGrows
    <2> QED BY <1>2, <1>3, <2>1, <2>2, <2>3, <2>4 DEF Right, CarriedBy
  <1>5. AccountedBy(c)'
    <2>1. \A w \in work[c] : row[w.key] # NoRow \/ w.key \in taken => row'[w.key] # NoRow \/ w.key \in taken'
      BY <1>3 DEF WorldGrows, Work
    <2>2. \A w \in work[c] : BeyondReach(c, w.key) => BeyondReach(c, w.key)'
      BY <1>2, <1>3 DEF WorldGrows, Work, BeyondReach
    <2> QED BY <1>2, <1>3, <2>1, <2>2 DEF Right, AccountedBy
  <1>6. RestoringBy(c)'
    <2>1. ASSUME NEW k \in reply[c].made, entry'[k].state = "live", entry'[k].payee = None
          PROVE  \E m \in reply[c].new : m.key = k /\ Stale(m)
      <3>1. entry[k].state = "live" /\ entry[k].payee = None
        BY <1>3, <2>1 DEF Right, CarriedBy, WorldGrows
      <3> QED BY <1>3, <2>1, <3>1 DEF Right, RestoringBy
    <2> QED BY <1>2, <2>1 DEF RestoringBy, Stale
  <1> QED BY <1>1, <1>4, <1>5, <1>6 DEF StepRight, Right

LEMMA LearnPayeeRight ==
  ASSUME ImportInv, NEW c \in Client, LearnPayee(c)
  PROVE  StepRight(c)
  <1>1. /\ sub[c] = "learn" /\ learned' = Learned(NameIn[cur[c].key], cur[c].got)
        /\ sub' = [sub EXCEPT ![c] = "none"] /\ cur' = [cur EXCEPT ![c] = None]
        /\ UNCHANGED <<payee, nameOf, called, sweep, entry, row, taken, pc, work, reply>>
    BY DEF LearnPayee
  <1>2. cur[c] \in Made /\ Honest(cur[c]) /\ cur[c].sent = None /\ pc[c] = "record"
    BY <1>1, InvParts DEF Right, CarriedBy
  <1>3. /\ cur[c].got \in PayeeId /\ NameIn[cur[c].key] \in Name
        /\ NameIn[cur[c].key] \in called[cur[c].got]
    BY <1>2, ImportAssumption DEF Made, Honest
  <1>4. PayeesInv' /\ PayeesGrow
    <2>1. PICK n \in Name, p \in PayeeId : n = NameIn[cur[c].key] /\ p = cur[c].got
      BY <1>3
    <2> QED BY <1>1, <1>3, <2>1, LearnedKeeps, InvParts
  <1>5. WorldGrows
    BY <1>1, <1>4, WorldSame
  <1> QED BY <1>1, <1>2, <1>5, RowDone

LEMMA ForgetPayeeRight ==
  ASSUME ImportInv, NEW c \in Client, ForgetPayee(c)
  PROVE  StepRight(c)
  <1>1. /\ sub[c] = "forget" /\ learned' = Without({cur[c].sent})
        /\ sub' = [sub EXCEPT ![c] = "correct"]
        /\ UNCHANGED <<payee, nameOf, called, sweep, entry, row, taken, pc, work, reply, cur>>
    BY DEF ForgetPayee
  <1>2. PayeesInv' /\ PayeesGrow
    BY <1>1, WithoutKeeps, InvParts
  <1>3. WorldGrows
    BY <1>1, <1>2, WorldSame
  <1>4. RequestsOK' /\ \A d \in Client \ {c} : Own(d)' = Own(d)
    BY <1>1, InvParts DEF RequestsOK, Own
  <1>5. /\ pc'[c] = pc[c] /\ sub'[c] = "correct" /\ work'[c] = work[c] /\ reply'[c] = reply[c]
        /\ cur'[c] = cur[c]
    BY <1>1, InvParts DEF RequestsOK
  <1>6. Right(c)
    BY InvParts
  <1>7. CarriedBy(c)'
    BY <1>1, <1>5, <1>6 DEF Right, CarriedBy, Honest, Stale
  <1>8. AccountedBy(c)' /\ RestoringBy(c)'
    BY <1>1, <1>5, <1>6 DEF Right, AccountedBy, RestoringBy, Stale, BeyondReach
  <1> QED BY <1>3, <1>4, <1>7, <1>8 DEF StepRight, Right

LEMMA CorrectPayeeRight ==
  ASSUME ImportInv, NEW c \in Client, CorrectPayee(c)
  PROVE  StepRight(c)
  <1> DEFINE k == cur[c].key
  <1>1. /\ sub[c] = "correct"
        /\ sub' = [sub EXCEPT ![c] = "none"] /\ cur' = [cur EXCEPT ![c] = None]
        /\ UNCHANGED <<learned, sweep, row, taken, pc, work, reply>>
    BY DEF CorrectPayee
  <1>2. cur[c] \in Made /\ k \in Content /\ pc[c] = "record"
    BY <1>1, InvParts DEF Right, CarriedBy, Made
  <1>3. CASE entry[k].state = "deleted" /\ UNCHANGED <<entry, payee, nameOf, called>>
    <2>1. WorldGrows
      BY <1>1, <1>3, PayeesSame, WorldSame, InvParts DEF payeeVars
    <2> QED BY <1>1, <1>2, <1>3, <2>1, RowDone
  <1>4. CASE /\ entry[k].state = "live"
             /\ \E f \in [{NameIn[k]} -> PayeeId] :
                  Resolve(f) /\ entry' = Corrected(k, f[NameIn[k]])
    <2>1. PICK f \in [{NameIn[k]} -> PayeeId] :
                 Resolve(f) /\ entry' = Corrected(k, f[NameIn[k]])
      BY <1>4
    <2>2. {NameIn[k]} \in SUBSET Name
      BY <1>2, ImportAssumption
    <2>3. PayeesInv' /\ PayeesGrow
      BY <1>1, <2>1, <2>2, ResolveKeeps, InvParts
    <2>4. PICK p \in PayeeId : p = f[NameIn[k]]
      OBVIOUS
    <2>5. entry' = [entry EXCEPT ![k].payee = p]
      BY <2>1, <2>4 DEF Corrected
    <2>6. entry' \in [Content -> [state : {"none", "live", "hidden", "deleted"}, payee : PayeeId \cup {None}]]
      BY <1>2, <2>5, InvParts
    <2>7. /\ entry'[k].state = "live" /\ entry'[k].payee = p
          /\ \A j \in Content \ {k} : entry'[j] = entry[j]
      BY <1>2, <1>4, <2>5, InvParts
    <2>8. p # None
      BY <2>4, PayeeAssumption
    <2>9. WrittenOffIsGone'
      BY <1>1, <1>4, <2>7, InvParts DEF WrittenOffIsGone
    <2>10. WorldGrows
      BY <1>1, <1>4, <2>3, <2>6, <2>7, <2>8, <2>9, InvParts DEF WorldGrows
    <2> QED BY <1>1, <1>2, <2>7, <2>8, <2>10, RowDone
  <1> QED BY <1>3, <1>4 DEF CorrectPayee

LEMMA BackfillRight ==
  ASSUME ImportInv, NEW c \in Client, Backfill(c)
  PROVE  StepRight(c)
  <1>1. /\ sub[c] = "backfill" /\ row' = [row EXCEPT ![cur[c].key] = cur[c].status]
        /\ taken' = taken \ {cur[c].key}
        /\ sub' = [sub EXCEPT ![c] = "none"] /\ cur' = [cur EXCEPT ![c] = None]
        /\ UNCHANGED <<payeeVars, entry, pc, work, reply>>
    BY DEF Backfill
  <1>2. /\ cur[c] \in Found /\ pc[c] = "record"
        /\ cur[c].status = "DELETED" => entry[cur[c].key].state = "deleted"
    BY <1>1, InvParts DEF Right, CarriedBy
  <1>3. cur[c].key \in Content /\ cur[c].status \in Status \cup {"DELETED"}
    BY <1>2 DEF Found
  <1>4. PICK k \in Content, s \in Status \cup {"DELETED"} : k = cur[c].key /\ s = cur[c].status
    BY <1>3
  <1>5. WorldGrows
    BY <1>1, <1>2, <1>4, RowWritten
  <1>6. row'[k] = s /\ s # NoRow
    BY <1>1, <1>4, InvParts, ImportAssumption DEF Status
  <1> QED BY <1>1, <1>2, <1>4, <1>5, <1>6, RowDone

LEMMA LookUpRight ==
  ASSUME ImportInv, NEW c \in Client, NEW w \in reply[c].dup, LookUp(c, w)
  PROVE  StepRight(c)
  <1>1. /\ pc[c] = "record" /\ sub[c] = "none" /\ reply[c].new = {}
        /\ reply' = [reply EXCEPT ![c].dup = @ \ {w}]
        /\ UNCHANGED <<payeeVars, entry, row, taken, pc, work>>
    BY DEF LookUp
  <1> DEFINE it == [key |-> w.key, status |-> Backfilled(w), sent |-> None, got |-> None]
  <1>2. \/ (row[w.key] # NoRow \/ Backfilled(w) = NoRow) /\ UNCHANGED <<sub, cur>>
        \/ Backfilled(w) # NoRow /\ sub' = [sub EXCEPT ![c] = "backfill"] /\ cur' = [cur EXCEPT ![c] = it]
    BY DEF LookUp
  <1>3. w \in Work /\ w.key \in Content /\ w.status \in Status /\ Right(c)
    BY InvParts DEF RequestsOK, Work
  <1>4. /\ entry[w.key].state \in {"live", "hidden", "deleted"} /\ w.key \notin reply[c].made
    <2>1. entry[w.key].state # "none" /\ w.key \notin reply[c].made
      BY <1>3 DEF Right, CarriedBy
    <2>2. entry[w.key].state \in {"none", "live", "hidden", "deleted"}
      BY <1>3, InvParts
    <2> QED BY <2>1, <2>2
  <1>5. /\ Backfilled(w) # NoRow => it \in Found
        /\ it.status = "DELETED" => entry[w.key].state = "deleted"
        /\ Backfilled(w) = NoRow => entry[w.key].state = "hidden"
    <2>1. CASE entry[w.key].state = "live"
      <3>1. Backfilled(w) = w.status
        BY <2>1 DEF Backfilled
      <3> QED BY <1>3, <3>1, ImportAssumption DEF Found, Status
    <2>2. CASE entry[w.key].state = "deleted"
      <3>1. Backfilled(w) = "DELETED"
        BY <2>2 DEF Backfilled
      <3> QED BY <1>3, <2>2, <3>1, ImportAssumption DEF Found, Status
    <2>3. CASE entry[w.key].state = "hidden"
      <3>1. Backfilled(w) = NoRow
        BY <2>3 DEF Backfilled
      <3> QED BY <2>3, <3>1, ImportAssumption
    <2> QED BY <1>4, <2>1, <2>2, <2>3
  <1>6. WorldGrows
    BY <1>1, PayeesSame, WorldSame, InvParts
  <1>7. RequestsOK'
    <2>1. RequestsOK
      BY InvParts
    <2>3. /\ cur' \in [Client -> Made \cup Found \cup {None}]
          /\ sub' \in [Client -> {"none", "learn", "forget", "correct", "backfill"}]
      <3>1. CASE UNCHANGED <<sub, cur>>
        BY <2>1, <3>1 DEF RequestsOK
      <3>2. CASE /\ Backfilled(w) # NoRow /\ sub' = [sub EXCEPT ![c] = "backfill"]
                 /\ cur' = [cur EXCEPT ![c] = it]
        <4>1. PICK i \in Found : i = it
          BY <1>5, <3>2
        <4> QED BY <2>1, <3>2, <4>1 DEF RequestsOK
      <3> QED BY <1>2, <3>1, <3>2
    <2>4. reply' \in [Client -> [made : SUBSET Content, new : SUBSET Made, dup : SUBSET Work]]
      BY <1>1, <2>1 DEF RequestsOK
    <2> QED BY <1>1, <2>1, <2>3, <2>4 DEF RequestsOK
  <1>8. \A d \in Client \ {c} : Own(d)' = Own(d)
    BY <1>1, <1>2, InvParts DEF Own, RequestsOK
  <1>9. /\ pc'[c] = "record" /\ work'[c] = work[c]
        /\ reply'[c].new = {} /\ reply'[c].made = reply[c].made
        /\ reply'[c].dup = reply[c].dup \ {w}
    BY <1>1, InvParts DEF RequestsOK
  <1>10. \/ (row[w.key] # NoRow \/ Backfilled(w) = NoRow) /\ sub'[c] = "none"
         \/ Backfilled(w) # NoRow /\ sub'[c] = "backfill" /\ cur'[c] = it
    BY <1>1, <1>2, InvParts DEF RequestsOK
  <1>11. UNCHANGED <<payee, called, entry, row, taken>>
    BY <1>1 DEF payeeVars
  <1>12. CarriedBy(c)'
    <2>1. sub'[c] = "backfill" =>
            cur'[c] \in Found /\ (cur'[c].status = "DELETED" => entry'[cur'[c].key].state = "deleted")
      BY <1>5, <1>10, <1>11
    <2> HIDE DEF it
    <2> QED BY <1>3, <1>9, <1>10, <1>11, <2>1 DEF Right, CarriedBy
  <1>13. AccountedBy(c)'
    <2>1. ASSUME NEW v \in work[c]
          PROVE  \/ row[v.key] # NoRow \/ v.key \in taken \/ BeyondReach(c, v.key)'
                 \/ v \in reply'[c].dup
                 \/ sub'[c] = "backfill" /\ cur'[c].key = v.key
      <3>1. CASE v = w
        BY <1>4, <1>5, <1>9, <1>10, <1>11, <3>1 DEF BeyondReach
      <3>2. CASE v # w
        BY <1>1, <1>3, <1>9, <3>2 DEF Right, AccountedBy, BeyondReach
      <3> QED BY <3>1, <3>2
    <2> QED BY <1>9, <1>11, <2>1 DEF AccountedBy
  <1>14. RestoringBy(c)'
    BY <1>1, <1>3, <1>9, <1>11 DEF Right, RestoringBy, Stale
  <1> QED BY <1>6, <1>7, <1>8, <1>12, <1>13, <1>14 DEF StepRight, Right

-----------------------------------------------------------------------------
(* The invariant.                                                          *)

LEMMA CrashRight ==
  ASSUME ImportInv, Crash
  PROVE  ImportInv'
  <1>1. PayeesInv' /\ PayeesGrow
    BY InvParts
    DEF Crash, PayeesInv, PayeesTypeOK, LearnedRight, CalledExist, PayeesGrow, NoSweep
  <1>2. WorldGrows
    BY <1>1, WorldSame DEF Crash
  <1>3. RequestsOK'
    BY DEF Crash, RequestsOK, NoReply
  <1>4. ASSUME NEW c \in Client PROVE Right(c)'
    BY DEF Crash, Right, CarriedBy, AccountedBy, RestoringBy, NoReply
  <1> QED BY <1>2, <1>3, <1>4
          DEF WorldGrows, ImportInv, TypeOK, PayeesInv, RequestsOK, Right, Carried, Accounted,
              Restoring

LEMMA InitRight == Init => ImportInv
  <1> SUFFICES ASSUME Init PROVE ImportInv
    OBVIOUS
  <1>1. PayeesInv
    BY PayeeAssumption
    DEF Init, PayeesInit, PayeesInv, PayeesTypeOK, LearnedRight, CalledExist, NoSweep
  <1>2. RequestsOK /\ WrittenOffIsGone
    BY ImportAssumption DEF Init, RequestsOK, NoReply, WrittenOffIsGone
  <1>3. /\ entry \in [Content -> [state : {"none", "live", "hidden", "deleted"}, payee : PayeeId \cup {None}]]
        /\ row \in [Content -> Status \cup {"DELETED", NoRow}] /\ taken \subseteq Content
    BY DEF Init, NoEntry
  <1>4. ASSUME NEW c \in Client PROVE Right(c)
    BY DEF Init, Right, CarriedBy, AccountedBy, RestoringBy, NoReply
  <1> QED BY <1>1, <1>2, <1>3, <1>4, InvParts

(* A step of one request leaves every request right.                       *)
LEMMA RequestRight ==
  ASSUME ImportInv, NEW c \in Client, Request(c)
  PROVE  StepRight(c)
  <1>1. CASE Upload(c)
    BY <1>1, UploadRight
  <1>2. CASE Post(c)
    BY <1>2, PostRight
  <1>3. CASE LearnPayee(c)
    BY <1>3, LearnPayeeRight
  <1>4. CASE ForgetPayee(c)
    BY <1>4, ForgetPayeeRight
  <1>5. CASE CorrectPayee(c)
    BY <1>5, CorrectPayeeRight
  <1>6. CASE \E m \in reply[c].new : RecordRow(c, m)
    BY <1>6, RecordRowRight
  <1>7. CASE \E w \in reply[c].dup : LookUp(c, w)
    BY <1>7, LookUpRight
  <1>8. CASE Backfill(c)
    BY <1>8, BackfillRight
  <1>9. CASE Answer(c) \/ Fail(c)
    BY <1>9, OverRight DEF Answer, Fail
  <1> QED BY <1>1, <1>2, <1>3, <1>4, <1>5, <1>6, <1>7, <1>8, <1>9 DEF Request

LEMMA NextRight == ImportInv /\ [Next]_vars => ImportInv'
  <1> SUFFICES ASSUME ImportInv, [Next]_vars PROVE ImportInv'
    OBVIOUS
  <1>1. ASSUME WorldGrows, RequestsOK', \A d \in Client : Right(d)' PROVE ImportInv'
    BY <1>1 DEF WorldGrows, ImportInv, TypeOK, PayeesInv, RequestsOK, Right, Carried,
                Accounted, Restoring
  <1>2. ASSUME WorldGrows, UNCHANGED requests PROVE ImportInv'
    <2>1. RequestsOK'
      BY <1>2, InvParts DEF RequestsOK, requests
    <2>2. \A d \in Client : Own(d)' = Own(d)
      BY <1>2 DEF Own, requests
    <2>3. \A d \in Client : Right(d)'
      BY <1>2, <2>2, Unmoved
    <2> QED BY <1>1, <1>2, <2>1, <2>3
  <1>3. CASE \E x \in Content : DeleteEntry(x) \/ CycleTakes(x)
    <2>1. UNCHANGED requests
      BY <1>3 DEF DeleteEntry, CycleTakes
    <2> QED BY <1>2, <1>3, <2>1, UserAndCycle
  <1>4. CASE PayeesNext /\ UNCHANGED <<entry, row, taken, requests>>
    BY <1>2, <1>4, PayeesNextKeeps, WorldSame, InvParts
  <1>5. CASE \E c \in Client : Request(c)
    <2>1. PICK c \in Client : Request(c)
      BY <1>5
    <2>2. StepRight(c)
      BY <2>1, RequestRight
    <2>3. ASSUME NEW d \in Client PROVE Right(d)'
      <3>1. CASE d = c
        BY <2>2, <3>1 DEF StepRight
      <3>2. CASE d # c
        BY <2>2, <3>2, Unmoved DEF StepRight
      <3> QED BY <3>1, <3>2
    <2> QED BY <1>1, <2>2, <2>3 DEF StepRight
  <1>6. CASE Crash
    BY <1>6, CrashRight
  <1>7. CASE UNCHANGED vars
    <2>1. UNCHANGED <<payeeVars, entry, row, taken, requests>>
      BY <1>7 DEF vars, payeeVars, requests
    <2> QED BY <1>2, <2>1, PayeesSame, WorldSame, InvParts
  <1> QED BY <1>3, <1>4, <1>5, <1>6, <1>7 DEF Next

(* In every reachable state the payees learned are of the right name, what *)
(* requests carry is still true, rows written off are gone, and every row  *)
(* of a file and every missing payee is accounted for.                     *)
THEOREM ImportInvariant == Spec => []ImportInv
  BY InitRight, NextRight, PTL DEF Spec

(* What is learned for a name was a payee of that name, and the sweep only *)
(* forgets what is gone.                                                   *)
THEOREM LearnedTheorem == Spec => []LearnedRight
  <1>1. ImportInv => LearnedRight
    BY DEF ImportInv
  <1> QED BY <1>1, ImportInvariant, PTL

(* A row is written off as deleted only if the user deleted its entry.     *)
THEOREM WrittenOffTheorem == Spec => []WrittenOffIsGone
  <1>1. ImportInv => WrittenOffIsGone
    BY DEF ImportInv
  <1> QED BY <1>1, ImportInvariant, PTL

-----------------------------------------------------------------------------
(* What the steps may never do.                                            *)

(* A commit that is answered leaves no row of its file untracked but those *)
(* the cycle has taken and the shadows of earlier requests.                *)
THEOREM CommitTheorem == Spec => CommitCompletes
  <1>1. ImportInv /\ [Next]_vars =>
          [\A c \in Client : Answer(c) =>
             \A w \in work[c] :
               row[w.key] # NoRow \/ w.key \in taken \/ BeyondReach(c, w.key)]_vars
    <2> SUFFICES ASSUME ImportInv, NEW c \in Client, Answer(c), NEW w \in work[c]
                 PROVE  row[w.key] # NoRow \/ w.key \in taken \/ BeyondReach(c, w.key)
      OBVIOUS
    <2> QED BY InvParts DEF Answer, Right, AccountedBy
  <1> QED BY <1>1, ImportInvariant, PTL DEF Spec, CommitCompletes

(* What a commit that is answered created has a payee.                     *)
THEOREM PayeeTheorem == Spec => PayeeRestored
  <1>1. ImportInv /\ [Next]_vars =>
          [\A c \in Client : Answer(c) =>
             \A x \in reply[c].made : entry[x].state = "live" => entry[x].payee # None]_vars
    <2> SUFFICES ASSUME ImportInv, NEW c \in Client, Answer(c), NEW x \in reply[c].made,
                        entry[x].state = "live"
                 PROVE  entry[x].payee # None
      OBVIOUS
    <2> QED BY InvParts DEF Answer, Right, RestoringBy
  <1> QED BY <1>1, ImportInvariant, PTL DEF Spec, PayeeRestored

(* A name leads to the same payee as long as that exists.                  *)
THEOREM AnchoredTheorem == Spec => Anchored
  <1>1. ImportInv /\ [Next]_vars =>
          [\A n \in Name : learned[n] # None /\ learned'[n] # learned[n] =>
             payee[learned[n]] = "gone"]_payeeVars
    <2> SUFFICES ASSUME ImportInv, Next, NEW n \in Name, learned[n] # None, learned'[n] # learned[n]
                 PROVE  payee[learned[n]] = "gone"
      BY DEF vars, payeeVars
    <2>1. learned \in [Name -> PayeeId \cup {None}]
      BY InvParts DEF PayeesInv, PayeesTypeOK
    <2>2. ASSUME NEW c \in Client, LearnPayee(c) PROVE FALSE
      <3>1. learned' = Learned(NameIn[cur[c].key], cur[c].got)
        BY <2>2 DEF LearnPayee
      <3>2. CASE learned[NameIn[cur[c].key]] = None
        BY <2>1, <3>1, <3>2 DEF Learned
      <3>3. CASE learned[NameIn[cur[c].key]] # None
        BY <3>1, <3>3 DEF Learned
      <3> QED BY <3>2, <3>3
    <2>3. ASSUME NEW c \in Client, ForgetPayee(c) PROVE payee[learned[n]] = "gone"
      <3>1. learned' = Without({cur[c].sent}) /\ sub[c] = "forget"
        BY <2>3 DEF ForgetPayee
      <3>2. payee[cur[c].sent] = "gone"
        BY <3>1, InvParts DEF Right, CarriedBy, Honest
      <3> QED BY <3>1, <3>2 DEF Without
    <2>4. CASE SweepHeal
      <3>1. learned' = Without(sweep.gone) /\ \A p \in sweep.gone : payee[p] = "gone"
        BY <2>4, InvParts DEF SweepHeal, PayeesInv, LearnedRight
      <3> QED BY <3>1 DEF Without
    <2>5. CASE PayeesNext /\ ~SweepHeal
      BY <2>5 DEF PayeesNext, Rename, Vanish, SweepLookUp, SweepList
    <2>6. ASSUME NEW c \in Client, Request(c), ~LearnPayee(c), ~ForgetPayee(c) PROVE UNCHANGED learned
      BY <2>6 DEF Request, Upload, Post, CorrectPayee, RecordRow, LookUp, Backfill, Answer, Fail,
                  Over, payeeVars
    <2>7. CASE Crash \/ \E x \in Content : DeleteEntry(x) \/ CycleTakes(x)
      BY <2>7 DEF Crash, DeleteEntry, CycleTakes, payeeVars
    <2> QED BY <2>2, <2>3, <2>4, <2>5, <2>6, <2>7 DEF Next
  <1> QED BY <1>1, ImportInvariant, PTL DEF Spec, Anchored
=============================================================================
