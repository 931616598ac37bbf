---------------------------- MODULE Readd_proofs ----------------------------
(***************************************************************************)
(* Proofs about Readd for any number of rows, clients and re-adds: however *)
(* requests overlap, the import_ids are spent in order, one request takes  *)
(* effect, and the register shows one entry of a row.                      *)
(***************************************************************************)
EXTENDS Readd, TLAPS

-----------------------------------------------------------------------------
(* Lemmas about steps that leave much as it is.                            *)

LEMMA Typed1 ==
  ASSUME TypeOK
  PROVE  /\ \A r \in Row : /\ table[r].status \in {"PENDING", "BOOKED", "DELETED"}
                           /\ table[r].id \in Entry /\ table[r].count \in Nth
                           /\ table[r].count \in Nat /\ table[r].cleared \in BOOLEAN
         /\ \A r \in Row, e \in Entry : /\ ynab[r][e] \in {"none", "live", "hidden", "deleted"}
                                        /\ cleared[r][e] \in BOOLEAN
         /\ \A c \in Client : task[c] # None =>
              /\ task[c] \in Task /\ task[c].row \in Row /\ task[c].nth \in Nth
              /\ task[c].nth \in Nat /\ task[c].matched \in BOOLEAN
         /\ \A r \in Row : fix[r] # None => fix[r] \in Entry
         /\ \A n \in Nth : n \in Nat /\ n # Typed /\ n \in Entry
         /\ Typed \in Entry
  <1>1. /\ \A n \in Nth : n \in Nat /\ n # Typed /\ n \in Entry
        /\ Typed \in Entry
    BY ReaddAssumption DEF Nth, Entry
  <1>2. \A r \in Row : /\ table[r].status \in {"PENDING", "BOOKED", "DELETED"}
                       /\ table[r].id \in Entry /\ table[r].count \in Nth
                       /\ table[r].cleared \in BOOLEAN
    BY DEF TypeOK
  <1>3. \A r \in Row, e \in Entry : /\ ynab[r][e] \in {"none", "live", "hidden", "deleted"}
                                    /\ cleared[r][e] \in BOOLEAN
    BY DEF TypeOK
  <1>4. \A c \in Client : task[c] # None =>
          /\ task[c] \in Task /\ task[c].row \in Row /\ task[c].nth \in Nth
          /\ task[c].matched \in BOOLEAN
    <2>1. \A c \in Client : task[c] # None => task[c] \in Task
      BY DEF TypeOK
    <2>2. \A t \in Task : t.row \in Row /\ t.nth \in Nth /\ t.matched \in BOOLEAN
      BY DEF Task
    <2> QED BY <2>1, <2>2
  <1>5. \A r \in Row : fix[r] # None => fix[r] \in Entry
    BY DEF TypeOK
  <1> QED BY <1>1, <1>2, <1>3, <1>4, <1>5

(* What only the table and the entries tell stays when these do.           *)
LEMMA Steady ==
  ASSUME ReaddInv, UNCHANGED <<ynab, cleared, table, overwritten>>
  PROVE  IdsSpent' /\ RowNamesEntry' /\ ShadowsHide' /\ ShownRight'
  BY DEF ReaddInv, IdsSpent, RowNamesEntry, ShadowsHide, ShownRight, Shown, Unrecorded

(* Requests that end, by failure or crash, leave the others right.         *)
LEMMA RequestsEnd ==
  ASSUME ReaddInv, UNCHANGED <<ynab, cleared, table>>,
         \A c \in Client : task'[c] = task[c] \/ task'[c] = None
  PROVE  Requesting' /\ Answered'
  BY DEF ReaddInv, Requesting, Answered, Recording, AtNext, VisibleId

-----------------------------------------------------------------------------
(* The bank, the user and the cycle.                                       *)

LEMMA SettleKeeps ==
  ASSUME ReaddInv, NEW r \in Row, Settle(r)
  PROVE  ReaddInv'
  <1>1. TypeOK' /\ UNCHANGED <<ynab, cleared, table, task, fix, overwritten>>
    BY DEF Settle, ReaddInv, TypeOK
  <1>2. Correctable'
    BY <1>1 DEF ReaddInv, Correctable
  <1> QED BY <1>1, <1>2, Steady, RequestsEnd DEF ReaddInv

LEMMA UserDeletesKeeps ==
  ASSUME ReaddInv, NEW r \in Row, NEW e \in Entry, UserDeletes(r, e)
  PROVE  ReaddInv'
  <1>1. /\ ynab[r][e] = "live" /\ ynab' = [ynab EXCEPT ![r][e] = "deleted"]
        /\ UNCHANGED <<settled, cleared, table, task, fix, overwritten>>
    BY DEF UserDeletes
  <1>2. TypeOK
    BY DEF ReaddInv
  <1>3. TypeOK'
    BY <1>1, <1>2 DEF TypeOK
  <1>4. \A q \in Row, f \in Entry : ynab'[q][f] = IF q = r /\ f = e THEN "deleted" ELSE ynab[q][f]
    BY <1>1, <1>2 DEF TypeOK
  <1>5. \A q \in Row, f \in Entry :
          /\ ynab'[q][f] = "none" <=> ynab[q][f] = "none"
          /\ ynab'[q][f] = "hidden" <=> ynab[q][f] = "hidden"
          /\ ynab'[q][f] = "live" => ynab[q][f] = "live"
          /\ ynab[q][f] \in {"live", "deleted"} => ynab'[q][f] \in {"live", "deleted"}
    BY <1>1, <1>4
  <1>6. IdsSpent' /\ ShadowsHide'
    BY <1>1, <1>2, <1>5, Typed1 DEF ReaddInv, IdsSpent, ShadowsHide
  <1>7. Requesting'
    BY <1>1 DEF ReaddInv, Requesting, AtNext
  <1>8. Answered'
    <2>1. ASSUME NEW c \in Client, Recording(c)
          PROVE  /\ task[c].row \in Row /\ task[c].nth \in Entry /\ VisibleId(task[c]) \in Entry
      BY <1>2, <2>1, Typed1 DEF Recording, VisibleId
    <2> QED BY <1>1, <1>5, <2>1 DEF ReaddInv, Answered, Recording, AtNext, VisibleId
  <1>9. Correctable' /\ RowNamesEntry'
    BY <1>1, <1>2, <1>5, Typed1 DEF ReaddInv, Correctable, RowNamesEntry
  <1>10. ShownRight'
    <2>1. \A q \in Row : Shown(q)' \subseteq Shown(q)
      BY <1>2, <1>5, Typed1 DEF Shown
    <2>2. \A q \in Row, f \in Entry : Unrecorded(q, f) => Unrecorded(q, f)'
      BY <1>1, <1>2, <1>5, Typed1 DEF Unrecorded
    <2>3. \A q \in Row : Shown(q) \subseteq Entry
      BY DEF Shown
    <2> QED BY <1>1, <2>1, <2>2, <2>3 DEF ReaddInv, ShownRight
  <1> QED BY <1>3, <1>6, <1>7, <1>8, <1>9, <1>10 DEF ReaddInv

LEMMA UserTypesKeeps ==
  ASSUME ReaddInv, NEW r \in Row, UserTypes(r)
  PROVE  ReaddInv'
  <1>1. /\ ynab[r][Typed] = "none" /\ table[r].status = "DELETED" /\ Undisturbed(r)
        /\ ynab' = [ynab EXCEPT ![r][Typed] = "live"]
        /\ UNCHANGED <<settled, cleared, table, task, fix, overwritten>>
    BY DEF UserTypes
  <1>2. TypeOK
    BY DEF ReaddInv
  <1>3. TypeOK'
    BY <1>1, <1>2, Typed1 DEF TypeOK
  <1>4. \A q \in Row, f \in Entry : ynab'[q][f] = IF q = r /\ f = Typed THEN "live" ELSE ynab[q][f]
    BY <1>1, <1>2, Typed1 DEF TypeOK
  <1>5. \A q \in Row, n \in Nth : ynab'[q][n] = ynab[q][n]
    BY <1>2, <1>4, Typed1
  <1>6. IdsSpent' /\ ShadowsHide'
    BY <1>1, <1>2, <1>4, <1>5, Typed1 DEF ReaddInv, IdsSpent, ShadowsHide
  <1>7. Requesting'
    BY <1>1 DEF ReaddInv, Requesting, AtNext
  <1>8. Answered'
    <2>1. ASSUME NEW c \in Client, Recording(c)
          PROVE  /\ task[c].row \in Row /\ task[c].row # r
                 /\ task[c].nth \in Entry /\ VisibleId(task[c]) \in Entry
      BY <1>1, <1>2, <2>1, Typed1 DEF Recording, VisibleId, Undisturbed
    <2> QED BY <1>1, <1>4, <2>1 DEF ReaddInv, Answered, Recording, AtNext, VisibleId
  <1>9. Correctable' /\ RowNamesEntry'
    BY <1>1, <1>2, <1>4, Typed1 DEF ReaddInv, Correctable, RowNamesEntry, Undisturbed
  <1>10. ShownRight'
    <2>1. \A q \in Row : Shown(q)' \subseteq Shown(q)
      <3>1. \A n \in Nth : ynab[r][n] # "hidden"
        BY <1>1 DEF ReaddInv, ShadowsHide
      <3> QED BY <1>2, <1>4, <1>5, <3>1, Typed1 DEF Shown
    <2>2. \A q \in Row, f \in Entry : Unrecorded(q, f) => Unrecorded(q, f)'
      BY <1>1, <1>5 DEF Unrecorded
    <2>3. \A q \in Row : Shown(q) \subseteq Entry
      BY DEF Shown
    <2> QED BY <1>1, <2>1, <2>2, <2>3 DEF ReaddInv, ShownRight
  <1> QED BY <1>3, <1>6, <1>7, <1>8, <1>9, <1>10 DEF ReaddInv

LEMMA ClassifyKeeps ==
  ASSUME ReaddInv, NEW r \in Row, Classify(r)
  PROVE  ReaddInv'
  <1>1. /\ table[r].status = "PENDING" /\ fix' = [fix EXCEPT ![r] = table[r].id]
        /\ UNCHANGED <<settled, ynab, cleared, table, task, overwritten>>
    BY DEF Classify
  <1>2. TypeOK' /\ \A q \in Row : fix'[q] = IF q = r THEN table[r].id ELSE fix[q]
    BY <1>1, Typed1 DEF ReaddInv, TypeOK
  <1>3. Correctable'
    BY <1>1, <1>2 DEF ReaddInv, Correctable, RowNamesEntry
  <1> QED BY <1>1, <1>2, <1>3, Steady, RequestsEnd DEF ReaddInv

LEMMA CorrectKeeps ==
  ASSUME ReaddInv, NEW r \in Row, Correct(r)
  PROVE  ReaddInv'
  <1> DEFINE there == ynab[r][fix[r]] = "live"
  <1>1. /\ fix[r] # None
        /\ cleared' = IF there THEN [cleared EXCEPT ![r][fix[r]] = TRUE] ELSE cleared
        /\ table' = [table EXCEPT ![r] =
             IF there THEN [table[r] EXCEPT !.status = "BOOKED", !.cleared = TRUE]
                      ELSE [table[r] EXCEPT !.status = "DELETED", !.id = fix[r]]]
        /\ overwritten' = IF ~there /\ table[r].id # fix[r] THEN overwritten \cup {r}
                          ELSE overwritten
        /\ fix' = [fix EXCEPT ![r] = None] \/ fix' = fix
        /\ UNCHANGED <<settled, ynab, task>>
    BY DEF Correct
  <1>2. TypeOK /\ fix[r] \in Entry
    BY <1>1, Typed1 DEF ReaddInv
  <1>3. TypeOK'
    <2> DEFINE Rows == [status : {"PENDING", "BOOKED", "DELETED"}, id : Entry,
                        count : Nth, cleared : BOOLEAN]
    <2>0. table[r] \in Rows /\ table \in [Row -> Rows]
      BY <1>2 DEF TypeOK
    <2>1. table' \in [Row -> Rows]
      <3>1. [table[r] EXCEPT !.status = "BOOKED", !.cleared = TRUE] \in Rows
        BY <2>0
      <3>2. [table[r] EXCEPT !.status = "DELETED", !.id = fix[r]] \in Rows
        BY <1>2, <2>0
      <3> HIDE DEF Rows
      <3> QED BY <1>1, <2>0, <3>1, <3>2
    <2>2. cleared' \in [Row -> [Entry -> BOOLEAN]]
      BY <1>1, <1>2 DEF TypeOK
    <2>3. overwritten' \subseteq Row /\ fix' \in [Row -> Entry \cup {None}]
      BY <1>1, <1>2 DEF TypeOK
    <2> QED BY <1>1, <1>2, <2>1, <2>2, <2>3 DEF TypeOK
  <1>4. /\ \A q \in Row \ {r} : table'[q] = table[q]
        /\ table'[r].count = table[r].count
        /\ there => /\ table'[r].status = "BOOKED" /\ table'[r].id = table[r].id
                    /\ table[r].id = fix[r] /\ table[r].status # "DELETED"
        /\ ~there => table'[r].status = "DELETED" /\ table'[r].cleared = table[r].cleared
    <2>1. /\ \A q \in Row \ {r} : table'[q] = table[q]
          /\ table'[r] = IF there THEN [table[r] EXCEPT !.status = "BOOKED", !.cleared = TRUE]
                         ELSE [table[r] EXCEPT !.status = "DELETED", !.id = fix[r]]
      BY <1>1, <1>2 DEF TypeOK
    <2>2. table[r] \in [status : {"PENDING", "BOOKED", "DELETED"}, id : Entry,
                        count : Nth, cleared : BOOLEAN]
      BY <1>2 DEF TypeOK
    <2>3. there => table[r].id = fix[r] /\ table[r].status # "DELETED"
      BY <1>1 DEF ReaddInv, Correctable
    <2> HIDE DEF there
    <2>4. CASE there
      BY <2>1, <2>2, <2>3, <2>4
    <2>5. CASE ~there
      BY <2>1, <2>2, <2>5
    <2> QED BY <2>1, <2>4, <2>5
  <1>5. /\ \A q \in Row, f \in Entry : cleared[q][f] => cleared'[q][f]
        /\ there => cleared'[r][fix[r]]
    BY <1>1, <1>2 DEF TypeOK
  <1>6. \A q \in Row : fix'[q] = fix[q] \/ fix'[q] = None
    BY <1>1, <1>2 DEF TypeOK
  <1> HIDE DEF there
  <1>7. IdsSpent'
    BY <1>1, <1>4 DEF ReaddInv, IdsSpent
  <1>8. Requesting'
    <2>1. \A c \in Client : task[c] # None => task[c].row \in Row
      BY <1>2, Typed1
    <2>2. \A q \in Row : /\ table'[q].count = table[q].count
                         /\ table[q].status = "DELETED" =>
                              table'[q].status = "DELETED" /\ table'[q].cleared = table[q].cleared
      BY <1>4
    <2>3. ASSUME NEW c \in Client, task[c] # None
          PROVE  /\ task[c].nth <= table'[task[c].row].count + 1
                 /\ task[c].nth = table'[task[c].row].count + 1 =>
                      /\ table'[task[c].row].status = "DELETED"
                      /\ task[c].cleared = table'[task[c].row].cleared
      BY <2>1, <2>2, <2>3 DEF ReaddInv, Requesting, AtNext
    <2> QED BY <1>1, <2>3 DEF Requesting, AtNext
  <1>9. Answered'
    <2>1. ASSUME NEW c \in Client, Recording(c)
          PROVE  task[c].row \in Row /\ VisibleId(task[c]) \in Entry
      BY <1>2, <2>1, Typed1 DEF Recording, VisibleId
    <2>2. \A q \in Row : table'[q].count = table[q].count
      BY <1>4
    <2> QED BY <1>1, <1>5, <2>1, <2>2 DEF ReaddInv, Answered, Recording, AtNext, VisibleId
  <1>10. Correctable'
    BY <1>1, <1>4, <1>6 DEF ReaddInv, Correctable, there
  <1>11. RowNamesEntry'
    <2>1. ASSUME NEW q \in Row, table'[q].status # "DELETED"
          PROVE  /\ ynab'[q][table'[q].id] \in {"live", "deleted"}
                 /\ table'[q].status = "BOOKED" => cleared'[q][table'[q].id]
      <3>1. CASE q = r
        BY <1>1, <1>4, <1>5, <2>1, <3>1 DEF there
      <3>2. CASE q # r
        BY <1>1, <1>2, <1>4, <1>5, <2>1, <3>2, Typed1 DEF ReaddInv, RowNamesEntry
      <3> QED BY <3>1, <3>2
    <2> QED BY <2>1 DEF RowNamesEntry
  <1>12. ShadowsHide'
    BY <1>1 DEF ReaddInv, ShadowsHide
  <1>13. ShownRight'
    <2>1. ASSUME NEW q \in Row \ overwritten', NEW e \in Shown(q)'
          PROVE  IF table'[q].status = "DELETED" THEN Unrecorded(q, e)' ELSE e = table'[q].id
      <3>1. e \in Shown(q) /\ ynab[q][e] = "live" /\ q \notin overwritten
        BY <1>1, <2>1 DEF Shown
      <3>2. IF table[q].status = "DELETED" THEN Unrecorded(q, e) ELSE e = table[q].id
        BY <3>1 DEF ReaddInv, ShownRight
      <3>3. Unrecorded(q, e) => Unrecorded(q, e)'
        BY <1>1, <1>4 DEF Unrecorded
      <3>4. CASE q = r /\ ~there
        BY <1>1, <1>4, <3>1, <3>2, <3>3, <3>4 DEF there
      <3>5. CASE q = r /\ there
        BY <1>4, <3>2, <3>5
      <3>6. CASE q # r
        BY <1>4, <3>2, <3>3, <3>6
      <3> QED BY <3>4, <3>5, <3>6
    <2> QED BY <2>1 DEF ShownRight
  <1> QED BY <1>3, <1>7, <1>8, <1>9, <1>10, <1>11, <1>12, <1>13 DEF ReaddInv

-----------------------------------------------------------------------------
(* The steps of a request.                                                 *)

LEMMA StartKeeps ==
  ASSUME ReaddInv, NEW c \in Client, NEW r \in Row, Start(c, r)
  PROVE  ReaddInv'
  <1> DEFINE t == [row |-> r, nth |-> NextNth(r), step |-> "post",
                   cleared |-> table[r].cleared, matched |-> FALSE]
  <1>1. /\ table[r].status = "DELETED" /\ NextNth(r) \in Nth
        /\ task' = [task EXCEPT ![c] = t]
        /\ UNCHANGED <<settled, ynab, cleared, table, fix, overwritten>>
    BY DEF Start
  <1>2. TypeOK
    BY DEF ReaddInv
  <1>3. t \in Task /\ TypeOK'
    <2>1. t \in Task
      BY <1>1, <1>2, Typed1 DEF Task
    <2> QED BY <1>1, <1>2, <2>1 DEF TypeOK
  <1>4. \A d \in Client : task'[d] = IF d = c THEN t ELSE task[d]
    BY <1>1, <1>2 DEF TypeOK
  <1>5. Requesting'
    <2>1. /\ task'[c].row = r /\ task'[c].nth = table[r].count + 1
          /\ task'[c].cleared = table[r].cleared /\ task'[c].nth <= table[r].count + 1
      BY <1>2, <1>4, Typed1 DEF NextNth
    <2>2. /\ task'[c].nth <= table'[task'[c].row].count + 1
          /\ table'[task'[c].row].status = "DELETED"
          /\ task'[c].cleared = table'[task'[c].row].cleared
      BY <1>1, <2>1
    <2>3. \A d \in Client \ {c} : task'[d] = task[d]
      BY <1>4
    <2> QED BY <1>1, <2>2, <2>3 DEF ReaddInv, Requesting, AtNext
  <1>6. Answered'
    <2>1. \A d \in Client : Recording(d)' => d # c /\ Recording(d) /\ task'[d] = task[d]
      BY <1>4 DEF Recording
    <2> QED BY <1>1, <2>1 DEF ReaddInv, Answered, AtNext, VisibleId
  <1>7. Correctable'
    BY <1>1 DEF ReaddInv, Correctable
  <1> QED BY <1>1, <1>3, <1>5, <1>6, <1>7, Steady DEF ReaddInv

LEMMA PostFailsKeeps ==
  ASSUME ReaddInv, NEW c \in Client, PostFails(c)
  PROVE  ReaddInv'
  <1>1. /\ task' = [task EXCEPT ![c] = None]
        /\ UNCHANGED <<settled, ynab, cleared, table, fix, overwritten>>
    BY DEF PostFails
  <1>2. TypeOK' /\ \A d \in Client : task'[d] = task[d] \/ task'[d] = None
    BY <1>1 DEF ReaddInv, TypeOK
  <1>3. Correctable'
    BY <1>1 DEF ReaddInv, Correctable
  <1> QED BY <1>1, <1>2, <1>3, Steady, RequestsEnd DEF ReaddInv

LEMMA CrashKeeps ==
  ASSUME ReaddInv, Crash
  PROVE  ReaddInv'
  <1>1. /\ task' = [c \in Client |-> None] /\ fix' = [r \in Row |-> None]
        /\ UNCHANGED <<settled, ynab, cleared, table, overwritten>>
    BY DEF Crash
  <1>2. TypeOK' /\ Correctable' /\ \A d \in Client : task'[d] = None
    BY <1>1 DEF ReaddInv, TypeOK, Correctable
  <1> QED BY <1>1, <1>2, Steady, RequestsEnd DEF ReaddInv

(* YNAB takes a number only when it is the row's next one.                 *)
LEMMA NewIsNext ==
  ASSUME ReaddInv, NEW c \in Client, task[c] # None, New(task[c])
  PROVE  /\ AtNext(c) /\ table[task[c].row].status = "DELETED"
         /\ \A d \in Client : Recording(d) => task[d].row # task[c].row
  <1>1. TypeOK
    BY DEF ReaddInv
  <1>2. /\ task[c].row \in Row /\ task[c].nth \in Nth
        /\ task[c].nth \in Nat /\ table[task[c].row].count \in Nat
    BY <1>1, Typed1
  <1>3. ~(task[c].nth <= table[task[c].row].count)
    BY <1>2 DEF ReaddInv, IdsSpent, New
  <1>4. AtNext(c)
    BY <1>2, <1>3 DEF ReaddInv, Requesting, AtNext
  <1> QED BY <1>4 DEF ReaddInv, Requesting, Answered, AtNext, New

LEMMA PostKeeps ==
  ASSUME ReaddInv, NEW c \in Client, Post(c)
  PROVE  ReaddInv'
  <1>1. PICK r \in Row, n \in Nth, k \in BOOLEAN :
          task[c].row = r /\ task[c].nth = n /\ task[c].cleared = k
    BY Typed1 DEF ReaddInv, Post, Posting, Task
  <1>2. PICK m \in BOOLEAN : m <=> Matched(task[c])
    OBVIOUS
  <1>3. PICK e \in Entry : e = IF m THEN Typed ELSE n
    BY Typed1 DEF ReaddInv
  <1>4. /\ task[c] # None /\ task[c].step = "post" /\ ynab[r][n] = "none"
        /\ m <=> ynab[r][Typed] = "live"
        /\ ynab' = [ynab EXCEPT ![r][n] = IF m THEN "hidden" ELSE "live"]
        /\ cleared' = [cleared EXCEPT ![r][e] = k \/ m]
        /\ \/ task' = [task EXCEPT ![c].step = "record", ![c].matched = m]
           \/ task' = [task EXCEPT ![c] = None]
        /\ UNCHANGED <<settled, table, fix, overwritten>>
    BY <1>1, <1>2, <1>3 DEF Post, Posting, New, Matched
  <1>5. TypeOK /\ task[c] \in Task
    BY <1>4, Typed1 DEF ReaddInv
  <1>6. /\ n = table[r].count + 1 /\ table[r].status = "DELETED" /\ k = table[r].cleared
        /\ \A d \in Client : Recording(d) => task[d].row # r
    BY <1>1, <1>4, NewIsNext DEF New, AtNext, ReaddInv, Requesting
  <1>7. /\ \A q \in Row, f \in Entry :
             ynab'[q][f] = IF q = r /\ f = n THEN IF m THEN "hidden" ELSE "live" ELSE ynab[q][f]
        /\ \A q \in Row, f \in Entry :
             cleared'[q][f] = IF q = r /\ f = e THEN k \/ m ELSE cleared[q][f]
    BY <1>4, <1>5, Typed1 DEF TypeOK
  <1>8. /\ \A d \in Client \ {c} : task'[d] = task[d]
        /\ \/ task'[c] = None
           \/ /\ task'[c] # None /\ task'[c] \in Task /\ task'[c].step = "record"
              /\ task'[c].row = r /\ task'[c].nth = n /\ task'[c].cleared = k
              /\ task'[c].matched = m
    <2>1. CASE task' = [task EXCEPT ![c] = None]
      BY <1>5, <2>1 DEF TypeOK
    <2>2. CASE task' = [task EXCEPT ![c].step = "record", ![c].matched = m]
      <3>1. /\ \A d \in Client \ {c} : task'[d] = task[d]
            /\ task'[c] = [task[c] EXCEPT !.step = "record", !.matched = m]
        BY <1>5, <2>2 DEF TypeOK
      <3>2. /\ task'[c] \in Task /\ task'[c].step = "record" /\ task'[c].matched = m
            /\ task'[c].row = r /\ task'[c].nth = n /\ task'[c].cleared = k
        BY <1>1, <1>5, <3>1 DEF Task
      <3> QED BY <3>1, <3>2
    <2> QED BY <1>4, <2>1, <2>2
  <1>9. TypeOK'
    <2>1. ynab' \in [Row -> [Entry -> {"none", "live", "hidden", "deleted"}]]
      BY <1>4, <1>5, Typed1 DEF TypeOK
    <2>2. cleared' \in [Row -> [Entry -> BOOLEAN]]
      BY <1>4, <1>5 DEF TypeOK
    <2>3. task' \in [Client -> Task \cup {None}]
      BY <1>4, <1>5, <1>8 DEF TypeOK
    <2> QED BY <1>4, <1>5, <2>1, <2>2, <2>3 DEF TypeOK
  <1>10. IdsSpent'
    BY <1>4, <1>5, <1>6, <1>7, Typed1 DEF ReaddInv, IdsSpent
  <1>11. Requesting'
    <2>1. \A q \in Row : table[q].count + 1 <= table[q].count + 1
      BY <1>5, Typed1
    <2> QED BY <1>4, <1>6, <1>8, <2>1 DEF ReaddInv, Requesting, AtNext
  <1>12. Answered'
    <2>1. ASSUME NEW d \in Client, Recording(d), d # c
          PROVE  /\ task[d].row \in Row \ {r} /\ task[d].nth \in Entry
                 /\ VisibleId(task[d]) \in Entry
      BY <1>5, <1>6, <2>1, Typed1 DEF Recording, VisibleId
    <2>2. ASSUME NEW d \in Client, Recording(d)', d # c
          PROVE  /\ AtNext(d)'
                 /\ ynab'[task'[d].row][task'[d].nth] # "none"
                 /\ task'[d].matched <=> ynab'[task'[d].row][task'[d].nth] = "hidden"
                 /\ ynab'[task'[d].row][VisibleId(task'[d])] \in {"live", "deleted"}
                 /\ task'[d].cleared => cleared'[task'[d].row][VisibleId(task'[d])]
      BY <1>4, <1>7, <1>8, <2>1, <2>2 DEF ReaddInv, Answered, Recording, AtNext, VisibleId
    <2>3. ASSUME Recording(c)'
          PROVE  /\ AtNext(c)'
                 /\ ynab'[r][n] # "none"
                 /\ task'[c].matched <=> ynab'[r][n] = "hidden"
                 /\ VisibleId(task'[c]) = e
                 /\ ynab'[r][e] \in {"live", "deleted"}
                 /\ task'[c].cleared => cleared'[r][e]
      BY <1>3, <1>4, <1>5, <1>6, <1>7, <1>8, <2>3, Typed1 DEF Recording, AtNext, VisibleId
    <2>4. ASSUME NEW d \in Client, NEW b \in Client, Recording(d)', Recording(b)',
                 task'[b].row = task'[d].row
          PROVE  b = d
      BY <1>6, <1>8, <2>4 DEF ReaddInv, Answered, Recording
    <2>5. ASSUME NEW d \in Client, Recording(d)'
          PROVE  /\ AtNext(d)'
                 /\ ynab'[task'[d].row][task'[d].nth] # "none"
                 /\ task'[d].matched <=> ynab'[task'[d].row][task'[d].nth] = "hidden"
                 /\ ynab'[task'[d].row][VisibleId(task'[d])] \in {"live", "deleted"}
                 /\ task'[d].cleared => cleared'[task'[d].row][VisibleId(task'[d])]
      <3>1. CASE d = c
        BY <1>8, <2>3, <2>5, <3>1 DEF Recording
      <3> QED BY <2>2, <2>5, <3>1
    <2> QED BY <2>4, <2>5 DEF Answered
  <1>13. Correctable'
    BY <1>4, <1>5, <1>7, Typed1 DEF ReaddInv, Correctable
  <1>14. RowNamesEntry'
    BY <1>4, <1>5, <1>6, <1>7, Typed1 DEF ReaddInv, RowNamesEntry
  <1>15. ShadowsHide'
    BY <1>4, <1>5, <1>7, Typed1 DEF ReaddInv, ShadowsHide
  <1>16. ShownRight'
    <2>1. ASSUME NEW q \in Row \ overwritten', NEW f \in Shown(q)'
          PROVE  IF table'[q].status = "DELETED" THEN Unrecorded(q, f)' ELSE f = table'[q].id
      <3>1. f \in Entry /\ ynab'[q][f] = "live" /\ q \notin overwritten
        BY <1>4, <2>1 DEF Shown
      <3>2. CASE q # r
        <4>1. f \in Shown(q)
          BY <1>5, <1>7, <2>1, <3>1, <3>2, Typed1 DEF Shown
        <4>2. Unrecorded(q, f) => Unrecorded(q, f)'
          BY <1>4, <1>5, <1>7, <3>2, Typed1 DEF Unrecorded
        <4> QED BY <1>4, <3>1, <4>1, <4>2 DEF ReaddInv, ShownRight
      <3>3. CASE q = r
        <4>1. Shown(r) = {}
          BY <1>4, <1>6, <3>1, <3>3 DEF ReaddInv, ShownRight, Unrecorded, Shown
        <4>2. f = n \/ f = Typed
          BY <1>7, <3>1, <3>3, <4>1 DEF Shown, Entry
        <4>3. f = IF m THEN Typed ELSE n
          <5>1. CASE f = n
            BY <1>7, <3>1, <3>3, <5>1
          <5>2. CASE f # n
            BY <1>4, <1>7, <3>1, <3>3, <4>2, <5>2
          <5> QED BY <5>1, <5>2
        <4>4. Unrecorded(r, f)'
          <5>1. n = table'[r].count + 1 /\ ynab'[r][n] = IF m THEN "hidden" ELSE "live"
            BY <1>4, <1>5, <1>6, <1>7, Typed1
          <5> QED BY <4>3, <5>1 DEF Unrecorded
        <4> QED BY <1>4, <1>6, <3>3, <4>4
      <3> QED BY <3>2, <3>3
    <2> QED BY <2>1 DEF ShownRight
  <1> QED BY <1>9, <1>10, <1>11, <1>12, <1>13, <1>14, <1>15, <1>16 DEF ReaddInv

LEMMA RecordKeeps ==
  ASSUME ReaddInv, NEW c \in Client, Record(c)
  PROVE  ReaddInv'
  <1>1. PICK r \in Row, n \in Nth, v \in Entry :
          task[c].row = r /\ task[c].nth = n /\ VisibleId(task[c]) = v
    BY Typed1 DEF ReaddInv, Record, VisibleId
  <1>2. /\ Recording(c)
        /\ table' = [table EXCEPT ![r] = Readded(table[r], v)]
        /\ task' = [task EXCEPT ![c] = None]
        /\ UNCHANGED <<settled, ynab, cleared, fix, overwritten>>
    BY <1>1 DEF Record, Recording
  <1>3. TypeOK
    BY DEF ReaddInv
  <1>4. /\ n = table[r].count + 1 /\ table[r].status = "DELETED"
        /\ ynab[r][n] # "none" /\ v = IF ynab[r][n] = "hidden" THEN Typed ELSE n
        /\ ynab[r][v] \in {"live", "deleted"}
        /\ table[r].cleared => cleared[r][v]
        /\ \A d \in Client \ {c} : Recording(d) => task[d].row # r
    BY <1>1, <1>2 DEF ReaddInv, Answered, Requesting, AtNext, Recording, VisibleId
  <1>5. /\ \A q \in Row \ {r} : table'[q] = table[q]
        /\ table'[r].status = IF table[r].cleared THEN "BOOKED" ELSE "PENDING"
        /\ table'[r].id = v /\ table'[r].count = n /\ table'[r].cleared = table[r].cleared
    <2>1. table[r] \in [status : {"PENDING", "BOOKED", "DELETED"}, id : Entry,
                        count : Nth, cleared : BOOLEAN]
      BY <1>3 DEF TypeOK
    <2>2. \A q \in Row : table'[q] = IF q = r THEN Readded(table[r], v) ELSE table[q]
      BY <1>2, <1>3 DEF TypeOK
    <2> QED BY <1>4, <2>1, <2>2 DEF Readded
  <1>6. \A d \in Client : task'[d] = IF d = c THEN None ELSE task[d]
    BY <1>2, <1>3 DEF TypeOK
  <1>7. TypeOK'
    <2> DEFINE Rows == [status : {"PENDING", "BOOKED", "DELETED"}, id : Entry,
                        count : Nth, cleared : BOOLEAN]
    <2>1. table[r] \in Rows /\ table \in [Row -> Rows]
      BY <1>3 DEF TypeOK
    <2>2. Readded(table[r], v) \in Rows
      BY <1>4, <2>1 DEF Readded
    <2>3. table' \in [Row -> Rows]
      <3> HIDE DEF Rows
      <3> QED BY <1>2, <2>1, <2>2
    <2> QED BY <1>2, <1>3, <2>3 DEF TypeOK
  <1>8. IdsSpent'
    <2>1. ASSUME NEW q \in Row, NEW m \in Nth
          PROVE  IF m <= table'[q].count THEN ynab'[q][m] # "none"
                 ELSE ynab'[q][m] # "none" =>
                        m = table'[q].count + 1 /\ table'[q].status = "DELETED"
      <3>1. CASE q = r
        BY <1>2, <1>3, <1>4, <1>5, <3>1, Typed1 DEF ReaddInv, IdsSpent
      <3>2. CASE q # r
        BY <1>2, <1>5, <3>2 DEF ReaddInv, IdsSpent
      <3> QED BY <3>1, <3>2
    <2> QED BY <2>1 DEF IdsSpent
  <1>9. Requesting'
    <2>1. ASSUME NEW d \in Client, task'[d] # None
          PROVE  /\ task'[d].nth <= table'[task'[d].row].count + 1
                 /\ AtNext(d)' => /\ table'[task'[d].row].status = "DELETED"
                                  /\ task'[d].cleared = table'[task'[d].row].cleared
      <3>1. /\ task'[d] = task[d] /\ task[d] # None /\ task[d].row \in Row
            /\ task[d].nth \in Nat /\ table[r].count \in Nat
        BY <1>3, <1>6, <2>1, Typed1
      <3>2. CASE task[d].row = r
        BY <1>4, <1>5, <3>1, <3>2 DEF ReaddInv, Requesting, AtNext
      <3>3. CASE task[d].row # r
        BY <1>5, <3>1, <3>3 DEF ReaddInv, Requesting, AtNext
      <3> QED BY <3>2, <3>3
    <2> QED BY <2>1 DEF Requesting
  <1>10. Answered'
    <2>1. ASSUME NEW d \in Client, Recording(d)'
          PROVE  /\ d # c /\ Recording(d) /\ task'[d] = task[d]
                 /\ task[d].row \in Row \ {r}
                 /\ table'[task[d].row] = table[task[d].row]
      BY <1>3, <1>4, <1>5, <1>6, <2>1, Typed1 DEF Recording
    <2> QED BY <1>2, <2>1 DEF ReaddInv, Answered, AtNext, VisibleId
  <1>11. Correctable'
    BY <1>2, <1>4, <1>5 DEF ReaddInv, Correctable
  <1>12. RowNamesEntry'
    <2>1. ASSUME NEW q \in Row, table'[q].status # "DELETED"
          PROVE  /\ ynab'[q][table'[q].id] \in {"live", "deleted"}
                 /\ table'[q].status = "BOOKED" => cleared'[q][table'[q].id]
      <3>1. CASE q = r
        BY <1>2, <1>4, <1>5, <3>1
      <3>2. CASE q # r
        BY <1>2, <1>5, <2>1, <3>2 DEF ReaddInv, RowNamesEntry
      <3> QED BY <3>1, <3>2
    <2> QED BY <2>1 DEF RowNamesEntry
  <1>13. ShadowsHide'
    BY <1>2 DEF ReaddInv, ShadowsHide
  <1>14. ShownRight'
    <2>1. ASSUME NEW q \in Row \ overwritten', NEW e \in Shown(q)'
          PROVE  IF table'[q].status = "DELETED" THEN Unrecorded(q, e)' ELSE e = table'[q].id
      <3>1. e \in Shown(q) /\ q \notin overwritten
        BY <1>2, <2>1 DEF Shown
      <3>2. CASE q = r
        <4>1. Unrecorded(r, e)
          BY <1>4, <3>1, <3>2 DEF ReaddInv, ShownRight
        <4>2. e = v
          BY <1>4, <4>1 DEF Unrecorded
        <4> QED BY <1>5, <3>2, <4>2
      <3>3. CASE q # r
        BY <1>2, <1>5, <3>1, <3>3 DEF ReaddInv, ShownRight, Unrecorded
      <3> QED BY <3>2, <3>3
    <2> QED BY <2>1 DEF ShownRight
  <1> QED BY <1>7, <1>8, <1>9, <1>10, <1>11, <1>12, <1>13, <1>14 DEF ReaddInv

-----------------------------------------------------------------------------
(* The invariant of the specification.                                     *)

LEMMA InitKeeps == Init => ReaddInv
  <1> SUFFICES ASSUME Init PROVE ReaddInv
    OBVIOUS
  <1>1. 0 \in Nth /\ 0 \in Entry /\ Typed \in Entry /\ Typed # 0
        /\ \A n \in Nth : n \in Nat /\ n \in Entry
    BY ReaddAssumption DEF Nth, Entry
  <1>2. \A r \in Row : /\ table[r].status = "PENDING" /\ table[r].id = 0
                       /\ table[r].count = 0 /\ table[r].cleared = FALSE
    BY DEF Init
  <1>3. \A r \in Row, e \in Entry : ynab[r][e] = IF e = 0 THEN "live" ELSE "none"
    BY DEF Init
  <1>4. TypeOK
    BY <1>1 DEF Init, TypeOK
  <1>5. IdsSpent /\ ShadowsHide /\ RowNamesEntry
    BY <1>1, <1>2, <1>3 DEF IdsSpent, ShadowsHide, RowNamesEntry
  <1>6. Requesting /\ Answered /\ Correctable
    BY DEF Init, Requesting, Answered, Correctable, Recording
  <1>7. ShownRight
    BY <1>1, <1>2, <1>3 DEF ShownRight, Shown
  <1> QED BY <1>4, <1>5, <1>6, <1>7 DEF ReaddInv

LEMMA NextKeeps ==
  ASSUME ReaddInv, [Next]_vars
  PROVE  ReaddInv'
  <1>1. CASE UNCHANGED vars
    BY <1>1, Steady, RequestsEnd DEF vars, ReaddInv, TypeOK, Correctable
  <1>2. CASE Next
    BY <1>2, SettleKeeps, UserTypesKeeps, ClassifyKeeps, CorrectKeeps, UserDeletesKeeps,
       StartKeeps, PostKeeps, PostFailsKeeps, RecordKeeps, CrashKeeps DEF Next
  <1> QED BY <1>1, <1>2

(* However requests, corrections, the user, lost replies and crashes        *)
(* interleave, the numbers YNAB has seen are those the row counts, an       *)
(* answered request is alone with its row and still has the next number,    *)
(* and what a row that is not deleted names is no shadow                    *)
(* (readd_deleted_transaction, mark_readded).                               *)
THEOREM ReaddInvariant == Spec => []ReaddInv
  <1>1. Init => ReaddInv
    BY InitKeeps
  <1>2. ReaddInv /\ [Next]_vars => ReaddInv'
    BY NextKeeps
  <1> QED BY <1>1, <1>2, PTL DEF Spec

(* The import_ids spent on a row are 0 to its readd_count, and one more     *)
(* only for an attempt mark_readded has not recorded.                       *)
THEOREM IdsTheorem == Spec => []IdsInOrder
  <1>1. ReaddInv => IdsInOrder
    <2> SUFFICES ASSUME ReaddInv, NEW r \in Row
                 PROVE  LET spent == {n \in Nth : ynab[r][n] # "none"}
                            count == table[r].count
                        IN \/ spent = 0..count
                           \/ spent = 0..(count + 1) /\ table[r].status = "DELETED"
      BY DEF IdsInOrder
    <2> DEFINE spent == {n \in Nth : ynab[r][n] # "none"}
               count == table[r].count
    <2>1. /\ count \in Nat /\ count <= MaxReadds /\ MaxReadds \in Nat
          /\ \A n \in Nth : IF n <= count THEN n \in spent
                           ELSE n \in spent => n = count + 1 /\ table[r].status = "DELETED"
      BY Typed1, ReaddAssumption DEF ReaddInv, IdsSpent, Nth
    <2>2. spent \subseteq Nth
      OBVIOUS
    <2> HIDE DEF spent, count
    <2>3. CASE count + 1 \in spent
      BY <2>1, <2>2, <2>3 DEF Nth, spent, count
    <2>4. CASE count + 1 \notin spent
      BY <2>1, <2>2, <2>4 DEF Nth, spent, count
    <2> QED BY <2>3, <2>4
  <1> QED BY <1>1, ReaddInvariant, PTL

(* The register shows one entry of a row, unless a resubmitted correction   *)
(* has overwritten a re-added row.                                          *)
THEOREM OneEntryTheorem == Spec => []OneEntry
  <1>1. ReaddInv => OneEntry
    BY DEF ReaddInv, ShownRight, Unrecorded, OneEntry
  <1> QED BY <1>1, ReaddInvariant, PTL

(* A row that is not deleted names an entry the user can see or has         *)
(* deleted, cleared once it says BOOKED.                                    *)
THEOREM RowTheorem == Spec => []RowNamesEntry
  <1>1. ReaddInv => RowNamesEntry
    BY DEF ReaddInv
  <1> QED BY <1>1, ReaddInvariant, PTL

(* Of several requests for a row one takes effect: mark_readded finds the   *)
(* row deleted and with the count the attempt began with.                   *)
THEOREM OnceTheorem == Spec => RecordsOnce
  <1>1. ReaddInv => \A c \in Client : Record(c) =>
                       LET row == table[task[c].row]
                       IN row.status = "DELETED" /\ row.count + 1 = task[c].nth
    BY DEF ReaddInv, Answered, Requesting, AtNext, Recording, Record
  <1> QED BY <1>1, ReaddInvariant, PTL DEF RecordsOnce
=============================================================================
