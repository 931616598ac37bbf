------------------------- MODULE FetchWindow_proofs -------------------------
(***************************************************************************)
(* What is pruned stays out of every window of ordinary width, and the     *)
(* first cycle to succeed after a hold has booked settles it: for any      *)
(* transactions, windows and retention that the configuration admits.      *)
(***************************************************************************)
EXTENDS FetchWindow, TLAPS

(* A window reaches no further back than the backfill.                     *)
LEMMA SinceBound ==
  ASSUME WindowAssumption, TypeOK
  PROVE  CursorSince \in Nat /\ CursorSince + Backfill >= today
<1>1. today \in Nat /\ (cursor = None \/ cursor \in Nat) /\ Backfill \in Nat /\ Overlap \in Nat
  BY DEF TypeOK, Day, WindowAssumption
<1> QED
  BY <1>1 DEF CursorSince, Less, Greater

(* A cycle over observed transactions keeps the rows well-formed, ...      *)
LEMMA WrittenType ==
  ASSUME WindowAssumption, TypeOK, NEW S \in SUBSET Observed
  PROVE  Written(S) \in [Tx -> [status : {"none", "PENDING", "BOOKED"}, first : Day]]
<1> SUFFICES ASSUME NEW t \in Tx
             PROVE RowAfter(t) \in [status : {"none", "PENDING", "BOOKED"}, first : Day]
  BY DEF Written, TypeOK
<1>1. CASE New(t)
  BY <1>1 DEF RowAfter, TypeOK
<1>2. CASE ~New(t)
  BY <1>2 DEF RowAfter, TypeOK
<1> QED
  BY <1>1, <1>2

(* ... and so the whole invariant, whichever of them it gets to and whether*)
(* or not it prunes.                                                       *)
LEMMA ProcessKeeps ==
  ASSUME WindowAssumption, WindowInv, NEW S \in SUBSET Observed, NEW prune \in BOOLEAN,
         Process(S, prune), UNCHANGED outside,
         cursor' \in {cursor, today}, UNCHANGED mapping
  PROVE  WindowInv'
<1> USE DEF WindowInv, outside
<1> PICK gone : gone = {t \in Tx : prune /\ Expired(t, Written(S)[t])}
  OBVIOUS
<1>1. /\ row' = [t \in Tx |-> IF t \in gone THEN NoRow ELSE Written(S)[t]]
      /\ entries' = [t \in Tx |-> IF t \in S /\ New(t) THEN entries[t] \cup {KeyOf(t)}
                                  ELSE entries[t]]
      /\ pruned' = (pruned \ S) \cup gone
  BY DEF Process
<1>2. TypeOK'
  <2>1. today \in Day /\ 0 \in Day
    BY DEF TypeOK, Day, WindowAssumption
  <2>2. row' \in [Tx -> [status : {"none", "PENDING", "BOOKED"}, first : Day]]
    BY <1>1, <2>1, WrittenType DEF NoRow
  <2>3. entries' \in [Tx -> SUBSET Key]
    BY <1>1 DEF TypeOK, KeyOf, Key
  <2> QED
    BY <1>1, <2>1, <2>2, <2>3 DEF TypeOK
<1>3. RowsAreKnown'
  <2> SUFFICES ASSUME NEW t \in Tx, row'[t] # NoRow PROVE bank[t] # "none"
    BY DEF RowsAreKnown
  <2>1. t \in S \/ row[t] # NoRow
    BY <1>1 DEF Written
  <2> QED
    BY <2>1 DEF Observed, RowsAreKnown
<1>4. PrunedIsOld'
  <2> SUFFICES ASSUME NEW t \in pruned' PROVE date[t] # None /\ date[t] + Retention < today
    BY DEF PrunedIsOld
  <2>1. CASE t \in pruned
    BY <2>1 DEF PrunedIsOld
  <2>2. CASE t \in gone
    <3>1. t \in Tx /\ Written(S)[t].status = "BOOKED" /\ date[t] + Retention < today
      BY <2>2 DEF Expired
    <3>2. t \in S \/ row[t] # NoRow
      BY <3>1 DEF Written, NoRow
    <3>3. bank[t] # "none"
      BY <3>1, <3>2 DEF Observed, RowsAreKnown
    <3> QED
      BY <3>1, <3>3 DEF Dated
  <2> QED
    BY <1>1, <2>1, <2>2
<1> QED
  BY <1>2, <1>3, <1>4 DEF Dated

(* Every action keeps the invariant.                                       *)
LEMMA WindowStep ==
  ASSUME WindowAssumption, WindowInv, [Next]_vars
  PROVE  WindowInv'
<1> USE DEF WindowInv
<1>1. CASE Tick
  <2>1. today \in Nat /\ today' = today + 1 /\ today' \in Day /\ MaxDay \in Nat /\ Retention \in Nat
    BY <1>1 DEF Tick, TypeOK, Day, WindowAssumption
  <2>2. PrunedIsOld'
    <3> SUFFICES ASSUME NEW t \in pruned PROVE date[t] # None /\ date[t] + Retention < today'
      BY <1>1 DEF Tick, PrunedIsOld
    <3>1. date[t] # None /\ date[t] + Retention < today /\ date[t] \in Nat
      BY DEF PrunedIsOld, TypeOK, Day
    <3> QED
      BY <2>1, <3>1
  <2> QED
    BY <1>1, <2>1, <2>2 DEF Tick, TypeOK, Dated, RowsAreKnown
<1>2. ASSUME NEW t \in Tx, Appear(t) PROVE WindowInv'
  <2>1. /\ bank[t] = "none" /\ bank' \in [Tx -> {"none", "held", "booked", "void"}]
        /\ \A u \in Tx : u # t => bank'[u] = bank[u]
        /\ bank'[t] # "none"
    BY <1>2 DEF Appear, TypeOK
  <2>2. PICK d \in Less(today, Late)..today : date' = [date EXCEPT ![t] = d]
    BY <1>2 DEF Appear
  <2>3. d \in Day /\ d # None
    BY <2>2 DEF TypeOK, Day, Less, WindowAssumption
  <2>4. date' \in [Tx -> Day \cup {None}] /\ date'[t] = d
        /\ \A u \in Tx : u # t => date'[u] = date[u]
    BY <2>2, <2>3 DEF TypeOK
  <2>5. t \notin pruned
    BY <2>1 DEF PrunedIsOld, Dated
  <2>6. UNCHANGED <<today, row, entries, cursor, mapping, pruned>>
    BY <1>2 DEF Appear
  <2>7. TypeOK' BY <2>1, <2>4, <2>6 DEF TypeOK
  <2>8. Dated' BY <2>1, <2>3, <2>4 DEF Dated
  <2>9. RowsAreKnown' BY <2>1, <2>6 DEF RowsAreKnown
  <2>10. PrunedIsOld' BY <2>4, <2>5, <2>6 DEF PrunedIsOld, TypeOK
  <2> QED BY <2>7, <2>8, <2>9, <2>10
<1>3. ASSUME NEW t \in Tx, BooksOrVoids(t) PROVE WindowInv'
  <2>1. /\ bank[t] = "held" /\ bank' \in [Tx -> {"none", "held", "booked", "void"}]
        /\ \A u \in Tx : bank'[u] = "none" <=> bank[u] = "none"
    BY <1>3 DEF BooksOrVoids, TypeOK
  <2> QED
    BY <1>3, <2>1 DEF BooksOrVoids, TypeOK, Dated, RowsAreKnown, PrunedIsOld
<1>4. CASE CycleSucceeds
  BY <1>4, ProcessKeeps DEF CycleSucceeds
<1>5. CASE CycleFails
  BY <1>5, ProcessKeeps DEF CycleFails
<1>6. CASE CycleWithout
  BY <1>6, ProcessKeeps DEF CycleWithout
<1>7. CASE UpdateMapping \/ DeleteMapping \/ CreateMapping \/ Restart
  BY <1>7 DEF UpdateMapping, DeleteMapping, CreateMapping, Restart, MappingBecomes, outside, TypeOK, Dated, RowsAreKnown, PrunedIsOld
<1>8. CASE UNCHANGED vars
  BY <1>8 DEF vars, TypeOK, Dated, RowsAreKnown, PrunedIsOld
<1> QED
  BY <1>1, <1>2, <1>3, <1>4, <1>5, <1>6, <1>7, <1>8 DEF Next

(* Whatever cycles fail, holds are voided and mappings edited, what was    *)
(* pruned is older than the retention.                                     *)
THEOREM WindowInvariant == Spec => []WindowInv
<1>1. Init => WindowInv
  BY WindowAssumption
  DEF Init, WindowInv, TypeOK, Day, NoRow, Key, Dated, RowsAreKnown, PrunedIsOld,
      WindowAssumption
<1>2. WindowInv /\ [Next]_vars => WindowInv'
  BY WindowAssumption, WindowStep
<1> QED
  BY <1>1, <1>2, PTL DEF Spec

(* So no window of ordinary width shows it again: with the retention the   *)
(* validator of config.py demands, only a row that stays PENDING can bring *)
(* it back.                                                                *)
THEOREM PrunedIsOutOfReach == Spec => []PrunedStaysOut
<1>1. WindowInv => PrunedStaysOut
  <2> SUFFICES ASSUME WindowInv, NEW t \in pruned \cap Observed PROVE Widened
    BY DEF PrunedStaysOut
  <2>1. TypeOK /\ t \in Tx /\ date[t] \in Nat /\ date[t] + Retention < today
    BY DEF WindowInv, TypeOK, PrunedIsOld, Day
  <2>2. CursorSince \in Nat /\ CursorSince + Backfill >= today
    BY <2>1, WindowAssumption, SinceBound
  <2>3. today \in Nat /\ Retention \in Nat /\ Backfill \in Nat /\ Retention >= Backfill
    BY <2>1, WindowAssumption DEF TypeOK, Day, WindowAssumption
  <2>4. ~(date[t] >= CursorSince)
    BY <2>1, <2>2, <2>3
  <2>5. PICK u \in Waiting : date[t] >= row[u].first
    BY <2>4 DEF Observed, InWindow
  <2>6. row[u].first \in Nat
    BY <2>1 DEF TypeOK, Waiting, Day
  <2> QED
    BY <2>1, <2>3, <2>5, <2>6 DEF Widened
<1> QED
  BY <1>1, WindowInvariant, PTL

(* A cycle that succeeds leaves no booked transaction PENDING, but for the *)
(* one whose hold was first seen on a day after its date.                  *)
THEOREM HoldsSettleInTime == Spec => HoldsAreSettled
<1>1. WindowInv /\ CycleSucceeds =>
        \A t \in Tx : Settles(t) => row'[t].status # "PENDING" \/ date[t] < row[t].first
  <2> SUFFICES ASSUME WindowInv, CycleSucceeds, NEW t \in Tx, Settles(t)
               PROVE row'[t].status # "PENDING" \/ date[t] < row[t].first
    OBVIOUS
  <2>1. row[t].status = "PENDING" /\ bank[t] = "booked" /\ TypeOK /\ Dated
    BY DEF Settles, WindowInv
  <2>2. date[t] \in Nat /\ row[t].first \in Nat
    BY <2>1 DEF TypeOK, Dated, Day
  <2>3. CASE t \in Observed
    <3>1. Written(Observed)[t] = [row[t] EXCEPT !.status = "BOOKED"]
      BY <2>1, <2>3 DEF Written, RowAfter, New, Settles, NoRow
    <3>2. row'[t] \in {NoRow, Written(Observed)[t]}
      BY DEF CycleSucceeds, Process
    <3> QED
      BY <2>1, <3>1, <3>2 DEF NoRow, TypeOK
  <2>4. CASE t \notin Observed
    <3>1. t \in Waiting
      BY <2>1 DEF Waiting
    <3>2. ~(date[t] >= row[t].first)
      BY <2>1, <2>4, <3>1 DEF Observed, InWindow
    <3> QED
      BY <2>2, <3>2
  <2> QED
    BY <2>3, <2>4
<1>2. WindowInv /\ [Next]_vars =>
        [CycleSucceeds => \A t \in Tx : Settles(t) =>
           row'[t].status # "PENDING" \/ date[t] < row[t].first]_vars
  BY <1>1
<1> QED
  BY <1>2, WindowInvariant, PTL DEF Spec, HoldsAreSettled
=============================================================================
