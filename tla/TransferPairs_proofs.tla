------------------------ MODULE TransferPairs_proofs ------------------------
(***************************************************************************)
(* Proofs about TransferPairs, for any number of candidates, any window    *)
(* and any candidates: the loop of find_transfer_pairs, which judges each  *)
(* candidate among those not paired yet, returns exactly the pairs that are*)
(* mutual among all, and pairs nothing twice.                              *)
(*                                                                         *)
(* The argument: being a plausible partner is symmetric, so one who is     *)
(* paired already has no plausible partner but the one it is paired with;  *)
(* leaving the paired ones out of account changes nothing for the others.  *)
(***************************************************************************)
EXTENDS TransferPairs, TLAPS

Inv == TypeOK /\ LoopInv

-----------------------------------------------------------------------------
(* Either both see the other as a plausible partner or neither does.       *)
LEMMA PartnersSymmetric ==
  ASSUME cand \in [Index -> Candidates], NEW i \in Index, NEW j \in Index,
         j \in Partners(i)
  PROVE  i \in Partners(j)
<1> DEFINE c == cand[i]
           e == cand[j]
<1>1. /\ c.account \in Int /\ c.amount \in Int /\ c.day \in Int
      /\ e.account \in Int /\ e.amount \in Int /\ e.day \in Int
  <2>1. cand[i] \in [account : Int, amount : Int, day : Int, remote : Int]
    BY TransferAssumption
  <2>2. cand[j] \in [account : Int, amount : Int, day : Int, remote : Int]
    BY TransferAssumption
  <2> QED BY <2>1, <2>2
<1>2. i # j /\ Plausible(c, e)
  BY DEF Partners
<1>3. c.amount = -e.amount
  BY <1>1, <1>2 DEF Plausible
<1>4. Gap(e.day, c.day) = Gap(c.day, e.day)
  BY <1>1 DEF Gap
<1>5. Plausible(e, c)
  BY <1>2, <1>3, <1>4 DEF Plausible
<1> QED BY <1>2, <1>5 DEF Partners

(* A mutual pair leaves its members no other pair to be in.                *)
LEMMA MutualOnce ==
  ASSUME NEW p \in Mutual, NEW q \in Mutual, {p[1], p[2]} \cap {q[1], q[2]} # {}
  PROVE  p = q
<1>1. /\ p \in Index \X Index /\ p[1] < p[2]
      /\ Partners(p[1]) = {p[2]} /\ Partners(p[2]) = {p[1]}
      /\ q \in Index \X Index /\ q[1] < q[2]
      /\ Partners(q[1]) = {q[2]} /\ Partners(q[2]) = {q[1]}
  BY DEF Mutual
<1>2. CASE p[1] = q[1]
  BY <1>1, <1>2
<1>3. CASE p[2] = q[2]
  BY <1>1, <1>3
<1>4. CASE p[1] = q[2]
  <2>1. p[2] = q[1]
    BY <1>1, <1>4
  <2> QED BY <1>1, <1>4, <2>1 DEF Index
<1>5. CASE p[2] = q[1]
  <2>1. p[1] = q[2]
    BY <1>1, <1>5
  <2> QED BY <1>1, <1>5, <2>1 DEF Index
<1> QED BY <1>2, <1>3, <1>4, <1>5

(* Nobody's plausible partner is paired already, but with itself.          *)
LEMMA PartnersUnused ==
  ASSUME Inv, NEW i \in Index \ used
  PROVE  Partners(i) \cap used = {}
<1> SUFFICES ASSUME NEW k \in Partners(i), k \in used
             PROVE  FALSE
  OBVIOUS
<1>1. cand \in [Index -> Candidates] /\ k \in Index
  BY DEF Inv, TypeOK, Partners
<1>2. i \in Partners(k)
  BY <1>1, PartnersSymmetric
<1>3. PICK p \in pairs : k \in {p[1], p[2]}
  BY DEF Inv, LoopInv
<1>4. Partners(p[1]) = {p[2]} /\ Partners(p[2]) = {p[1]} /\ p \in Index \X Index
  BY DEF Inv, LoopInv, Mutual
<1>5. i \in {p[1], p[2]}
  BY <1>2, <1>3, <1>4
<1> QED BY <1>5 DEF Inv, LoopInv

-----------------------------------------------------------------------------
(* The loop begins with nothing paired.                                    *)
LEMMA InitLoop == Init => Inv
<1> SUFFICES ASSUME Init PROVE Inv
  OBVIOUS
<1>1. TypeOK
  BY TransferAssumption DEF Init, TypeOK, Index
<1>2. {p \in Mutual : p[1] < next} = {}
  BY DEF Init, Mutual, Index
<1> QED BY <1>1, <1>2 DEF Init, Inv, LoopInv

(* A candidate passed over is the first leg of no mutual pair: it is the   *)
(* second of an earlier one, or the code's test has failed for good.       *)
LEMMA SkipLoop == Inv /\ Skip => Inv'
<1> SUFFICES ASSUME Inv, Skip PROVE Inv'
  OBVIOUS
<1>1. TypeOK'
  BY TransferAssumption DEF Inv, TypeOK, Skip, Index
<1>2. ASSUME NEW p \in Mutual, p[1] = next
      PROVE  FALSE
  <2>1. /\ p \in Index \X Index /\ p[1] < p[2]
        /\ Partners(p[1]) = {p[2]} /\ Partners(p[2]) = {p[1]}
    BY DEF Mutual
  <2>2. CASE next \in used
    <3>1. PICK q \in pairs : next \in {q[1], q[2]}
      BY <2>2 DEF Inv, LoopInv
    <3>2. q \in Mutual /\ q[1] < next
      BY DEF Inv, LoopInv
    <3>3. p = q
      BY <1>2, <3>1, <3>2, MutualOnce
    <3> QED BY <1>2, <2>1, <3>2, <3>3 DEF Index
  <2>3. CASE next \notin used
    <3>1. Partners(next) \cap used = {}
      BY <1>2, <2>1, <2>3, PartnersUnused
    <3>2. Agreed(next, p[2])
      BY <1>2, <2>1, <2>3, <3>1 DEF Agreed
    <3> QED BY <2>1, <2>3, <3>2 DEF Skip
  <2> QED BY <2>2, <2>3
<1>3. Mutual' = Mutual
  BY DEF Skip, Mutual, Partners
<1>4. ASSUME NEW p \in Mutual
      PROVE  p[1] < next + 1 <=> p[1] < next
  <2>1. p[1] \in Int /\ next \in Int
    BY TransferAssumption DEF Mutual, Inv, TypeOK, Index
  <2> QED BY <1>2, <2>1
<1>5. LoopInv'
  BY <1>3, <1>4 DEF Inv, LoopInv, Skip
<1> QED BY <1>1, <1>5 DEF Inv

(* A pair the code's test accepts is mutual, and its second leg is yet to  *)
(* come.                                                                   *)
LEMMA MatchLoop ==
  ASSUME Inv, NEW j \in Index, Match(j)
  PROVE  Inv'
<1>1. TypeOK'
  <2>1. next \in Index /\ next + 1 \in 1..(N + 1)
    BY TransferAssumption DEF Match, Index
  <2>2. cand' = cand /\ next' = next + 1
    BY DEF Match
  <2>3. pairs' \subseteq Index \X Index /\ used' \subseteq Index
    BY <2>1 DEF Inv, TypeOK, Match, Taken
  <2> QED BY <2>1, <2>2, <2>3 DEF Inv, TypeOK
<1>2. next \in Index \ used /\ Partners(next) \ used = {j} /\ Partners(j) \ used = {next}
  BY DEF Match, Agreed
<1>3. Partners(next) = {j} /\ j \notin used /\ j # next
  <2>1. Partners(next) \cap used = {}
    BY <1>2, PartnersUnused
  <2> QED BY <1>2, <2>1 DEF Partners
<1>4. Partners(j) = {next}
  <2>1. Partners(j) \cap used = {}
    BY <1>3, PartnersUnused
  <2> QED BY <1>2, <2>1
<1>5. next < j
  <2>1. SUFFICES ASSUME j < next PROVE FALSE
    BY <1>2, <1>3 DEF Index
  <2>2. <<j, next>> \in Mutual
    BY <1>2, <1>3, <1>4, <2>1 DEF Mutual
  <2>3. <<j, next>> \in pairs
    BY <2>1, <2>2 DEF Inv, LoopInv
  <2> QED BY <1>3, <2>3 DEF Inv, LoopInv
<1>6. <<next, j>> \in Mutual
  BY <1>2, <1>3, <1>4, <1>5 DEF Mutual
<1>7. Mutual' = Mutual
  BY DEF Match, Mutual, Partners
<1>8. ASSUME NEW p \in Mutual
      PROVE  p[1] < next + 1 <=> p[1] < next \/ p = <<next, j>>
  <2>1. p[1] \in Int /\ next \in Int
    BY <1>2 DEF Mutual, Index
  <2>2. p[1] = next => p = <<next, j>>
    BY <1>6, MutualOnce
  <2> QED BY <2>1, <2>2
<1>9. pairs' = {p \in Mutual' : p[1] < next'}
  BY <1>6, <1>7, <1>8 DEF Inv, LoopInv, Match
<1>10. used' = {i \in Index : \E p \in pairs' : i \in {p[1], p[2]}}
  <2>1. used = {i \in Index : \E p \in pairs : i \in {p[1], p[2]}}
    BY DEF Inv, LoopInv
  <2>2. used' = used \cup {next, j} /\ pairs' = pairs \cup {<<next, j>>}
    BY DEF Match, Taken
  <2>3. \A i \in Index : i \in {next, j} <=> i \in {<<next, j>>[1], <<next, j>>[2]}
    OBVIOUS
  <2>4. \A i \in Index : (\E p \in pairs' : i \in {p[1], p[2]}) <=>
                           (\E p \in pairs : i \in {p[1], p[2]}) \/ i \in {next, j}
    BY <2>2, <2>3
  <2>5. used' \subseteq Index
    BY <1>2, <2>1, <2>2
  <2>6. \A i \in Index : i \in used' <=> i \in used \/ i \in {next, j}
    BY <2>2
  <2>7. \A i \in Index : i \in used <=> \E p \in pairs : i \in {p[1], p[2]}
    BY <2>1
  <2> QED BY <2>4, <2>5, <2>6, <2>7
<1> QED BY <1>1, <1>9, <1>10 DEF Inv, LoopInv

(* The loop keeps its invariant.                                           *)
LEMMA NextLoop == Inv /\ [Next]_vars => Inv'
<1> SUFFICES ASSUME Inv, [Next]_vars PROVE Inv'
  OBVIOUS
<1>1. CASE Skip
  BY <1>1, SkipLoop
<1>2. ASSUME NEW j \in Index, Match(j) PROVE Inv'
  BY <1>2, MatchLoop
<1>3. CASE UNCHANGED vars
  BY <1>3 DEF vars, Inv, TypeOK, LoopInv, Mutual, Partners
<1> QED BY <1>1, <1>2, <1>3 DEF Next

-----------------------------------------------------------------------------
(* find_transfer_pairs returns the pairs in which each is the one candidate*)
(* the other could belong to, whatever the order of the candidates.        *)
THEOREM PairsAreMutual == Spec => []ReturnsMutual
<1>1. Inv => ReturnsMutual
  <2> SUFFICES ASSUME Inv, next > N PROVE pairs = Mutual
    BY DEF ReturnsMutual
  <2>1. next = N + 1 /\ N \in Nat
    BY TransferAssumption DEF Inv, TypeOK
  <2>2. \A p \in Mutual : p[1] < next
    BY <2>1 DEF Mutual, Index
  <2> QED BY <2>2 DEF Inv, LoopInv
<1> QED BY <1>1, InitLoop, NextLoop, PTL DEF Spec

(* At no moment is a transaction a leg of two of the pairs found.          *)
THEOREM EachOnce == Spec => []OneTransferEach
<1>1. Inv => OneTransferEach
  BY MutualOnce DEF Inv, LoopInv, OneTransferEach
<1> QED BY <1>1, InitLoop, NextLoop, PTL DEF Spec

(* The loop has found what it has passed, and used up no more than that.   *)
THEOREM LoopCorrect == Spec => [](TypeOK /\ LoopInv)
BY InitLoop, NextLoop, PTL DEF Spec, Inv
=============================================================================
