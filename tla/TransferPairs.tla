--------------------------- MODULE TransferPairs ---------------------------
(***************************************************************************)
(* find_transfer_pairs (sync/transfers.py): which of a budget's new        *)
(* transactions are two legs of one transfer.  The function goes through   *)
(* the candidates in their order and leaves out of account those it has    *)
(* paired already; what it returns nevertheless depends on no order.       *)
(*                                                                         *)
(* Amounts and dates are small integers; a day is one of the configured    *)
(* unit (calendar or working days).  A candidate's account number is the   *)
(* account's own; its counterparty may be unknown.                         *)
(***************************************************************************)
EXTENDS Integers

CONSTANTS
  N,           (* how many candidates there are                            *)
  Candidates,  (* what a candidate may look like                           *)
  Window       (* config: transfer_match_window_days                       *)

ASSUME TransferAssumption ==
  /\ N \in Nat /\ Window \in Nat
  /\ Candidates \subseteq [account : Int, amount : Int, day : Int, remote : Int]

VARIABLES
  cand,   (* the candidates, in order                                      *)
  next,   (* the one the loop looks at                                     *)
  used,   (* the ones paired so far                                        *)
  pairs   (* the result so far                                             *)

vars == <<cand, next, used, pairs>>

Index == 1..N

Init ==
  /\ cand \in [Index -> Candidates]
  /\ next = 1 /\ used = {} /\ pairs = {}

Gap(d, e) == IF d < e THEN e - d ELSE d - e

(* Either leg may be the one that names the other's account.               *)
Names(c, e) == c.remote = e.account

(* partners_of, before any candidate is excluded.                          *)
Plausible(c, e) ==
  /\ e.account # c.account
  /\ e.amount = -c.amount
  /\ Gap(c.day, e.day) <= Window
  /\ Names(c, e) \/ Names(e, c)

Partners(i) == {j \in Index \ {i} : Plausible(cand[i], cand[j])}

-----------------------------------------------------------------------------
(* Mutated forms, each a plausible bug in the definition it is named after.*)

(* The first of several partners will do.                                  *)
Agreed_AnyReverse(i, j) == Partners(i) \ used = {j}

(* Nobody asks whom else the partner could belong to.                      *)
Agreed_OneWay(i, j) == Partners(i) = {j}

(* The candidate is marked as used, its partner is not.                    *)
Taken_Candidate(i, j) == {i}

-----------------------------------------------------------------------------
(* Each must be the only candidate the other could be paired with.         *)
Agreed(i, j) == Partners(i) \ used = {j} /\ Partners(j) \ used = {i}

Taken(i, j) == {i, j}

Skip ==
  /\ next \in Index
  /\ next \in used \/ \A j \in Index : ~Agreed(next, j)
  /\ next' = next + 1
  /\ UNCHANGED <<cand, used, pairs>>

Match(j) ==
  /\ next \in Index /\ next \notin used
  /\ Agreed(next, j)
  /\ pairs' = pairs \cup {<<next, j>>}
  /\ used' = used \cup Taken(next, j)
  /\ next' = next + 1
  /\ UNCHANGED cand

Next == Skip \/ \E j \in Index : Match(j)

Spec == Init /\ [][Next]_vars

-----------------------------------------------------------------------------
(* Properties.                                                             *)

TypeOK ==
  /\ cand \in [Index -> Candidates] /\ next \in 1..(N + 1)
  /\ used \subseteq Index /\ pairs \subseteq Index \X Index

(* What the docstring of find_transfer_pairs promises: the pairs in which  *)
(* each is the one candidate the other could belong to, judged among all   *)
(* candidates and in no order; an ambiguous candidate is left alone on both*)
(* sides.                                                                  *)
Mutual == {p \in Index \X Index : /\ p[1] < p[2]
                                  /\ Partners(p[1]) = {p[2]}
                                  /\ Partners(p[2]) = {p[1]}}

(* The loop returns exactly these.                                         *)
ReturnsMutual == next > N => pairs = Mutual

(* No transaction becomes a leg of two transfers.                          *)
OneTransferEach ==
  \A p, q \in pairs : {p[1], p[2]} \cap {q[1], q[2]} # {} => p = q

(* The inductive invariant: the loop has found the mutual pairs whose first*)
(* leg it has passed, and has used up their members.                       *)
LoopInv ==
  /\ pairs = {p \in Mutual : p[1] < next}
  /\ used = {i \in Index : \E p \in pairs : i \in {p[1], p[2]}}
=============================================================================
