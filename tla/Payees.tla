------------------------------- MODULE Payees -------------------------------
(***************************************************************************)
(* The payees of one YNAB budget, which the user renames, merges and       *)
(* deletes, and payee_mappings of sync/state_db.py: which payee a name in  *)
(* a bank's statement first led to, so that later creates name it by id    *)
(* whatever the user has since renamed it to.  The table is healed by a    *)
(* create whose payee turns out to be gone (the module that creates says   *)
(* when) and by a daily sweep (reconcile_payee_mappings).                  *)
(***************************************************************************)

CONSTANTS
  Name,     (* payee names as banks give them                              *)
  PayeeId,  (* ids YNAB may give to payees; finite: a bound                *)
  None

ASSUME PayeeAssumption == None \notin PayeeId /\ None \notin Name

VARIABLES
  payee,    (* what became of each payee                                   *)
  nameOf,   (* the name it goes by; None for one of the user's choosing    *)
  called,   (* names it has gone by (history)                              *)
  learned,  (* payee_mappings                                              *)
  sweep     (* the reconciliation under way: ids to look up, ids found gone*)

payeeVars == <<payee, nameOf, called, learned, sweep>>

NoSweep == [unsure |-> {}, gone |-> {}]

PayeesInit ==
  /\ payee = [p \in PayeeId |-> "none"]
  /\ nameOf = [p \in PayeeId |-> None]
  /\ called = [p \in PayeeId |-> {}]
  /\ learned = [n \in Name |-> None]
  /\ sweep = NoSweep

Live == {p \in PayeeId : payee[p] = "live"}
Named(n) == {p \in Live : nameOf[p] = n}
Cached == {p \in PayeeId : \E n \in Name : learned[n] = p}

-----------------------------------------------------------------------------
(* Mutated forms, each a plausible bug in the definition it is named after.*)

(* The bulk listing alone is believed: no payee is looked up.              *)
Gone_Unlisted(p) == TRUE

(* A later create replaces what was learned.                               *)
Learned_Last(n, p) == [learned EXCEPT ![n] = p]

-----------------------------------------------------------------------------
(* YNAB and the user.                                                      *)

(* A transaction submitted with payee_name n gets the payee that goes by   *)
(* exactly that name, or a new one: f[n].                                  *)
Resolve(f) ==
  /\ \A n \in DOMAIN f : IF Named(n) # {} THEN f[n] \in Named(n) ELSE payee[f[n]] = "none"
  /\ \A m, n \in DOMAIN f : f[m] = f[n] => m = n
  /\ payee' = [p \in PayeeId |-> IF \E n \in DOMAIN f : f[n] = p THEN "live" ELSE payee[p]]
  /\ nameOf' = [p \in PayeeId |-> IF \E n \in DOMAIN f : f[n] = p
                                  THEN CHOOSE n \in DOMAIN f : f[n] = p ELSE nameOf[p]]
  /\ called' = [p \in PayeeId |-> called[p] \cup {n \in DOMAIN f : f[n] = p}]

Rename(p) ==
  /\ payee[p] = "live" /\ nameOf[p] # None
  /\ nameOf' = [nameOf EXCEPT ![p] = None]
  /\ UNCHANGED <<payee, called, learned, sweep>>

(* Deleted, merged into another, or orphaned and cleaned up: for good.     *)
Vanish(p) ==
  /\ payee[p] = "live"
  /\ payee' = [payee EXCEPT ![p] = "gone"]
  /\ nameOf' = [nameOf EXCEPT ![p] = None]
  /\ UNCHANGED <<called, learned, sweep>>

-----------------------------------------------------------------------------
(* payee_mappings.                                                         *)

(* upsert_payee_mapping: the first write wins.                             *)
Learned(n, p) == IF learned[n] = None THEN [learned EXCEPT ![n] = p] ELSE learned

(* delete_payee_mappings_for_ids.                                          *)
Without(P) == [n \in Name |-> IF learned[n] \in P THEN None ELSE learned[n]]

(* reconcile_payee_mappings: the bulk listing never shows a payee that is  *)
(* gone, but may lack one that is there; ...                               *)
SweepList ==
  /\ sweep = NoSweep
  /\ \E listed \in SUBSET Live : sweep' = [NoSweep EXCEPT !.unsure = Cached \ listed]
  /\ UNCHANGED <<payee, nameOf, called, learned>>

(* ... so each id it lacks is looked up (a lookup that fails is passed over)*)
Gone(p) == payee[p] = "gone"

SweepLookUp(p) ==
  /\ p \in sweep.unsure
  /\ \E found \in BOOLEAN :
       sweep' = [unsure |-> sweep.unsure \ {p},
                 gone |-> IF found /\ Gone(p) THEN sweep.gone \cup {p} ELSE sweep.gone]
  /\ UNCHANGED <<payee, nameOf, called, learned>>

(* ... and what is really gone is forgotten.                               *)
SweepHeal ==
  /\ sweep.unsure = {} /\ sweep.gone # {}
  /\ learned' = Without(sweep.gone)
  /\ sweep' = NoSweep
  /\ UNCHANGED <<payee, nameOf, called>>

PayeesNext ==
  \/ \E p \in PayeeId : Rename(p) \/ Vanish(p) \/ SweepLookUp(p)
  \/ SweepList \/ SweepHeal

-----------------------------------------------------------------------------
(* Properties.                                                             *)

PayeesTypeOK ==
  /\ payee \in [PayeeId -> {"none", "live", "gone"}]
  /\ nameOf \in [PayeeId -> Name \cup {None}]
  /\ called \in [PayeeId -> SUBSET Name]
  /\ learned \in [Name -> PayeeId \cup {None}]
  /\ sweep \in [unsure : SUBSET PayeeId, gone : SUBSET PayeeId]

(* What a name has led to it keeps leading to as long as the payee is      *)
(* there, whatever it is called by now, however many creates race, and     *)
(* whatever a listing leaves out.                                          *)
Anchored ==
  [][\A n \in Name : learned[n] # None /\ learned'[n] # learned[n] =>
       payee[learned[n]] = "gone"]_payeeVars

(* What is learned for a name was a payee of that name once, and what the  *)
(* sweep is about to forget is gone.                                       *)
LearnedRight ==
  /\ \A n \in Name : learned[n] # None => n \in called[learned[n]]
  /\ \A p \in PayeeId : nameOf[p] # None => nameOf[p] \in called[p]
  /\ \A p \in sweep.gone : payee[p] = "gone"
=============================================================================
