------------------------------ MODULE Booking -------------------------------
(***************************************************************************)
(* What a sync promises for each bank transaction, whatever the machinery  *)
(* below does: it is held (imported while the bank still calls it PENDING),*)
(* settled (imported and BOOKED) or dismissed (found deleted in YNAB).     *)
(* Nothing is settled before the bank has booked it, nothing held or       *)
(* settled is forgotten, and settled and dismissed are final.              *)
(***************************************************************************)
CONSTANT Tx

VARIABLES bank, state

Init == /\ bank = [t \in Tx |-> "none"]
        /\ state = [t \in Tx |-> "open"]

BankReports(t, st) ==
  /\ bank[t] = "none" \/ (bank[t] = "PENDING" /\ st = "BOOKED")
  /\ bank' = [bank EXCEPT ![t] = st]
  /\ UNCHANGED state

Hold(t) ==
  /\ bank[t] # "none" /\ state[t] = "open"
  /\ state' = [state EXCEPT ![t] = "held"]
  /\ UNCHANGED bank

Settle(t) ==
  /\ bank[t] = "BOOKED" /\ state[t] \in {"open", "held"}
  /\ state' = [state EXCEPT ![t] = "settled"]
  /\ UNCHANGED bank

Dismiss(t) ==
  /\ bank[t] # "none" /\ state[t] \in {"open", "held"}
  /\ state' = [state EXCEPT ![t] = "dismissed"]
  /\ UNCHANGED bank

Next == \E t \in Tx : \/ \E st \in {"PENDING", "BOOKED"} : BankReports(t, st)
                      \/ Hold(t) \/ Settle(t) \/ Dismiss(t)

Spec == Init /\ [][Next]_<<bank, state>>
=============================================================================
