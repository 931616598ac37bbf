-------------------------- MODULE MCTransferPairs --------------------------
(* Instances of TransferPairs for TLC: transactions of three accounts, on  *)
(* days in and out of the window, with and without a known counterparty.   *)
EXTENDS TransferPairs

ThreeAccounts ==
  [account : 1..3, amount : {-5, 5}, day : 0..2, remote : 0..2]
=============================================================================
