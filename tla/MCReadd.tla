------------------------------ MODULE MCReadd ------------------------------
(* Instances of Readd for TLC.  Clients are interchangeable, rows do not   *)
(* touch one another.                                                      *)
EXTENDS Readd, TLC

CONSTANTS r, c, d

Interchangeable == Permutations(Client)
=============================================================================
