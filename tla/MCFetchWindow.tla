---------------------------- MODULE MCFetchWindow ---------------------------
(* Instances of FetchWindow for TLC.  Transactions are interchangeable.    *)
EXTENDS FetchWindow, TLC

CONSTANTS t, u

Interchangeable == Permutations(Tx)
=============================================================================
