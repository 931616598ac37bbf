---------------------------- MODULE MCTokenStore ----------------------------
(* Instances of TokenStore for TLC.  Callers are interchangeable.          *)
EXTENDS TokenStore, TLC

CONSTANTS c, d

Interchangeable == Permutations(Caller)
=============================================================================
