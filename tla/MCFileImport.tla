---------------------------- MODULE MCFileImport ----------------------------
(* Instances of FileImport for TLC.                                        *)
EXTENDS FileImport, TLC

CONSTANTS n, x, y, c, d, p, q

SameName == [k \in Content |-> n]
Interchangeable == Permutations(Client) \cup Permutations(PayeeId) \cup Permutations(Content)
=============================================================================
