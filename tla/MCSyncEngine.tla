---------------------------- MODULE MCSyncEngine ----------------------------
(* Instances of SyncEngine for TLC: which transactions there are, how they *)
(* pair up as transfers, and which are mistaken for one another.           *)
EXTENDS Ledger

CONSTANTS a, b, c, d

NoPairs == {}
OnePair == {<<a, b>>}
NobodyAlike == {}
BothAlike == {<<a, c>>, <<c, a>>}

(* Two legs of one transfer, two that look alike, two that do not, and one *)
(* card payment; or all at once.                                           *)
SmallCasts == {{a, b}, {a, c}, {b, c}, {d}}
RoughCasts == {{a, c}, {b, c}}
Everyone == {Tx}
=============================================================================
