---------------------------- MODULE MCSmallParts ----------------------------
(* Small instances of the five components. *)
EXTENDS SmallParts, TLC

MCUntil ==
  [daily |-> 7, access |-> 7, admission |-> 10, health |-> 4, reconciliation |-> 2]
MCAliasOrder == <<"html", "manifest">>

Alike == Permutations(Slots)
=============================================================================
